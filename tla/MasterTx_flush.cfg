CONSTANTS
  TASK_ITEM_NUM = 3
  MSG_TIMER_NUM = 2
  MB_TX_MEM_NUM = 2
  TxCheckDelay = 2
  RespTimeout = 3
  Mode = "TCP"
  TidNum = 3
  MaxAir = 1
  Restart = TRUE
  FlushAddr <- MCSlave
  Req <- MCReq
  NoReq = NoReq
  NoFrame = NoFrame
  Slave <- MCSlave
  SlaveAddr <- MCSlaveAddr
  Shape <- MCShape
SPECIFICATION FairSpec
PROPERTIES
  MainLoopTurns

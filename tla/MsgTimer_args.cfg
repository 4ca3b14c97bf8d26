CONSTANTS
  p1 = p1
  p2 = p2
  a1 = a1
  Process <- MCProcess
  MsgId = {"m", "n"}
  Arg = {a1}
  NoArg = NoArg
  NoTimer = NoTimer
  NoItem = NoItem
  TickRange = 2
  MSG_TIMER_TABLE_SIZE = 2
  MSG_TIMER_NUM = 2
  TASK_ITEM_NUM = 2
  Delay = {0, 1}
  Period = {0}
  CyclicArg = FALSE
SPECIFICATION Spec
INVARIANTS
  ArgHeldOnce
PROPERTIES
  ImplementsTimers

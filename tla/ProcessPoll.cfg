CONSTANTS
  p1 = p1
  p2 = p2
  i1 = i1
  i2 = i2
  Process <- MCProcess
  Poller <- MCPoller
  NoProcess = NoProcess
  TASK_ITEM_NUM = 2
  MaxPending = 1
SPECIFICATION FairSpec
INVARIANTS
  TypeOK
  NoLostPoll
  TokenForRequest
PROPERTIES
  PollAnswered

CONSTANTS
  p1 = p1
  p2 = p2
  a1 = a1
  Process = {p1}
  MsgId = {"m"}
  Arg = {}
  NoArg = NoArg
  NoTimer = NoTimer
  NoItem = NoItem
  TickRange = 5
  MSG_TIMER_TABLE_SIZE = 2
  MSG_TIMER_NUM = 3
  TASK_ITEM_NUM = 2
  Delay = {1, 2, 4}
  Period = {0, 2}
  CyclicArg = FALSE
SPECIFICATION Spec
INVARIANTS
  ListsAgree
PROPERTIES
  ImplementsTimers

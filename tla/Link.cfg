CONSTANTS
  NoFrame = NoFrame
  NoReply = NoReply
  Application <- MCApplication
  Port = {"ucos", "linux"}
  Mode = {"RTU", "TCP"}
  MboxSize = 1
  PointRange = 3
  CoilsPerByte = 1
  IxRange = 256
  Value = {0, 1}
  Layout <- MCLayout
  DiscreteInput <- MCDiscreteInput
  InputReg <- MCInputReg
  MaxCalls = 3
  MaxDamaged = 1
SPECIFICATION FairSpec
CHECK_DEADLOCK FALSE
INVARIANTS
  TypeOK
  NoneMeansAnswered
  DoneAsTold
  NoneIffNormal
  ServedOnce
PROPERTIES
  NobodySleepsForEver

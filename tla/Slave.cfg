CONSTANTS
  NodeAddr = 1
  Checked = TRUE
  StatRange = 2
  CoilsPerByte = 2
  IxRange = 9
  Layout <- MCLayout
  DiscreteInput <- MCDiscreteInput
  InputReg <- MCInputReg
  Frame <- MCFrame
  NoFrame = NoFrame
  NoReply = NoReply
SPECIFICATION Spec
INVARIANTS
  TypeOK
  ReplyAccounting
  OnlyOwnFramesAnswered
PROPERTIES
  ReplyTellsEffect
  FileWriteIsPrefix

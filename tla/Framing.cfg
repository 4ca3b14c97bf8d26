CONSTANTS
  Frame <- MCFrame
  Size <- MCSize
  BufSize <- MCBufSize
  MinSize <- MCMinSize
  ReplySize = 3
  MaxFrames = 3
  MaxFaults = 2
SPECIFICATION FairSpec
CHECK_DEADLOCK FALSE
INVARIANTS
  TypeOK
  GatheredIsTimed
  CleanFrameServed
  ActsOnWhatItChecked
PROPERTIES
  QuietAgain

CONSTANTS
  MEM_HEAP = 10
  MEM_HEADER_SIZE = 1
  LenRange = 16
  SizeRange = 32
  Size = {1, 2, 4}
  Caller <- MCOne
  Preemptive = FALSE
SPECIFICATION FairSpec
INVARIANTS
  TypeOK
  HeldDisjoint
  HeapTiled
  FreeHeaderIsLowest
  FailsOnlyIfNoneFits
PROPERTIES
  MallocReturns

CONSTANTS
  MEM_HEAP = 8
  MEM_HEADER_SIZE = 1
  LenRange = 16
  SizeRange = 32
  Size = {1, 2, 4}
  Caller <- MCTwo
  Preemptive = TRUE
SPECIFICATION Spec
INVARIANTS
  FreeHeaderIsLowest

CONSTANTS
  Requests <- MCRequests
  INIT_HEAP_AVAILABLE_SIZE = 48
  MIN_EXTEND_SIZE = 40
  SmallRequest = 16
  MAX_HEAP = 200
  MaxLive = 3
  MayLoseTypeBit = TRUE
SPECIFICATION Spec
INVARIANTS
  TypeBitsAreRight
CHECK_DEADLOCK FALSE

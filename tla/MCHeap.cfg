CONSTANTS
  Requests <- MCRequests
  INIT_HEAP_AVAILABLE_SIZE = 48
  MIN_EXTEND_SIZE = 40
  SmallRequest = 16
  MAX_HEAP = 144
  MaxLive = 3
  MayLoseTypeBit = FALSE
SPECIFICATION Spec
INVARIANTS
  BlocksTileTheHeap
  NeighboursAreTold
  TreeHoldsFreeBlocks
  PayloadsAreGood
PROPERTIES
  ImplementsAllocator
  FreeNeighboursAreMerged
CHECK_DEADLOCK FALSE

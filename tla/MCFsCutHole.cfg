CONSTANTS
  BlockSize = 2
  BlockNum = 9
  FirstBlock = 2
  InodeNum = 3
  MaxDepth = 2
  MaxSize = 4
  Sparse = TRUE
  CutHoles = TRUE
  RemoveNonEmpty = FALSE
  Names <- MCNames
  Writes <- MCWrites
SPECIFICATION Spec
INVARIANTS
  AvailableBlocksAreUnused
CHECK_DEADLOCK FALSE

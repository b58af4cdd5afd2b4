CONSTANTS
  BlockSize = 3
  BlockNum = 12
  FirstBlock = 2
  InodeNum = 4
  MaxDepth = 2
  MaxSize = 1
  Sparse = FALSE
  CutHoles = FALSE
  RemoveNonEmpty = FALSE
  Names <- MCNames
  Writes <- MCWrites
SPECIFICATION Spec
INVARIANTS
  EntriesHaveBlocks
CHECK_DEADLOCK FALSE

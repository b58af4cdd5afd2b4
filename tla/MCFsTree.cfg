CONSTANTS
  BlockSize = 4
  BlockNum = 8
  FirstBlock = 2
  InodeNum = 4
  MaxDepth = 2
  MaxSize = 5
  Sparse = TRUE
  CutHoles = FALSE
  Hole = Hole
  RemoveNonEmpty = TRUE
  Names <- MCNames
  Writes <- MCWrites
SPECIFICATION TreeSpec
PROPERTIES
  ImplementsFileTree
CHECK_DEADLOCK FALSE

CONSTANTS
  BlockSize = 2
  BlockNum = 9
  FirstBlock = 2
  InodeNum = 4
  MaxDepth = 2
  MaxSize = 3
  Sparse = TRUE
  CutHoles = FALSE
  RemoveNonEmpty = FALSE
  Names <- MCNames
  Writes <- MCWrites
SPECIFICATION Spec
INVARIANTS
  BlocksAreExclusive
  FreshBlocksAreEmpty
  NoStrayPointers
  EntriesFormATree
  NothingLeaks
PROPERTIES
  FailureChangesNothing
CHECK_DEADLOCK FALSE

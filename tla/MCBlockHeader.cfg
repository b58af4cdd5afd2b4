CONSTANTS
  Areas     <- MCAreas
  Lengths   <- MCLengths
  Nodes     <- MCNodes
  Fills     <- MCFills
  Shortest  = 20
  MaxBlocks = 3
  MaxCalls  = 6
SPECIFICATION Spec
INVARIANTS
  BlocksAreFound
  NodesReadBack
  PayloadFindsBlock
  PayloadsAreKept
CHECK_DEADLOCK FALSE

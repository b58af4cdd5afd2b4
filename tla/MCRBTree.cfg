\* The tree of free blocks, with equal lengths.
CONSTANTS
  a = a
  b = b
  c = c
  d = d
  e = e
  f = f
  g = g
  Nodes = {a, b, c, d, e, f, g}
  Values <- MCValues
  rbnull = rbnull

SPECIFICATION Spec
SYMMETRY AnyNode

INVARIANTS
  RedBlack
  SearchOrder
  NoNodeIsLost
  LowerBoundIsBest

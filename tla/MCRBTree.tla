----------------------------- MODULE MCRBTree -----------------------------
(* RBTree with a few nodes and lengths for TLC.                            *)
EXTENDS RBTree, TLC

MCValues == {4, 8, 12}
AnyNode  == Permutations(Nodes)
============================================================================

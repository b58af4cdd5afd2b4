------------------------------- MODULE MCHeap ------------------------------
(***************************************************************************)
(* Small instances of Heap for TLC.  Requests of 8, 16, 20 and 36 bytes    *)
(* make blocks of 20, 28, 32 and 48, so that blocks start at both          *)
(* alignments.                                                             *)
(***************************************************************************)
EXTENDS Heap

MCRequests == {8, 16, 20, 36}
=============================================================================

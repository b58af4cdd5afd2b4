----------------------------- MODULE MCFsTree ------------------------------
(***************************************************************************)
(* Small instances of FsTree for TLC.  A block of four words holds two     *)
(* entries, and a file of five words has two blocks, of which the first    *)
(* may be a hole.  Whatever is written is not 0, so that a word left over  *)
(* from before shows.                                                      *)
(***************************************************************************)
EXTENDS FsTree

MCNames  == {1, 2}
MCWrites == {<<1>>, <<1, 1, 1>>}
=============================================================================

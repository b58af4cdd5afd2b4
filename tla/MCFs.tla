-------------------------------- MODULE MCFs -------------------------------
(***************************************************************************)
(* Small instances of Fs for TLC.  With blocks of two words every new      *)
(* entry needs a block and a file of three words has two, of which the     *)
(* first may be a hole.                                                    *)
(***************************************************************************)
EXTENDS Fs

MCNames  == {1, 2}
MCWrites == {<<1>>, <<2, 1, 2>>}
=============================================================================

------------------------------- MODULE MCTsh -------------------------------
(***************************************************************************)
(* Small instances of Tsh for TLC.  Process IDs are model values; they are *)
(* interchangeable, so safety is checked up to their permutations.         *)
(***************************************************************************)
EXTENDS Tsh, TLC

PidSymmetry == Permutations(Pids)
=============================================================================

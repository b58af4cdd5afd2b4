----------------------------- MODULE JobControl -----------------------------
(***************************************************************************)
(* What the user of a shell may expect of its job control.  Either the     *)
(* shell listens for commands, or one job has the foreground and the       *)
(* commands wait.  Only a command brings a job to the foreground; there it *)
(* stays until it ends or stops, and the shell does not listen before.     *)
(*                                                                         *)
(* Nothing is said of slots, job IDs, signals or prompts: module Tsh       *)
(* implements this one with them.                                          *)
(***************************************************************************)
CONSTANTS
  Pids       (* the processes the shell may start                          *)

VARIABLES
  job,       (* "FG", "BG" or "ST" for a process that is a job, or "none"  *)
  listens    (* does the shell read commands?                              *)

vars == <<job, listens>>

Init ==
  /\ job = [p \in Pids |-> "none"]
  /\ listens = TRUE

(* A command starts a process, or has a job go on, in either ground.       *)
Puts(p, state) ==
  /\ listens
  /\ job' = [job EXCEPT ![p] = state]
  /\ listens' = (state # "FG")

(* A job stops, ends, or is forgotten.  The shell does not listen at once. *)
Leaves(p, state) ==
  /\ job[p] # "none"
  /\ job' = [job EXCEPT ![p] = state]
  /\ UNCHANGED listens

Listen ==
  /\ ~ listens
  /\ \A p \in Pids : job[p] # "FG"
  /\ listens' = TRUE
  /\ UNCHANGED job

Next ==
  \/ \E p \in Pids, state \in {"FG", "BG"} : Puts(p, state)
  \/ \E p \in Pids, state \in {"ST", "none"} : Leaves(p, state)
  \/ Listen

Spec == Init /\ [][Next]_vars
=============================================================================

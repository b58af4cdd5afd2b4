----------------------------- MODULE JobTable -----------------------------
(***************************************************************************)
(* The job list of tsh (shlab/tsh.c): an array of MAXJOBS slots, the       *)
(* counter nextjid, and the helper routines that read and change them.     *)
(* The routines are operators on a table value; module Tsh holds the table *)
(* in a variable and calls them in the order the shell does.               *)
(*                                                                         *)
(* A slot is a record of the fields of struct job_t that decide what the   *)
(* shell does; the command line it also stores is only ever printed.       *)
(***************************************************************************)
EXTENDS Integers

CONSTANTS
  MAXJOBS,  (* Number of slots in the job list (16 in the source).         *)
  Pids,     (* The process IDs the kernel hands out to children.           *)
  NoPid     (* The pid of an empty slot (0 in the source).                 *)

ASSUME MAXJOBSAssumption == MAXJOBS \in Nat \ {0}
ASSUME NoPidAssumption   == NoPid \notin Pids

Slots     == 1 .. MAXJOBS
JobStates == {"UNDEF", "FG", "BG", "ST"}
Job       == [pid : Pids \cup {NoPid}, jid : Nat, state : JobStates]

NoSlot == 0

(***************************************************************************)
(* Every routine scans the array from its first slot and stops at the      *)
(* first match.                                                            *)
(***************************************************************************)
FirstSlot(S) == IF S = {} THEN NoSlot
                ELSE CHOOSE i \in S : \A j \in S : i <= j

clearjob == [pid |-> NoPid, jid |-> 0, state |-> "UNDEF"]
initjobs == [i \in Slots |-> clearjob]

newjob(pid, jid, state) == [pid |-> pid, jid |-> jid, state |-> state]

getjobpid(jobs, pid) == FirstSlot({i \in Slots : jobs[i].pid = pid})
getjobjid(jobs, jid) == FirstSlot({i \in Slots : jobs[i].jid = jid})

pid2jid(jobs, pid) == LET i == getjobpid(jobs, pid)
                      IN  IF i = NoSlot THEN 0 ELSE jobs[i].jid

(* Mutant of fgpid: any job will do.                                       *)
anypid(jobs) == LET i == FirstSlot({j \in Slots : jobs[j].state # "UNDEF"})
                IN  IF i = NoSlot THEN NoPid ELSE jobs[i].pid

fgpid(jobs) == LET i == FirstSlot({j \in Slots : jobs[j].state = "FG"})
               IN  IF i = NoSlot THEN NoPid ELSE jobs[i].pid

(***************************************************************************)
(* The largest job ID in the table, 0 when the table is empty (an empty    *)
(* slot has job ID 0).                                                     *)
(***************************************************************************)
JidsOf(jobs) == {jobs[i].jid : i \in Slots}
maxjid(jobs) == CHOOSE m \in JidsOf(jobs) : \A n \in JidsOf(jobs) : n <= m

(***************************************************************************)
(* addjob and deletejob change both the table and nextjid; "ret" is what   *)
(* the C function returns (1 for done, 0 for nothing done).                *)
(***************************************************************************)
(* Mutant of addjob: the scan starts at the second slot.                   *)
addfromsecond(jobs, nextjid, pid, state) ==
  LET i == FirstSlot({j \in Slots : j > 1 /\ jobs[j].pid = NoPid})
  IN  IF i = NoSlot
      THEN [jobs |-> jobs, nextjid |-> nextjid, ret |-> 0]
      ELSE [jobs    |-> [jobs EXCEPT ![i] = newjob(pid, nextjid, state)],
            nextjid |-> IF nextjid + 1 > MAXJOBS THEN 1 ELSE nextjid + 1,
            ret     |-> 1]

addjob(jobs, nextjid, pid, state) ==
  LET i == getjobpid(jobs, NoPid)
  IN  IF i = NoSlot
      THEN [jobs |-> jobs, nextjid |-> nextjid, ret |-> 0]
      ELSE [jobs    |-> [jobs EXCEPT ![i] = newjob(pid, nextjid, state)],
            nextjid |-> IF nextjid + 1 > MAXJOBS THEN 1 ELSE nextjid + 1,
            ret     |-> 1]

(* Mutants of deletejob: the pid is left in the slot; nextjid becomes the  *)
(* largest number itself.                                                  *)
deletestate(jobs, nextjid, pid) ==
  LET i == getjobpid(jobs, pid)
  IN  [jobs    |-> IF i = NoSlot THEN jobs ELSE [jobs EXCEPT ![i].state = "UNDEF"],
       nextjid |-> nextjid, ret |-> 1]

deletetaken(jobs, nextjid, pid) ==
  LET i    == getjobpid(jobs, pid)
      rest == IF i = NoSlot THEN jobs ELSE [jobs EXCEPT ![i] = clearjob]
  IN  [jobs |-> rest, nextjid |-> maxjid(rest), ret |-> 1]

deletejob(jobs, nextjid, pid) ==
  LET i    == getjobpid(jobs, pid)
      rest == [jobs EXCEPT ![i] = clearjob]
  IN  IF i = NoSlot
      THEN [jobs |-> jobs, nextjid |-> nextjid, ret |-> 0]
      ELSE [jobs |-> rest, nextjid |-> maxjid(rest) + 1, ret |-> 1]

=============================================================================

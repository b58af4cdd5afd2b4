-------------------------------- MODULE Tsh --------------------------------
(***************************************************************************)
(* The shell tsh (shlab/tsh.c): one thread that waits with epoll for       *)
(* signals (through a signalfd) and for characters on standard input, and  *)
(* the children it spawns, each the leader of a process group of its own.  *)
(*                                                                         *)
(* The shell's steps are cut where another process can come between: the   *)
(* return of epoll_wait for standard input is one step and the read() loop *)
(* with what follows it another, and every waitpid() of the SIGCHLD        *)
(* handler is a step.  Children, the terminal and the other processes of   *)
(* the machine take steps of their own in between.                         *)
(***************************************************************************)
EXTENDS JobTable, FiniteSets

CONSTANTS
  MaxLines,           (* Bound on the command lines typed in a behaviour.  *)
  ShellSignals,       (* Signals others send the shell.                    *)
  OutsideCont,        (* May others continue a stopped child?              *)
  ChildrenReadStdin   (* Do children read the shell's standard input?      *)

ASSUME MaxLinesAssumption  == MaxLines \in Nat
ASSUME SignalsAssumption   == ShellSignals \subseteq {"INT", "TSTP", "QUIT"}
ASSUME SwitchesAssumption  == {OutsideCont, ChildrenReadStdin} \subseteq BOOLEAN

VARIABLES
  jobs,       (* the job list                                              *)
  nextjid,    (* the next job ID to allocate                               *)
  readInput,  (* read_input: is standard input in the epoll set?           *)
  buffered,   (* cmdline_length > 0 between two reads                      *)
  pc,         (* where the shell is in its loop, or how it ended           *)
  prompts,    (* prompts written and not yet answered by a command line    *)
  sigpend,    (* signals pending on the shell, which blocks all of them    *)
  proc,       (* the state of every process ID                             *)
  pend,       (* signals pending on every child                            *)
  lines,      (* complete lines waiting in standard input                  *)
  tail,       (* do characters without a newline follow them?              *)
  eof,        (* has the writer closed standard input?                     *)
  typed       (* lines typed so far                                        *)

shellVars == <<jobs, nextjid, readInput, buffered, pc, prompts>>
childVars == <<proc, pend>>
stdinVars == <<lines, tail, eof, typed>>
vars      == <<shellVars, sigpend, childVars, stdinVars>>

(***************************************************************************)
(* A child that ended stays a zombie until waitpid() returns it; only then *)
(* may its process ID be used again.  A child that stopped is "stopping"   *)
(* until waitpid() has reported the stop.                                  *)
(***************************************************************************)
Zombie   == {"exited", "exited127", "killed"}
Halted   == {"stopping", "stopped"}
Waitable == Zombie \cup {"stopping"}
Alive    == {"running"} \cup Halted
ProcStates == {"none"} \cup Alive \cup Zombie

Ended == pc \in {"exited", "aborted", "crashed"}

TypeOK ==
  /\ jobs \in [Slots -> Job]
  /\ nextjid \in Nat
  /\ readInput \in BOOLEAN
  /\ buffered \in BOOLEAN
  /\ pc \in {"wait", "read", "reap", "exited", "aborted", "crashed"}
  /\ prompts \in Int
  /\ sigpend \subseteq {"INT", "TSTP", "QUIT", "CHLD"}
  /\ proc \in [Pids -> ProcStates]
  /\ pend \in [Pids -> SUBSET {"INT", "TSTP", "QUIT"}]
  /\ lines \in Nat
  /\ tail \in BOOLEAN
  /\ eof \in BOOLEAN
  /\ typed \in Nat

Init ==
  /\ jobs = initjobs
  /\ nextjid = 1
  /\ readInput = TRUE
  /\ buffered = FALSE
  /\ pc = "wait"
  /\ prompts = 1
  /\ sigpend = {}
  /\ proc = [p \in Pids |-> "none"]
  /\ pend = [p \in Pids |-> {}]
  /\ lines = 0
  /\ tail = FALSE
  /\ eof = FALSE
  /\ typed = 0

-----------------------------------------------------------------------------
(***************************************************************************)
(* kill(2) on a child's process group.  Ending and stopping signals wait   *)
(* until the child runs; SIGCONT discards a pending stop, and a child that *)
(* resumes notifies its parent and takes back a stop not yet reported.     *)
(***************************************************************************)
Kill(p, sig) ==
  pend' = [pend EXCEPT ![p] = IF proc[p] \in Alive THEN @ \cup {sig} ELSE @]

Continue(p) ==
  /\ proc' = [proc EXCEPT ![p] = IF @ \in Halted THEN "running" ELSE @]
  /\ pend' = [pend EXCEPT ![p] = @ \ {"TSTP"}]
  /\ sigpend' = IF proc[p] \in Halted THEN sigpend \cup {"CHLD"} ELSE sigpend

(* Mutant of EndIteration: standard input never comes back.                *)
NeverReadsAgain(jl, pr) ==
  /\ pc' = "wait"
  /\ readInput' = (readInput /\ fgpid(jl) = NoPid)
  /\ prompts' = pr

(***************************************************************************)
(* The end of every iteration of the loop: standard input leaves the epoll *)
(* set when a foreground job has appeared, and comes back, with a prompt,  *)
(* when it is gone.  "jl" is the job list the iteration leaves and "pr"    *)
(* the prompts it leaves.                                                  *)
(***************************************************************************)
EndIteration(jl, pr) ==
  /\ pc' = "wait"
  /\ \/ /\ readInput /\ fgpid(jl) # NoPid
        /\ readInput' = FALSE
        /\ prompts' = pr
     \/ /\ ~readInput /\ fgpid(jl) = NoPid
        /\ readInput' = TRUE
        /\ prompts' = pr + 1
     \/ /\ readInput <=> fgpid(jl) = NoPid
        /\ UNCHANGED readInput
        /\ prompts' = pr

-----------------------------------------------------------------------------
(* The signalfd is readable: the shell takes one pending signal.           *)

TakeKeyboardSignal(sig) ==
  /\ pc = "wait"
  /\ sig \in sigpend \cap {"INT", "TSTP"}
  /\ sigpend' = sigpend \ {sig}
  /\ IF fgpid(jobs) # NoPid THEN Kill(fgpid(jobs), sig) ELSE UNCHANGED pend
  /\ EndIteration(jobs, prompts)
  /\ UNCHANGED <<jobs, nextjid, buffered, proc, stdinVars>>

TakeSigquit ==
  /\ pc = "wait"
  /\ "QUIT" \in sigpend
  /\ sigpend' = sigpend \ {"QUIT"}
  /\ pc' = "exited"
  /\ UNCHANGED <<jobs, nextjid, readInput, buffered, prompts, childVars, stdinVars>>

TakeSigchld ==
  /\ pc = "wait"
  /\ "CHLD" \in sigpend
  /\ sigpend' = sigpend \ {"CHLD"}
  /\ pc' = "reap"
  /\ UNCHANGED <<jobs, nextjid, readInput, buffered, prompts, childVars, stdinVars>>

(***************************************************************************)
(* One waitpid() that returns a child, and what the loop body does with    *)
(* its status.  For exit status 127 and for a stop the body dereferences   *)
(* the job without a test, which ends the shell when the child has none.   *)
(***************************************************************************)
ReapEnded(p) ==
  /\ pc = "reap"
  /\ proc[p] \in Zombie
  /\ proc' = [proc EXCEPT ![p] = "none"]
  /\ pend' = [pend EXCEPT ![p] = {}]
  /\ \/ /\ proc[p] = "exited127" /\ getjobpid(jobs, p) = NoSlot
        /\ pc' = "crashed"
        /\ UNCHANGED <<jobs, nextjid>>
     \/ /\ proc[p] # "exited127" \/ getjobpid(jobs, p) # NoSlot
        /\ jobs' = deletejob(jobs, nextjid, p).jobs
        /\ nextjid' = deletejob(jobs, nextjid, p).nextjid
        /\ UNCHANGED pc
  /\ UNCHANGED <<readInput, buffered, prompts, sigpend, stdinVars>>

(* Mutant of ReapStopped: only a stop of the foreground job is recorded.   *)
RecordForegroundStop(p) ==
  /\ pc = "reap"
  /\ proc[p] = "stopping"
  /\ proc' = [proc EXCEPT ![p] = "stopped"]
  /\ jobs' = IF fgpid(jobs) = p
             THEN [jobs EXCEPT ![getjobpid(jobs, p)].state = "ST"] ELSE jobs
  /\ UNCHANGED <<nextjid, readInput, buffered, pc, prompts, sigpend, pend, stdinVars>>

ReapStopped(p) ==
  /\ pc = "reap"
  /\ proc[p] = "stopping"
  /\ proc' = [proc EXCEPT ![p] = "stopped"]
  /\ \/ /\ getjobpid(jobs, p) = NoSlot
        /\ pc' = "crashed"
        /\ UNCHANGED jobs
     \/ /\ getjobpid(jobs, p) # NoSlot
        /\ jobs' = [jobs EXCEPT ![getjobpid(jobs, p)].state = "ST"]
        /\ UNCHANGED pc
  /\ UNCHANGED <<nextjid, readInput, buffered, prompts, sigpend, pend, stdinVars>>

(* Mutant of ReapDone: one waitpid() for a SIGCHLD, "if" for "while".      *)
ReapOnce ==
  /\ pc = "reap"
  /\ EndIteration(jobs, prompts)
  /\ UNCHANGED <<jobs, nextjid, buffered, sigpend, childVars, stdinVars>>

(* The waitpid() that finds no child to report ends the handler.           *)
ReapDone ==
  /\ pc = "reap"
  /\ \A p \in Pids : proc[p] \notin Waitable
  /\ EndIteration(jobs, prompts)
  /\ UNCHANGED <<jobs, nextjid, buffered, sigpend, childVars, stdinVars>>

-----------------------------------------------------------------------------
(* Standard input is readable: characters, or end of file.                 *)

(* Mutant of TakeInput: the descriptor is never taken out of the epoll set.*)
TakeInputAlways ==
  /\ pc = "wait"
  /\ lines > 0 \/ tail \/ eof
  /\ pc' = "read"
  /\ UNCHANGED <<jobs, nextjid, readInput, buffered, prompts, sigpend, childVars, stdinVars>>

TakeInput ==
  /\ pc = "wait"
  /\ readInput
  /\ lines > 0 \/ tail \/ eof
  /\ pc' = "read"
  /\ UNCHANGED <<jobs, nextjid, readInput, buffered, prompts, sigpend, childVars, stdinVars>>


IgnoreEof ==
  /\ pc = "read"
  /\ lines = 0
  /\ buffered' = (tail \/ buffered)
  /\ EndIteration(jobs, prompts)
  /\ tail' = FALSE
  /\ UNCHANGED <<jobs, nextjid, sigpend, childVars, lines, eof, typed>>

(* The read() loop finds no newline, and the line stays in the buffer; or  *)
(* it reads nothing at all, which on an empty buffer is taken for the end. *)
ReadPart ==
  /\ pc = "read"
  /\ lines = 0
  /\ IF tail \/ buffered
     THEN /\ buffered' = TRUE
          /\ EndIteration(jobs, prompts)
     ELSE /\ pc' = "exited"
          /\ UNCHANGED <<readInput, buffered, prompts>>
  /\ tail' = FALSE
  /\ UNCHANGED <<jobs, nextjid, sigpend, childVars, lines, eof, typed>>

(* The read() loop reaches a newline; the command follows.                 *)
ReadLine ==
  /\ pc = "read"
  /\ lines > 0
  /\ lines' = lines - 1
  /\ buffered' = FALSE
  /\ UNCHANGED <<tail, eof, typed>>

(* Mutant of AfterEval: a prompt whatever the command has started.         *)
AlwaysPrompt(jl) == EndIteration(jl, prompts)

(* After eval: a prompt unless a job runs in the foreground.  The line     *)
(* itself has answered one.                                                *)
AfterEval(jl) ==
  EndIteration(jl, IF fgpid(jl) = NoPid THEN prompts ELSE prompts - 1)

(***************************************************************************)
(* eval.  A blank line, "jobs", and fg or bg without a job they name       *)
(* change nothing.                                                         *)
(***************************************************************************)
EvalNothing ==
  /\ ReadLine
  /\ AfterEval(jobs)
  /\ UNCHANGED <<jobs, nextjid, sigpend, childVars>>

(* Mutant of EvalQuit: only running jobs are told.                         *)
QuitRunningJobs ==
  /\ ReadLine
  /\ pend' = [p \in Pids |->
                IF getjobpid(jobs, p) # NoSlot /\ proc[p] = "running"
                THEN pend[p] \cup {"QUIT"} ELSE pend[p]]
  /\ pc' = "exited"
  /\ UNCHANGED <<jobs, nextjid, readInput, prompts, sigpend, proc>>

EvalQuit ==
  /\ ReadLine
  /\ pend' = [p \in Pids |->
                IF getjobpid(jobs, p) # NoSlot /\ proc[p] \in Alive
                THEN pend[p] \cup {"QUIT"} ELSE pend[p]]
  /\ pc' = "exited"
  /\ UNCHANGED <<jobs, nextjid, readInput, prompts, sigpend, proc>>

(* The slots that fg and bg can name, by %jobid or by process ID.          *)
Named == ({getjobjid(jobs, jobs[i].jid) : i \in {j \in Slots : jobs[j].jid >= 1}}
          \cup {getjobpid(jobs, p) : p \in Pids}) \ {NoSlot}

EvalBgFg(i, state) ==
  /\ ReadLine
  /\ i \in Named
  /\ jobs' = [jobs EXCEPT ![i].state = state]
  /\ Continue(jobs[i].pid)
  /\ AfterEval(jobs')
  /\ UNCHANGED nextjid

(* posix_spawn starts the child; only then is it entered in the job list,  *)
(* which may have no room for it.                                          *)
EvalRun(p, state) ==
  /\ ReadLine
  /\ proc[p] = "none"
  /\ proc' = [proc EXCEPT ![p] = "running"]
  /\ pend' = [pend EXCEPT ![p] = {}]
  /\ jobs' = addjob(jobs, nextjid, p, state).jobs
  /\ nextjid' = addjob(jobs, nextjid, p, state).nextjid
  /\ AfterEval(jobs')
  /\ UNCHANGED sigpend

(* posix_spawn reports an error (no such file, no process to be had) and   *)
(* the assertion on its result fails.                                      *)
EvalRunFails ==
  /\ ReadLine
  /\ pc' = "aborted"
  /\ UNCHANGED <<jobs, nextjid, readInput, prompts, sigpend, childVars>>

-----------------------------------------------------------------------------
(* The children.                                                           *)

Becomes(p, state) ==
  /\ ~Ended
  /\ proc' = [proc EXCEPT ![p] = state]
  /\ sigpend' = sigpend \cup {"CHLD"}

ChildEnds(p, how) ==
  /\ proc[p] = "running" \/ (proc[p] \in Halted /\ how = "killed")
  /\ Becomes(p, how)
  /\ pend' = [pend EXCEPT ![p] = {}]
  /\ UNCHANGED <<shellVars, stdinVars>>

ChildStops(p) ==
  /\ proc[p] = "running"
  /\ Becomes(p, "stopping")
  /\ UNCHANGED <<shellVars, pend, stdinVars>>

ChildContinued(p) ==
  /\ ~Ended
  /\ OutsideCont
  /\ proc[p] \in Halted
  /\ Continue(p)
  /\ UNCHANGED <<shellVars, stdinVars>>

(* A running child takes a signal: it follows the default action, or it    *)
(* catches or ignores the signal.                                          *)
ChildTakesSignal(p, sig) ==
  /\ proc[p] = "running"
  /\ sig \in pend[p]
  /\ \/ /\ sig # "TSTP"
        /\ Becomes(p, "killed")
        /\ pend' = [pend EXCEPT ![p] = {}]
     \/ /\ sig = "TSTP"
        /\ Becomes(p, "stopping")
        /\ pend' = [pend EXCEPT ![p] = @ \ {sig}]
     \/ /\ ~Ended
        /\ pend' = [pend EXCEPT ![p] = @ \ {sig}]
        /\ UNCHANGED <<proc, sigpend>>
  /\ UNCHANGED <<shellVars, stdinVars>>

(* Children inherit descriptor 0: one may read what the shell was to read. *)
ChildReads(p) ==
  /\ ~Ended
  /\ ChildrenReadStdin
  /\ proc[p] = "running"
  /\ \/ lines > 0 /\ lines' = lines - 1 /\ UNCHANGED tail
     \/ lines = 0 /\ tail /\ tail' = FALSE /\ UNCHANGED lines
  /\ UNCHANGED <<shellVars, sigpend, childVars, eof, typed>>

-----------------------------------------------------------------------------
(* The user at the other end of standard input, and senders of signals.    *)

TypeLine ==
  /\ ~Ended /\ ~eof
  /\ typed < MaxLines
  /\ typed' = typed + 1
  /\ lines' = lines + 1
  /\ tail' = FALSE
  /\ UNCHANGED <<shellVars, sigpend, childVars, eof>>

TypePart ==
  /\ ~Ended /\ ~eof
  /\ tail' = TRUE
  /\ UNCHANGED <<shellVars, sigpend, childVars, lines, eof, typed>>

CloseStdin ==
  /\ ~Ended
  /\ eof' = TRUE
  /\ UNCHANGED <<shellVars, sigpend, childVars, lines, tail, typed>>

SendSignal(sig) ==
  /\ ~Ended
  /\ sigpend' = sigpend \cup {sig}
  /\ UNCHANGED <<shellVars, childVars, stdinVars>>

-----------------------------------------------------------------------------
Reap(p) == ReapEnded(p) \/ ReapStopped(p)

Eval ==
  \/ EvalNothing
  \/ EvalQuit
  \/ \E i \in Slots, state \in {"BG", "FG"} : EvalBgFg(i, state)
  \/ \E p \in Pids, state \in {"BG", "FG"} : EvalRun(p, state)
  \/ EvalRunFails

Shell ==
  \/ \E sig \in {"INT", "TSTP"} : TakeKeyboardSignal(sig)
  \/ TakeSigquit
  \/ TakeSigchld
  \/ \E p \in Pids : Reap(p)
  \/ ReapDone
  \/ TakeInput
  \/ ReadPart
  \/ Eval

Children ==
  \E p \in Pids :
    \/ \E how \in Zombie : ChildEnds(p, how)
    \/ ChildStops(p)
    \/ ChildContinued(p)
    \/ \E sig \in {"INT", "TSTP", "QUIT"} : ChildTakesSignal(p, sig)
    \/ ChildReads(p)

Terminal ==
  \/ TypeLine
  \/ TypePart
  \/ CloseStdin
  \/ \E sig \in ShellSignals : SendSignal(sig)

Next == Shell \/ Children \/ Terminal

Spec == Init /\ [][Next]_vars

(***************************************************************************)
(* The shell runs whenever it can.  epoll_wait is asked for one event at a *)
(* time and moves a descriptor that stays readable to the end of its ready *)
(* list, so neither descriptor starves the other: strong fairness for what *)
(* the shell takes next.  A signalfd gives the signal of the lowest number *)
(* first, so fairness to SIGCHLD also says that nobody keeps sending       *)
(* SIGINT faster than the shell takes it.  Nothing is assumed of children  *)
(* or of the user.                                                         *)
(***************************************************************************)
Fairness ==
  /\ SF_vars(TakeSigchld)
  /\ SF_vars(TakeSigquit)
  /\ \A sig \in {"INT", "TSTP"} : SF_vars(TakeKeyboardSignal(sig))
  /\ SF_vars(TakeInput)
  /\ WF_vars(ReadPart \/ Eval)
  /\ WF_vars(ReapDone \/ \E p \in Pids : Reap(p))

FairSpec == Spec /\ Fairness
-----------------------------------------------------------------------------
(* What the shell must keep true.                                          *)

(* At most one job is in the foreground (tsh.c:41), whatever fg, bg, ends  *)
(* and stops come between.                                                 *)
OneForeground ==
  \A i, j \in Slots : jobs[i].state = "FG" /\ jobs[j].state = "FG" => i = j

(* The shell implements JobControl: only a command brings a job to the     *)
(* foreground, and none is read before that job has ended or stopped,      *)
(* whatever signals, ends and stops come between.                          *)
UserJobs == [p \in Pids |-> IF getjobpid(jobs, p) = NoSlot THEN "none"
                            ELSE jobs[getjobpid(jobs, p)].state]

Control == INSTANCE JobControl WITH job <- UserJobs, listens <- readInput

ImplementsJobControl == Control!Spec

(* Between two iterations standard input is in the epoll set exactly when  *)
(* no job is in the foreground: a command typed ahead is not read while    *)
(* one is, and the shell does not go deaf when it is gone.                 *)
InputFollowsForeground ==
  pc \in {"wait", "read"} => (readInput <=> \A i \in Slots : jobs[i].state # "FG")

(* One prompt for every command line: there is exactly one unanswered      *)
(* prompt while the shell reads commands, none while it waits for a job.   *)
OnePrompt == ~Ended => prompts = IF readInput THEN 1 ELSE 0

(* Every job is a child not yet waited for, and no two jobs are the same   *)
(* child; kill() on a job's group never meets a process ID that the kernel *)
(* may have given to somebody else.                                        *)
JobsAreChildren ==
  /\ \A i \in Slots : jobs[i].pid # NoPid => proc[jobs[i].pid] # "none"
  /\ \A i, j \in Slots : jobs[i].pid = jobs[j].pid /\ jobs[i].pid # NoPid => i = j

(* No end or stop of a child goes unnoticed, though any number of them may *)
(* share one pending SIGCHLD, and some happen while the handler runs.      *)
NoLostChild ==
  \A p \in Pids : proc[p] \in Waitable => "CHLD" \in sigpend \/ pc = "reap" \/ Ended

(* A stop that waitpid has reported is in the job list for as long as the  *)
(* child is stopped: the shell never takes a stopped job for a running one.*)
StopsAreSeen ==
  \A p \in Pids : proc[p] = "stopped" /\ ~Ended =>
    /\ getjobpid(jobs, p) # NoSlot
    /\ jobs[getjobpid(jobs, p)].state = "ST"

(* The invariant that induction needs: the parts above, that empty slots   *)
(* are the ones without a state or a job ID, and what holds inside the two *)
(* handlers.                                                               *)
SlotsAgree ==
  \A i \in Slots : /\ jobs[i].pid = NoPid <=> jobs[i].state = "UNDEF"
                   /\ jobs[i].pid = NoPid => jobs[i].jid = 0

InputInHandlers ==
  /\ pc = "read" => readInput
  /\ pc = "reap" /\ readInput => \A i \in Slots : jobs[i].state # "FG"

IInv ==
  /\ TypeOK
  /\ SlotsAgree
  /\ OneForeground
  /\ InputFollowsForeground
  /\ InputInHandlers
  /\ OnePrompt
  /\ JobsAreChildren
  /\ NoLostChild
  /\ StopsAreSeen

(* While there are no more processes than slots, every child is in the     *)
(* list, and the SIGCHLD handler finds the job it dereferences.            *)
EveryChildHasJob ==
  /\ \A p \in Pids : proc[p] # "none" /\ ~Ended => getjobpid(jobs, p) # NoSlot
  /\ pc # "crashed"

(* A new job does not get the ID of another one: %jobid names one job,     *)
(* although addjob starts again at 1 after MAXJOBS and deletejob at any    *)
(* time after the largest.  Only where a job already has the ID MAXJOBS or *)
(* a larger one may two be the same: then nextjid has wrapped around.      *)
NewJidIsFresh ==
  \A i, j \in Slots :
    jobs[i].pid = NoPid /\ jobs'[i].pid # NoPid /\ jobs[j].jid = jobs'[i].jid =>
      maxjid(jobs) >= MAXJOBS

FreshJid == [][NewJidIsFresh]_vars

(* What FreshJid needs of nextjid.                                         *)
NextjidIsFree == nextjid <= maxjid(jobs) => maxjid(jobs) >= MAXJOBS

(* Ctrl-C and ctrl-Z reach no child but the one in the foreground, at a    *)
(* moment when the shell is not reading commands.                          *)
ForwardedToForeground ==
  \A p \in Pids, sig \in {"INT", "TSTP"} :
    sig \in pend'[p] \ pend[p] =>
      ~readInput /\ getjobpid(jobs, p) # NoSlot
                 /\ jobs[getjobpid(jobs, p)].state = "FG"

KeyboardSignalsForeground == [][ForwardedToForeground]_vars

(* When quit ends the shell every child still alive has been told, the     *)
(* stopped ones included.                                                  *)
QuitTells ==
  lines' < lines /\ pc' = "exited" =>
    \A p \in Pids : proc[p] \in Alive => "QUIT" \in pend'[p]

QuitTellsEveryChild == [][QuitTells]_vars

(* A child that has ended is eventually waited for.                        *)
ZombiesAreReaped ==
  \A p \in Pids : proc[p] \in Zombie ~> (proc[p] = "none" \/ Ended)

(* Once the foreground child has ended or stopped, the shell eventually    *)
(* reads commands again.                                                   *)
ForegroundGivesWay ==
  \A p \in Pids :
    (fgpid(jobs) = p /\ proc[p] # "running") ~> (readInput \/ proc[p] = "running" \/ Ended)

(* Every complete line is eventually executed, and end of file after a     *)
(* complete line ends the shell, if foreground jobs never hold it for good.*)
InputIsConsumed ==
  []<>(readInput \/ Ended) =>
    /\ lines > 0 ~> (lines = 0 \/ Ended)
    /\ (eof /\ ~tail /\ ~buffered) ~> Ended

-----------------------------------------------------------------------------
(* What a comment says of the shell, and the code does not do.             *)

=============================================================================

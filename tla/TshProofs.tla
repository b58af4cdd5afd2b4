------------------------------ MODULE TshProofs ------------------------------
(***************************************************************************)
(* The shell, for job lists of every length and every set of process IDs:  *)
(* what the routines of the job list return and change, which the rest     *)
(* never opens; its safety, by the invariant IInv of Tsh; and that it      *)
(* implements JobControl and tells job IDs apart, which rests on one       *)
(* account of what a step does to the job list and to the watch on         *)
(* standard input.                                                         *)
(***************************************************************************)
EXTENDS Tsh, BasicFacts


-----------------------------------------------------------------------------
(* The job list.                                                           *)

(* The scan for a slot finds one when there is one, and says so when there *)
(* is none.                                                                *)
LEMMA FirstSlotFinds ==
  ASSUME NEW S \in SUBSET Slots
  PROVE  /\ S = {} <=> FirstSlot(S) = NoSlot
         /\ S # {} => FirstSlot(S) \in S
<1>1. CASE S = {}
  BY <1>1 DEF FirstSlot
<1>2. CASE S # {}
  <2>1. S \in SUBSET Nat
    BY MAXJOBSAssumption DEF Slots
  <2>2. \E i \in S : \A j \in S : i <= j
    BY <1>2, <2>1, LeastNatural
  <2>3. FirstSlot(S) \in S
    BY <1>2, <2>2 DEF FirstSlot
  <2>4. NoSlot \notin S
    BY MAXJOBSAssumption DEF Slots, NoSlot
  <2> QED BY <1>2, <2>3, <2>4
<1> QED BY <1>1, <1>2

(* getjobpid returns a slot that holds the process ID, or no slot when     *)
(* none does.                                                              *)
LEMMA GetJobPid ==
  ASSUME NEW jl \in [Slots -> Job], NEW p
  PROVE  /\ getjobpid(jl, p) = NoSlot <=> \A i \in Slots : jl[i].pid # p
         /\ getjobpid(jl, p) # NoSlot =>
              getjobpid(jl, p) \in Slots /\ jl[getjobpid(jl, p)].pid = p
<1> DEFINE S == {i \in Slots : jl[i].pid = p}
<1>1. S \in SUBSET Slots
  OBVIOUS
<1>2. getjobpid(jl, p) = FirstSlot(S)
  BY DEF getjobpid
<1> QED BY <1>1, <1>2, FirstSlotFinds

(* fgpid is the process ID of a job in the foreground, and no process ID   *)
(* exactly when there is none.                                             *)
LEMMA FgPid ==
  ASSUME NEW jl \in [Slots -> Job],
         \A i \in Slots : jl[i].pid = NoPid <=> jl[i].state = "UNDEF"
  PROVE  /\ fgpid(jl) = NoPid <=> \A i \in Slots : jl[i].state # "FG"
         /\ fgpid(jl) # NoPid =>
              \E i \in Slots : jl[i].state = "FG" /\ jl[i].pid = fgpid(jl)
<1> DEFINE S == {i \in Slots : jl[i].state = "FG"}
<1>1. /\ S = {} <=> FirstSlot(S) = NoSlot
      /\ S # {} => FirstSlot(S) \in S
  BY FirstSlotFinds
<1>2. fgpid(jl) = IF FirstSlot(S) = NoSlot THEN NoPid ELSE jl[FirstSlot(S)].pid
  BY DEF fgpid
<1>3. S # {} => jl[FirstSlot(S)].pid # NoPid
  BY <1>1
<1> QED BY <1>1, <1>2, <1>3

(* The job IDs of a list have a maximum, and maxjid returns it.            *)
LEMMA MaxJid ==
  ASSUME NEW jl \in [Slots -> Job]
  PROVE  /\ maxjid(jl) \in Nat
         /\ \E i \in Slots : jl[i].jid = maxjid(jl)
         /\ \A i \in Slots : jl[i].jid <= maxjid(jl)
<1> DEFINE Bounded(n) == \E b \in Nat : \A i \in 1 .. n : jl[i].jid <= b
           Bad == {n \in 0 .. MAXJOBS : ~ Bounded(n)}
<1>0. \A i \in Slots : jl[i].jid \in Nat
  BY DEF Job
<1>1. Bad = {}
  <2> SUFFICES ASSUME Bad # {} PROVE FALSE
    OBVIOUS
  <2>1. Bad \in SUBSET Nat
    BY MAXJOBSAssumption
  <2>2. PICK n \in Bad : \A m \in Bad : n <= m
    BY <2>1, LeastNatural
  <2>3. n # 0
    <3>1. Bounded(0)
      <4>1. 0 \in Nat /\ \A i \in 1 .. 0 : jl[i].jid <= 0
        OBVIOUS
      <4> QED BY <4>1
    <3> QED BY <3>1
  <2>10. n \in 1 .. MAXJOBS
    BY <2>3, MAXJOBSAssumption
  <2>4. n - 1 \in 0 .. MAXJOBS /\ n - 1 \notin Bad
    <3> HIDE DEF Bad
    <3> QED BY <2>10, <2>2, MAXJOBSAssumption
  <2>5. PICK b \in Nat : \A i \in 1 .. (n - 1) : jl[i].jid <= b
    BY <2>4
  <2>6. n \in Slots
    BY <2>10 DEF Slots
  <2>7. \A i \in 1 .. n : jl[i].jid <= b + jl[n].jid
    <3> SUFFICES ASSUME NEW i \in 1 .. n PROVE jl[i].jid <= b + jl[n].jid
      OBVIOUS
    <3>0. i \in Slots
      BY <2>10, MAXJOBSAssumption DEF Slots
    <3>1. jl[i].jid \in Nat /\ jl[n].jid \in Nat
      BY <1>0, <2>6, <3>0
    <3>2. CASE i = n
      BY <3>1, <3>2
    <3>3. CASE i # n
      <4>1. i \in 1 .. (n - 1)
        BY <2>10, <3>3, MAXJOBSAssumption
      <4> HIDE DEF Bad
      <4> QED BY <2>5, <3>1, <4>1
    <3> QED BY <3>2, <3>3
  <2>8. b + jl[n].jid \in Nat
    BY <1>0, <2>6
  <2>9. Bounded(n)
    BY <2>7, <2>8
  <2> QED BY <2>2, <2>9
<1>2. PICK b \in Nat : \A i \in Slots : jl[i].jid <= b
  <2>1. MAXJOBS \in 0 .. MAXJOBS
    BY MAXJOBSAssumption
  <2>2. Bounded(MAXJOBS)
    BY <1>1, <2>1
  <2> QED BY <2>2 DEF Slots
<1> DEFINE Gaps == {b - jl[i].jid : i \in Slots}
<1>3. Gaps \in SUBSET Nat /\ Gaps # {}
  <2>1. \A i \in Slots : b - jl[i].jid \in Nat
    BY <1>0, <1>2
  <2>2. 1 \in Slots
    BY MAXJOBSAssumption DEF Slots
  <2> QED BY <2>1, <2>2
<1>4. PICK g \in Gaps : \A h \in Gaps : g <= h
  BY <1>3, LeastNatural
<1>5. PICK k \in Slots : g = b - jl[k].jid
  OBVIOUS
<1>6. \A i \in Slots : jl[i].jid <= jl[k].jid
  <2> SUFFICES ASSUME NEW i \in Slots PROVE jl[i].jid <= jl[k].jid
    OBVIOUS
  <2>1. b - jl[k].jid <= b - jl[i].jid
    BY <1>4, <1>5
  <2>2. jl[i].jid \in Nat /\ jl[k].jid \in Nat
    BY <1>0
  <2> QED BY <2>1, <2>2
<1>7. \E m \in JidsOf(jl) : \A n \in JidsOf(jl) : n <= m
  BY <1>6 DEF JidsOf
<1>8. maxjid(jl) \in JidsOf(jl) /\ \A n \in JidsOf(jl) : n <= maxjid(jl)
  BY <1>7 DEF maxjid
<1> QED BY <1>0, <1>8 DEF JidsOf

(* A job found by a positive job ID has that ID.                           *)
LEMMA GetJobJid ==
  ASSUME NEW jl \in [Slots -> Job], NEW n \in Nat,
         getjobjid(jl, n) # NoSlot
  PROVE  getjobjid(jl, n) \in Slots /\ jl[getjobjid(jl, n)].jid = n
<1> DEFINE S == {i \in Slots : jl[i].jid = n}
<1>1. getjobjid(jl, n) = FirstSlot(S)
  BY DEF getjobjid
<1> QED BY <1>1, FirstSlotFinds

(* addjob fills one empty slot and leaves the others, or finds the list    *)
(* full and changes nothing.                                               *)
AddsJob(jl, n, p, s, r) ==
  /\ r.jobs \in [Slots -> Job]
  /\ r.nextjid \in Nat
  /\ \/ r.jobs = jl /\ \A i \in Slots : jl[i].pid # NoPid
     \/ \E i \in Slots : jl[i].pid = NoPid /\ r.jobs = [jl EXCEPT ![i] = newjob(p, n, s)]

LEMMA AddJob ==
  ASSUME NEW jl \in [Slots -> Job], NEW n \in Nat, NEW p \in Pids,
         NEW s \in JobStates
  PROVE  AddsJob(jl, n, p, s, addjob(jl, n, p, s))
<1> USE DEF AddsJob
<1>1. CASE getjobpid(jl, NoPid) = NoSlot
  BY <1>1, GetJobPid DEF addjob
<1>2. CASE getjobpid(jl, NoPid) # NoSlot
  <2> DEFINE i == getjobpid(jl, NoPid)
             new == newjob(p, n, s)
  <2>1. i \in Slots /\ jl[i].pid = NoPid
    BY <1>2, GetJobPid
  <2>2. addjob(jl, n, p, s).jobs = [jl EXCEPT ![i] = new]
    BY <1>2 DEF addjob
  <2>3. addjob(jl, n, p, s).nextjid = IF n + 1 > MAXJOBS THEN 1 ELSE n + 1
    BY <1>2 DEF addjob
  <2>4. new \in Job
    BY DEF Job, newjob
  <2> HIDE DEF i, new
  <2>5. [jl EXCEPT ![i] = new] \in [Slots -> Job]
    BY <2>4
  <2>6. addjob(jl, n, p, s).nextjid \in Nat
    BY <2>3, MAXJOBSAssumption
  <2> QED BY <2>1, <2>2, <2>5, <2>6 DEF new
<1> QED BY <1>1, <1>2

(* deletejob clears a slot that holds the process ID and leaves the        *)
(* others, or finds none and changes nothing.                              *)
DeletesJob(jl, p, r) ==
  /\ r.jobs \in [Slots -> Job]
  /\ r.nextjid \in Nat
  /\ \/ r.jobs = jl /\ \A i \in Slots : jl[i].pid # p
     \/ \E i \in Slots : jl[i].pid = p /\ r.jobs = [jl EXCEPT ![i] = clearjob]

LEMMA DeleteJob ==
  ASSUME NEW jl \in [Slots -> Job], NEW n \in Nat, NEW p \in Pids
  PROVE  DeletesJob(jl, p, deletejob(jl, n, p))
<1> USE DEF DeletesJob
<1>1. CASE getjobpid(jl, p) = NoSlot
  BY <1>1, GetJobPid DEF deletejob
<1>2. CASE getjobpid(jl, p) # NoSlot
  <2> DEFINE i == getjobpid(jl, p)
             rest == [jl EXCEPT ![i] = clearjob]
  <2>1. i \in Slots /\ jl[i].pid = p
    BY <1>2, GetJobPid
  <2>2. clearjob \in Job
    BY DEF clearjob, Job, JobStates
  <2>3. rest \in [Slots -> Job]
    BY <2>2
  <2>4. deletejob(jl, n, p).jobs = rest /\ deletejob(jl, n, p).nextjid = maxjid(rest) + 1
    BY <1>2 DEF deletejob
  <2> HIDE DEF i, rest
  <2>5. maxjid(rest) \in Nat
    BY <2>3, MaxJid
  <2>6. maxjid(rest) + 1 \in Nat
    BY <2>5
  <2> QED BY <2>1, <2>3, <2>4, <2>6 DEF rest
<1> QED BY <1>1, <1>2

(* Whether nextjid may be an ID that a job has already: only when a job    *)
(* has the ID MAXJOBS or a larger one.                                     *)
FreeJid(jl, n) == n <= maxjid(jl) => maxjid(jl) >= MAXJOBS

LEMMA AddJobJid ==
  ASSUME NEW jl \in [Slots -> Job], NEW n \in Nat, NEW p \in Pids,
         NEW s \in JobStates,
         \A i \in Slots : jl[i].pid = NoPid => jl[i].jid = 0,
         FreeJid(jl, n)
  PROVE  FreeJid(addjob(jl, n, p, s).jobs, addjob(jl, n, p, s).nextjid)
<1> DEFINE r == addjob(jl, n, p, s)
<1>1. CASE getjobpid(jl, NoPid) = NoSlot
  BY <1>1 DEF addjob
<1>2. CASE getjobpid(jl, NoPid) # NoSlot
  <2>1. PICK i \in Slots : i = getjobpid(jl, NoPid) /\ jl[i].pid = NoPid
    BY <1>2, GetJobPid
  <2>2. /\ r.jobs = [jl EXCEPT ![i] = newjob(p, n, s)]
        /\ r.nextjid = IF n + 1 > MAXJOBS THEN 1 ELSE n + 1
    BY <1>2, <2>1 DEF addjob
  <2>3. r.jobs \in [Slots -> Job]
    BY AddJob DEF AddsJob
  <2> DEFINE M == maxjid(jl)
             N == maxjid(r.jobs)
  <2>4. M \in Nat /\ N \in Nat
    BY <2>3, MaxJid
  <2>5. r.jobs[i].jid = n /\ \A j \in Slots : j # i => r.jobs[j] = jl[j]
    BY <2>2 DEF newjob
  <2> HIDE DEF r
  <2>6. n <= N
    BY <2>3, <2>5, MaxJid
  <2>7. M <= N
    <3>1. PICK k \in Slots : jl[k].jid = M
      BY MaxJid
    <3>2. CASE k = i
      BY <2>1, <2>4, <3>1, <3>2
    <3>3. CASE k # i
      <4>1. r.jobs[k].jid <= N
        BY <2>3, MaxJid
      <4> QED BY <2>5, <3>1, <3>3, <4>1
    <3> QED BY <3>2, <3>3
  <2>8. M < n => N = n
    <3>1. PICK k \in Slots : r.jobs[k].jid = N
      BY <2>3, MaxJid
    <3>2. k # i => N <= M
      BY <2>5, <3>1, MaxJid
    <3> QED BY <2>4, <2>5, <2>6, <3>1, <3>2
  <2> HIDE DEF M, N
  <2>9. (n <= M => M >= MAXJOBS) /\ MAXJOBS \in Nat
    BY MAXJOBSAssumption DEF FreeJid, M
  <2>10. r.nextjid <= N => N >= MAXJOBS
    BY <2>2, <2>4, <2>6, <2>7, <2>8, <2>9
  <2> QED BY <2>10 DEF FreeJid, N, r
<1> QED BY <1>1, <1>2

LEMMA DeleteJobJid ==
  ASSUME NEW jl \in [Slots -> Job], NEW n \in Nat, NEW p \in Pids, FreeJid(jl, n)
  PROVE  FreeJid(deletejob(jl, n, p).jobs, deletejob(jl, n, p).nextjid)
<1> DEFINE r == deletejob(jl, n, p)
<1>1. CASE getjobpid(jl, p) = NoSlot
  BY <1>1 DEF deletejob
<1>2. CASE getjobpid(jl, p) # NoSlot
  <2>1. r.nextjid = maxjid(r.jobs) + 1
    BY <1>2 DEF deletejob
  <2>2. r.jobs \in [Slots -> Job]
    BY DeleteJob DEF DeletesJob
  <2> HIDE DEF r
  <2>3. maxjid(r.jobs) \in Nat
    BY <2>2, MaxJid
  <2>4. ~ (r.nextjid <= maxjid(r.jobs))
    BY <2>1, <2>3
  <2> QED BY <2>4 DEF FreeJid, r
<1> QED BY <1>1, <1>2

(* A change that leaves every job ID alone leaves their maximum.           *)
LEMMA SameJids ==
  ASSUME NEW jl, NEW km, \A i \in Slots : km[i].jid = jl[i].jid
  PROVE  maxjid(km) = maxjid(jl)
<1>1. JidsOf(km) = JidsOf(jl)
  BY DEF JidsOf
<1> QED BY <1>1 DEF maxjid

-----------------------------------------------------------------------------
(* The invariant.                                                          *)

NoForeground(jl) == \A i \in Slots : jl[i].state # "FG"

(* The end of an iteration brings standard input in line with the job list *)
(* and adds a prompt exactly when it comes back.                           *)
LEMMA EndIterationEffect ==
  ASSUME NEW jl \in [Slots -> Job], NEW pr \in Int, readInput \in BOOLEAN,
         \A i \in Slots : jl[i].pid = NoPid <=> jl[i].state = "UNDEF",
         EndIteration(jl, pr)
  PROVE  /\ pc' = "wait"
         /\ readInput' \in BOOLEAN
         /\ readInput' <=> NoForeground(jl)
         /\ prompts' = IF ~readInput /\ NoForeground(jl) THEN pr + 1 ELSE pr
<1>1. fgpid(jl) = NoPid <=> NoForeground(jl)
  BY FgPid DEF NoForeground
<1>2. CASE readInput /\ fgpid(jl) # NoPid /\ readInput' = FALSE /\ prompts' = pr
  BY <1>1, <1>2 DEF EndIteration
<1>3. CASE ~readInput /\ fgpid(jl) = NoPid /\ readInput' = TRUE /\ prompts' = pr + 1
  BY <1>1, <1>3 DEF EndIteration
<1>4. CASE (readInput <=> fgpid(jl) = NoPid) /\ UNCHANGED readInput /\ prompts' = pr
  BY <1>1, <1>4 DEF EndIteration
<1> QED BY <1>2, <1>3, <1>4 DEF EndIteration

LEMMA InitIInv == Init => IInv
<1> SUFFICES ASSUME Init PROVE IInv
  OBVIOUS
<1>1. clearjob \in Job
  BY DEF clearjob, Job, JobStates
<1>2. jobs \in [Slots -> Job]
  BY <1>1 DEF Init, initjobs
<1>3. \A i \in Slots : jobs[i] = clearjob
  BY DEF Init, initjobs
<1>4. TypeOK
  <2>1. proc \in [Pids -> ProcStates]
    BY DEF Init, ProcStates
  <2>2. pend \in [Pids -> SUBSET {"INT", "TSTP", "QUIT"}]
    BY DEF Init
  <2>3. nextjid \in Nat /\ prompts \in Int /\ lines \in Nat /\ typed \in Nat
    BY DEF Init
  <2>4. readInput \in BOOLEAN /\ buffered \in BOOLEAN /\ tail \in BOOLEAN /\ eof \in BOOLEAN
    BY Zenon DEF Init
  <2> QED BY <1>2, <2>1, <2>2, <2>3, <2>4, Zenon DEF Init, TypeOK
<1>5. SlotsAgree /\ OneForeground /\ JobsAreChildren
  BY <1>3 DEF SlotsAgree, OneForeground, JobsAreChildren, clearjob
<1>6. InputFollowsForeground /\ InputInHandlers /\ OnePrompt
  BY <1>3 DEF Init, InputFollowsForeground, InputInHandlers, OnePrompt, clearjob, Ended
<1>7. NoLostChild /\ StopsAreSeen
  BY DEF Init, NoLostChild, StopsAreSeen, Waitable, Zombie
<1> QED BY <1>4, <1>5, <1>6, <1>7 DEF IInv

(* A step that touches neither the job list nor the shell, and after which *)
(* every child that may be waited for is covered by a SIGCHLD, keeps IInv. *)
LEMMA OutsideStep ==
  ASSUME IInv, UNCHANGED shellVars, ~Ended, TypeOK',
         \A p \in Pids : proc'[p] = "none" <=> proc[p] = "none",
         \A p \in Pids : proc'[p] = "stopped" => proc[p] = "stopped",
         sigpend \subseteq sigpend',
         \A p \in Pids : proc'[p] \in Waitable => proc[p] \in Waitable \/ "CHLD" \in sigpend'
  PROVE  IInv'
<1> USE DEF shellVars
<1>1. SlotsAgree' /\ OneForeground' /\ InputFollowsForeground' /\ InputInHandlers'
  BY DEF IInv, SlotsAgree, OneForeground, InputFollowsForeground, InputInHandlers
<1>2. OnePrompt'
  BY DEF IInv, OnePrompt, Ended
<1>3. JobsAreChildren'
  BY DEF IInv, TypeOK, Job, JobsAreChildren
<1>4. NoLostChild'
  BY DEF IInv, NoLostChild, Ended
<1>5. StopsAreSeen'
  BY DEF IInv, StopsAreSeen, Ended
<1> QED BY <1>1, <1>2, <1>3, <1>4, <1>5 DEF IInv

LEMMA ChildrenIInv == IInv /\ Children => IInv'
<1> SUFFICES ASSUME IInv, Children PROVE IInv'
  OBVIOUS
<1> USE DEF IInv, TypeOK, ProcStates, Alive, Halted, Zombie, Waitable, Ended,
            shellVars, childVars, stdinVars
<1>1. PICK p \in Pids :
        \/ \E how \in Zombie : ChildEnds(p, how)
        \/ ChildStops(p)
        \/ ChildContinued(p)
        \/ \E sig \in {"INT", "TSTP", "QUIT"} : ChildTakesSignal(p, sig)
        \/ ChildReads(p)
  BY DEF Children
<1>2. CASE \E how \in Zombie : ChildEnds(p, how)
  BY <1>2, OutsideStep DEF ChildEnds, Becomes
<1>3. CASE ChildStops(p)
  BY <1>3, OutsideStep DEF ChildStops, Becomes
<1>4. CASE ChildContinued(p)
  BY <1>4, OutsideStep DEF ChildContinued, Continue
<1>5. CASE \E sig \in {"INT", "TSTP", "QUIT"} : ChildTakesSignal(p, sig)
  <2>1. PICK sig \in {"INT", "TSTP", "QUIT"} : ChildTakesSignal(p, sig)
    BY <1>5
  <2>2. CASE Becomes(p, "killed") /\ pend' = [pend EXCEPT ![p] = {}]
    BY <2>1, <2>2, OutsideStep DEF ChildTakesSignal, Becomes
  <2>3. CASE Becomes(p, "stopping") /\ pend' = [pend EXCEPT ![p] = @ \ {sig}]
    BY <2>1, <2>3, OutsideStep DEF ChildTakesSignal, Becomes
  <2>4. CASE ~Ended /\ pend' = [pend EXCEPT ![p] = @ \ {sig}] /\ UNCHANGED <<proc, sigpend>>
    BY <2>1, <2>4, OutsideStep DEF ChildTakesSignal
  <2> QED BY <2>1, <2>2, <2>3, <2>4 DEF ChildTakesSignal
<1>6. CASE ChildReads(p)
  <2>1. lines' \in Nat
    BY <1>6 DEF ChildReads
  <2>2. tail' \in BOOLEAN
    BY <1>6, Zenon DEF ChildReads
  <2>3. UNCHANGED <<shellVars, sigpend, childVars, eof, typed>>
    BY <1>6 DEF ChildReads
  <2>4. TypeOK'
    BY <2>1, <2>2, <2>3
  <2> QED BY <1>6, <2>3, <2>4, OutsideStep DEF ChildReads
<1> QED BY <1>1, <1>2, <1>3, <1>4, <1>5, <1>6

LEMMA TerminalIInv == IInv /\ Terminal => IInv'
<1> SUFFICES ASSUME IInv, Terminal PROVE IInv'
  OBVIOUS
<1> USE SignalsAssumption DEF IInv, TypeOK, Ended, shellVars, childVars, stdinVars
<1>1. CASE TypeLine
  <2>1. typed' \in Nat /\ lines' \in Nat
    BY <1>1 DEF TypeLine
  <2>2. tail' \in BOOLEAN
    BY <1>1, Zenon DEF TypeLine
  <2>3. UNCHANGED <<shellVars, sigpend, childVars, eof>>
    BY <1>1 DEF TypeLine
  <2>4. TypeOK'
    BY <2>1, <2>2, <2>3
  <2> QED BY <1>1, <2>3, <2>4, OutsideStep DEF TypeLine
<1>2. CASE TypePart
  BY <1>2, OutsideStep DEF TypePart
<1>3. CASE CloseStdin
  BY <1>3, OutsideStep DEF CloseStdin
<1>4. CASE \E sig \in ShellSignals : SendSignal(sig)
  BY <1>4, OutsideStep DEF SendSignal
<1> QED BY <1>1, <1>2, <1>3, <1>4 DEF Terminal

(* A step to the head of the loop: the new job list keeps its shape, and   *)
(* standard input and the prompts follow it.                               *)
LEMMA LoopHead ==
  ASSUME IInv, TypeOK', NEW pr \in Int,
         SlotsAgree', OneForeground', JobsAreChildren', NoLostChild', StopsAreSeen',
         EndIteration(jobs', pr),
         pr = IF readInput /\ NoForeground(jobs') THEN 1 ELSE 0
  PROVE  IInv'
<1>1. /\ pc' = "wait"
      /\ readInput' <=> NoForeground(jobs')
      /\ prompts' = IF ~readInput /\ NoForeground(jobs') THEN pr + 1 ELSE pr
  BY EndIterationEffect DEF IInv, TypeOK, SlotsAgree
<1>2. InputFollowsForeground' /\ InputInHandlers'
  BY <1>1 DEF InputFollowsForeground, InputInHandlers, NoForeground
<1>3. prompts' = IF readInput' THEN 1 ELSE 0
  <2>1. CASE NoForeground(jobs')
    BY <1>1, <2>1 DEF IInv, TypeOK
  <2>2. CASE ~NoForeground(jobs')
    BY <1>1, <2>2 DEF IInv, TypeOK
  <2> QED BY <2>1, <2>2
<1>4. OnePrompt'
  BY <1>3 DEF OnePrompt
<1> QED BY <1>2, <1>4 DEF IInv

(* The head of the loop again, by a step that leaves the job list alone.   *)
LEMMA SameJobsLoopHead ==
  ASSUME IInv, TypeOK', UNCHANGED jobs, pc \in {"wait", "reap", "read"},
         EndIteration(jobs, prompts),
         UNCHANGED proc,
         \A p \in Pids : proc[p] \in Waitable => "CHLD" \in sigpend'
  PROVE  IInv'
<1>1. SlotsAgree' /\ OneForeground' /\ JobsAreChildren'
  BY DEF IInv, SlotsAgree, OneForeground, JobsAreChildren
<1>2. ~Ended /\ pc' = "wait"
  BY DEF Ended, EndIteration
<1>3. NoLostChild' /\ StopsAreSeen'
  BY <1>2 DEF IInv, NoLostChild, StopsAreSeen
<1>4. readInput => NoForeground(jobs)
  BY DEF IInv, InputFollowsForeground, InputInHandlers, NoForeground
<1>5. prompts \in Int /\ prompts = IF readInput /\ NoForeground(jobs) THEN 1 ELSE 0
  <2>1. prompts = IF readInput THEN 1 ELSE 0
    BY <1>2 DEF IInv, OnePrompt
  <2> QED BY <1>4, <2>1
<1>6. EndIteration(jobs', prompts)
  BY DEF EndIteration
<1>7. NoForeground(jobs) <=> NoForeground(jobs')
  OBVIOUS
<1> QED BY <1>1, <1>3, <1>5, <1>6, <1>7, LoopHead

LEMMA SignalsIInv ==
  ASSUME IInv,
         \/ \E sig \in {"INT", "TSTP"} : TakeKeyboardSignal(sig)
         \/ TakeSigquit
         \/ TakeSigchld
  PROVE  IInv'
<1>1. CASE \E sig \in {"INT", "TSTP"} : TakeKeyboardSignal(sig)
  <2>1. PICK sig \in {"INT", "TSTP"} : TakeKeyboardSignal(sig)
    BY <1>1
  <2>2. /\ pc = "wait"
        /\ sigpend' = sigpend \ {sig}
        /\ EndIteration(jobs, prompts)
        /\ UNCHANGED <<jobs, nextjid, buffered, proc, stdinVars>>
    BY <2>1 DEF TakeKeyboardSignal
  <2>3. pend' \in [Pids -> SUBSET {"INT", "TSTP", "QUIT"}]
    BY <2>1 DEF TakeKeyboardSignal, Kill, IInv, TypeOK
  <2>4. readInput' \in BOOLEAN /\ prompts' \in Int /\ pc' = "wait"
    <3>1. jobs \in [Slots -> Job] /\ prompts \in Int /\ readInput \in BOOLEAN
      BY DEF IInv, TypeOK
    <3>2. prompts + 1 \in Int
      BY <3>1
    <3> QED BY <2>2, <3>1, <3>2, EndIterationEffect DEF IInv, SlotsAgree
  <2>5. TypeOK'
    BY <2>2, <2>3, <2>4 DEF IInv, TypeOK, stdinVars
  <2>6. \A p \in Pids : proc[p] \in Waitable => "CHLD" \in sigpend'
    BY <2>2 DEF IInv, NoLostChild, Ended
  <2> QED BY <2>2, <2>5, <2>6, SameJobsLoopHead
<1>2. CASE TakeSigquit \/ TakeSigchld
  <2> USE <1>2 DEF TakeSigquit, TakeSigchld, childVars, stdinVars
  <2>1. TypeOK'
    BY DEF IInv, TypeOK
  <2>2. SlotsAgree' /\ OneForeground' /\ JobsAreChildren'
    BY DEF IInv, SlotsAgree, OneForeground, JobsAreChildren
  <2>3. InputFollowsForeground' /\ InputInHandlers'
    BY DEF IInv, InputFollowsForeground, InputInHandlers
  <2>4. OnePrompt'
    BY DEF IInv, OnePrompt, Ended
  <2>5. NoLostChild' /\ StopsAreSeen'
    BY DEF IInv, NoLostChild, StopsAreSeen, Ended
  <2> QED BY <2>1, <2>2, <2>3, <2>4, <2>5 DEF IInv
<1> QED BY <1>1, <1>2

(* A job is found by its process ID at its own slot.                       *)
LEMMA JobSlot ==
  ASSUME TypeOK, JobsAreChildren, NEW i \in Slots, jobs[i].pid # NoPid
  PROVE  getjobpid(jobs, jobs[i].pid) = i
BY GetJobPid DEF TypeOK, JobsAreChildren

(* StopsAreSeen without the scan: a stopped child has a slot that says ST. *)
StoppedSlots ==
  \A p \in Pids : proc[p] = "stopped" /\ ~Ended =>
    \E i \in Slots : jobs[i].pid = p /\ jobs[i].state = "ST"

LEMMA StopsBySlot ==
  ASSUME TypeOK, JobsAreChildren
  PROVE  StopsAreSeen <=> StoppedSlots
<1>1. ASSUME NEW p \in Pids
      PROVE  (getjobpid(jobs, p) # NoSlot /\ jobs[getjobpid(jobs, p)].state = "ST")
               <=> \E i \in Slots : jobs[i].pid = p /\ jobs[i].state = "ST"
  <2>1. \A i \in Slots : jobs[i].pid = p => getjobpid(jobs, p) = i
    BY JobSlot, NoPidAssumption
  <2>2. getjobpid(jobs, p) # NoSlot =>
          getjobpid(jobs, p) \in Slots /\ jobs[getjobpid(jobs, p)].pid = p
    BY GetJobPid DEF TypeOK
  <2>3. NoSlot \notin Slots
    BY DEF NoSlot, Slots
  <2> QED BY <2>1, <2>2, <2>3
<1> QED BY <1>1 DEF StopsAreSeen, StoppedSlots

LEMMA ReapEndedIInv ==
  ASSUME IInv, NEW p \in Pids, ReapEnded(p)
  PROVE  IInv'
<1> DEFINE r == deletejob(jobs, nextjid, p)
<1>1. /\ pc = "reap" /\ ~Ended /\ proc[p] \in Zombie
      /\ proc' = [proc EXCEPT ![p] = "none"]
      /\ pend' = [pend EXCEPT ![p] = {}]
      /\ UNCHANGED <<readInput, buffered, prompts, sigpend, stdinVars>>
  BY DEF ReapEnded, Ended
<1>2. /\ jobs \in [Slots -> Job] /\ nextjid \in Nat
      /\ proc \in [Pids -> ProcStates] /\ p # NoPid
  BY NoPidAssumption DEF IInv, TypeOK
<1>3. /\ jobs' \in [Slots -> Job] /\ nextjid' \in Nat /\ pc' \in {"reap", "crashed"}
      /\ \/ jobs' = jobs /\ \A i \in Slots : jobs[i].pid # p
         \/ \E i \in Slots : jobs[i].pid = p /\ jobs' = [jobs EXCEPT ![i] = clearjob]
  <2>1. CASE getjobpid(jobs, p) = NoSlot /\ pc' = "crashed" /\ UNCHANGED <<jobs, nextjid>>
    BY <2>1, <1>2, GetJobPid
  <2>2. CASE jobs' = r.jobs /\ nextjid' = r.nextjid /\ UNCHANGED pc
    <3>1. DeletesJob(jobs, p, r)
      BY <1>2, DeleteJob
    <3> HIDE DEF r
    <3> QED BY <2>2, <1>1, <3>1 DEF DeletesJob
  <2> QED BY <2>1, <2>2 DEF ReapEnded
<1>4. /\ proc' \in [Pids -> ProcStates]
      /\ pend' \in [Pids -> SUBSET {"INT", "TSTP", "QUIT"}]
  BY <1>1 DEF IInv, TypeOK, ProcStates
<1>5. TypeOK'
  BY <1>1, <1>3, <1>4 DEF IInv, TypeOK, stdinVars
<1>6. clearjob.pid = NoPid /\ clearjob.state = "UNDEF" /\ clearjob.jid = 0
  BY DEF clearjob
<1>7. \A i \in Slots : jobs'[i] = jobs[i] \/ (jobs[i].pid = p /\ jobs'[i] = clearjob)
  BY <1>2, <1>3
<1>8. \A i \in Slots : jobs'[i].pid # p
  BY <1>2, <1>3, <1>6 DEF IInv, JobsAreChildren
<1>9. SlotsAgree' /\ OneForeground'
  BY <1>6, <1>7 DEF IInv, SlotsAgree, OneForeground
<1>10. JobsAreChildren'
  <2>1. \A i \in Slots : jobs'[i].pid # NoPid => jobs'[i] = jobs[i]
    BY <1>6, <1>7
  <2>2. \A i \in Slots : jobs'[i].pid # NoPid => proc'[jobs'[i].pid] # "none"
    <3>1. \A i \in Slots : jobs[i].pid # NoPid => jobs[i].pid \in Pids
      BY <1>2 DEF Job
    <3> QED BY <1>1, <1>2, <1>8, <2>1, <3>1 DEF IInv, JobsAreChildren
  <2> QED BY <2>1, <2>2 DEF IInv, JobsAreChildren
<1>11. InputFollowsForeground' /\ InputInHandlers'
  BY <1>1, <1>3, <1>6, <1>7 DEF IInv, InputFollowsForeground, InputInHandlers
<1>12. OnePrompt'
  BY <1>1 DEF IInv, OnePrompt
<1>13. NoLostChild'
  BY <1>3 DEF NoLostChild, Ended
<1>14. StoppedSlots'
  <2>1. StoppedSlots
    BY StopsBySlot DEF IInv
  <2>2. \A q \in Pids : proc'[q] = "stopped" => q # p /\ proc[q] = "stopped"
    BY <1>1, <1>2
  <2>3. \A i \in Slots : jobs[i].pid # p => jobs'[i] = jobs[i]
    BY <1>7
  <2> QED BY <1>1, <2>1, <2>2, <2>3 DEF StoppedSlots
<1>15. StopsAreSeen'
  BY <1>5, <1>10, <1>14, StopsBySlot, PTL
<1> QED BY <1>5, <1>9, <1>10, <1>11, <1>12, <1>13, <1>15 DEF IInv

LEMMA ReapStoppedIInv ==
  ASSUME IInv, NEW p \in Pids, ReapStopped(p)
  PROVE  IInv'
<1> DEFINE k == getjobpid(jobs, p)
<1>1. /\ pc = "reap" /\ ~Ended /\ proc[p] = "stopping"
      /\ proc' = [proc EXCEPT ![p] = "stopped"]
      /\ UNCHANGED <<nextjid, readInput, buffered, prompts, sigpend, pend, stdinVars>>
  BY DEF ReapStopped, Ended
<1>2. /\ jobs \in [Slots -> Job] /\ proc \in [Pids -> ProcStates] /\ p # NoPid
  BY NoPidAssumption DEF IInv, TypeOK
<1>3. \/ pc' = "crashed" /\ jobs' = jobs
      \/ /\ pc' = "reap" /\ k \in Slots /\ jobs[k].pid = p
         /\ jobs' = [jobs EXCEPT ![k].state = "ST"]
  BY <1>1, <1>2, GetJobPid DEF ReapStopped
<1>4. jobs' \in [Slots -> Job]
  BY <1>2, <1>3 DEF Job, JobStates
<1>5. proc' \in [Pids -> ProcStates]
  BY <1>1, <1>2 DEF ProcStates, Alive, Halted
<1>6. TypeOK'
  BY <1>1, <1>3, <1>4, <1>5 DEF IInv, TypeOK, stdinVars
<1>7. \A i \in Slots :
        /\ jobs'[i].pid = jobs[i].pid /\ jobs'[i].jid = jobs[i].jid
        /\ \/ jobs'[i].state = jobs[i].state
           \/ jobs[i].pid = p /\ jobs'[i].state = "ST"
  BY <1>2, <1>3 DEF Job
<1>8. SlotsAgree' /\ OneForeground'
  BY <1>2, <1>7 DEF IInv, SlotsAgree, OneForeground
<1>9. JobsAreChildren'
  <2>1. \A q \in Pids : proc'[q] = "none" <=> proc[q] = "none"
    BY <1>1, <1>2
  <2>2. \A i \in Slots : jobs[i].pid # NoPid => jobs[i].pid \in Pids
    BY <1>2 DEF Job
  <2> QED BY <1>7, <2>1, <2>2 DEF IInv, JobsAreChildren
<1>10. InputFollowsForeground' /\ InputInHandlers'
  BY <1>1, <1>3, <1>7 DEF IInv, InputFollowsForeground, InputInHandlers
<1>11. OnePrompt'
  BY <1>1 DEF IInv, OnePrompt
<1>12. NoLostChild'
  BY <1>3 DEF NoLostChild, Ended
<1>13. StoppedSlots'
  <2>1. StoppedSlots
    BY StopsBySlot DEF IInv
  <2>2. CASE pc' = "crashed"
    BY <2>2 DEF StoppedSlots, Ended
  <2>3. CASE /\ k \in Slots /\ jobs[k].pid = p
             /\ jobs' = [jobs EXCEPT ![k].state = "ST"]
    <3> HIDE DEF k
    <3>1. jobs'[k].pid = p /\ jobs'[k].state = "ST"
      BY <1>2, <2>3 DEF Job
    <3>2. \A q \in Pids : proc'[q] = "stopped" => q = p \/ proc[q] = "stopped"
      BY <1>1, <1>2
    <3>3. \A i \in Slots : jobs[i].state = "ST" => jobs'[i].state = "ST"
      BY <1>7
    <3> QED BY <1>1, <1>7, <2>1, <2>3, <3>1, <3>2, <3>3 DEF StoppedSlots
  <2> QED BY <1>3, <2>2, <2>3
<1>14. StopsAreSeen'
  BY <1>6, <1>9, <1>13, StopsBySlot, PTL
<1> QED BY <1>6, <1>8, <1>9, <1>10, <1>11, <1>12, <1>14 DEF IInv

LEMMA ReapDoneIInv == ASSUME IInv, ReapDone PROVE IInv'
<1>1. /\ pc = "reap"
      /\ \A p \in Pids : proc[p] \notin Waitable
      /\ EndIteration(jobs, prompts)
      /\ UNCHANGED <<jobs, nextjid, buffered, sigpend, childVars, stdinVars>>
  BY DEF ReapDone
<1>2. jobs \in [Slots -> Job] /\ prompts \in Int /\ prompts + 1 \in Int /\ readInput \in BOOLEAN
  BY DEF IInv, TypeOK
<1>3. readInput' \in BOOLEAN /\ prompts' \in Int /\ pc' = "wait"
  BY <1>1, <1>2, EndIterationEffect DEF IInv, SlotsAgree
<1>4. TypeOK'
  BY <1>1, <1>3 DEF IInv, TypeOK, childVars, stdinVars
<1> QED BY <1>1, <1>4, SameJobsLoopHead DEF childVars

LEMMA TakeInputIInv == ASSUME IInv, TakeInput PROVE IInv'
<1> USE DEF TakeInput, childVars, stdinVars
<1>1. TypeOK'
  BY DEF IInv, TypeOK
<1>2. SlotsAgree' /\ OneForeground' /\ JobsAreChildren'
  BY DEF IInv, SlotsAgree, OneForeground, JobsAreChildren
<1>3. InputFollowsForeground' /\ InputInHandlers'
  BY DEF IInv, InputFollowsForeground, InputInHandlers
<1>4. OnePrompt' /\ NoLostChild' /\ StopsAreSeen'
  BY DEF IInv, OnePrompt, NoLostChild, StopsAreSeen, Ended
<1> QED BY <1>1, <1>2, <1>3, <1>4 DEF IInv

LEMMA ReadPartIInv == ASSUME IInv, ReadPart PROVE IInv'
<1>1. /\ pc = "read" /\ UNCHANGED <<jobs, nextjid, sigpend, childVars, lines, eof, typed>>
  BY DEF ReadPart
<1>2. jobs \in [Slots -> Job] /\ prompts \in Int /\ prompts + 1 \in Int /\ readInput \in BOOLEAN
  BY DEF IInv, TypeOK
<1>3. tail' \in BOOLEAN
  BY Zenon DEF ReadPart
<1>4. \A p \in Pids : proc[p] \in Waitable => "CHLD" \in sigpend'
  BY <1>1 DEF IInv, NoLostChild, Ended
<1>5. CASE buffered' = TRUE /\ EndIteration(jobs, prompts)
  <2>1. buffered' \in BOOLEAN
    BY <1>5, Zenon
  <2>2. readInput' \in BOOLEAN /\ prompts' \in Int /\ pc' = "wait"
    BY <1>2, <1>5, EndIterationEffect DEF IInv, SlotsAgree
  <2>3. TypeOK'
    BY <1>1, <1>3, <2>1, <2>2 DEF IInv, TypeOK, childVars
  <2> QED BY <1>1, <1>4, <1>5, <2>3, SameJobsLoopHead DEF childVars
<1>6. CASE pc' = "exited" /\ UNCHANGED <<readInput, buffered, prompts>>
  <2> USE <1>1, <1>6 DEF childVars
  <2>1. TypeOK'
    BY <1>3 DEF IInv, TypeOK
  <2>2. SlotsAgree' /\ OneForeground' /\ JobsAreChildren'
    BY DEF IInv, SlotsAgree, OneForeground, JobsAreChildren
  <2>3. /\ InputFollowsForeground' /\ InputInHandlers' /\ OnePrompt'
        /\ NoLostChild' /\ StopsAreSeen'
    BY DEF InputFollowsForeground, InputInHandlers, OnePrompt, NoLostChild, StopsAreSeen, Ended
  <2> QED BY <2>1, <2>2, <2>3 DEF IInv
<1> QED BY <1>5, <1>6 DEF ReadPart

-----------------------------------------------------------------------------
(* eval.  In all its cases the shell is reading, so no job is in the       *)
(* foreground, one prompt stands, and every change is covered by SIGCHLD.  *)
LEMMA AtCommand ==
  ASSUME IInv, ReadLine
  PROVE  /\ pc = "read" /\ ~Ended /\ readInput /\ prompts = 1
         /\ NoForeground(jobs)
         /\ \A p \in Pids : proc[p] \in Waitable => "CHLD" \in sigpend
         /\ lines' \in Nat /\ UNCHANGED <<tail, eof, typed>>
<1>1. pc = "read" /\ ~Ended /\ UNCHANGED <<tail, eof, typed>>
  BY DEF ReadLine, Ended
<1>2. lines' \in Nat
  BY DEF ReadLine, IInv, TypeOK
<1>3. readInput /\ NoForeground(jobs)
  BY <1>1 DEF IInv, InputFollowsForeground, InputInHandlers, NoForeground
<1>4. prompts = 1
  BY <1>1, <1>3 DEF IInv, OnePrompt
<1>5. \A p \in Pids : proc[p] \in Waitable => "CHLD" \in sigpend
  BY <1>1 DEF IInv, NoLostChild
<1> QED BY <1>1, <1>2, <1>3, <1>4, <1>5

(* What is left to show of a command that returns to the head of the loop: *)
(* that the job list, the children and their signals keep their invariants.*)
LEMMA AfterCommand ==
  ASSUME IInv, ReadLine, AfterEval(jobs'),
         jobs' \in [Slots -> Job], nextjid' \in Nat,
         proc' \in [Pids -> ProcStates],
         pend' \in [Pids -> SUBSET {"INT", "TSTP", "QUIT"}],
         sigpend' \subseteq {"INT", "TSTP", "QUIT", "CHLD"},
         SlotsAgree', OneForeground', JobsAreChildren', StoppedSlots',
         \A p \in Pids : proc'[p] \in Waitable => "CHLD" \in sigpend'
  PROVE  IInv'
<1> DEFINE pr == IF fgpid(jobs') = NoPid THEN prompts ELSE prompts - 1
<1>1. /\ pc = "read" /\ readInput /\ prompts = 1
      /\ lines' \in Nat /\ UNCHANGED <<tail, eof, typed>>
  BY AtCommand
<1>2. EndIteration(jobs', pr)
  BY DEF AfterEval
<1>3. fgpid(jobs') = NoPid <=> NoForeground(jobs')
  BY FgPid DEF SlotsAgree, NoForeground
<1>4. pr \in Int /\ pr = IF readInput /\ NoForeground(jobs') THEN 1 ELSE 0
  BY <1>1, <1>3
<1> HIDE DEF pr
<1>5. /\ readInput' \in BOOLEAN /\ pc' = "wait"
      /\ prompts' = IF ~readInput /\ NoForeground(jobs') THEN pr + 1 ELSE pr
  BY <1>2, <1>4, EndIterationEffect DEF IInv, TypeOK, SlotsAgree
<1>6. prompts' \in Int
  BY <1>4, <1>5
<1>7. buffered' \in BOOLEAN
  BY Zenon DEF ReadLine
<1>8. TypeOK'
  BY <1>1, <1>5, <1>6, <1>7 DEF IInv, TypeOK
<1>9. NoLostChild'
  BY DEF NoLostChild
<1>10. StopsAreSeen'
  BY <1>8, StopsBySlot, PTL
<1> QED BY <1>2, <1>4, <1>8, <1>9, <1>10, LoopHead

LEMMA EvalNothingIInv == ASSUME IInv, EvalNothing PROVE IInv'
<1>1. ReadLine /\ UNCHANGED <<jobs, nextjid, sigpend, childVars>>
  BY DEF EvalNothing
<1>2. AfterEval(jobs')
  BY <1>1 DEF EvalNothing
<1>3. StoppedSlots
  BY StopsBySlot DEF IInv
<1>4. SlotsAgree' /\ OneForeground' /\ JobsAreChildren'
  BY <1>1 DEF IInv, SlotsAgree, OneForeground, JobsAreChildren, childVars
<1>5. StoppedSlots'
  BY <1>1, <1>3, AtCommand DEF StoppedSlots, childVars
<1>6. \A p \in Pids : proc'[p] \in Waitable => "CHLD" \in sigpend'
  BY <1>1, AtCommand DEF childVars
<1> QED BY <1>1, <1>2, <1>4, <1>5, <1>6, AfterCommand DEF IInv, TypeOK, childVars

LEMMA EvalEndsIInv == ASSUME IInv, EvalQuit \/ EvalRunFails PROVE IInv'
<1>1. /\ pc' \in {"exited", "aborted"}
      /\ buffered' = FALSE /\ lines' = lines - 1 /\ lines > 0
      /\ UNCHANGED <<jobs, nextjid, readInput, prompts, sigpend, proc, tail, eof, typed>>
  BY DEF EvalQuit, EvalRunFails, ReadLine, childVars
<1>2. pend' \in [Pids -> SUBSET {"INT", "TSTP", "QUIT"}]
  BY DEF EvalQuit, EvalRunFails, childVars, IInv, TypeOK
<1>3. lines' \in Nat
  BY <1>1 DEF IInv, TypeOK
<1>4. buffered' \in BOOLEAN
  BY <1>1, Zenon
<1>5. TypeOK'
  BY <1>1, <1>2, <1>3, <1>4 DEF IInv, TypeOK
<1>6. SlotsAgree' /\ OneForeground' /\ JobsAreChildren'
  BY <1>1 DEF IInv, SlotsAgree, OneForeground, JobsAreChildren
<1>7. /\ InputFollowsForeground' /\ InputInHandlers' /\ OnePrompt'
      /\ NoLostChild' /\ StopsAreSeen'
  BY <1>1 DEF InputFollowsForeground, InputInHandlers, OnePrompt, NoLostChild, StopsAreSeen, Ended
<1> QED BY <1>5, <1>6, <1>7 DEF IInv

(* fg and bg name a slot with a job in it.                                 *)
LEMMA NamedHasJob ==
  ASSUME IInv, NEW i \in Slots, i \in Named PROVE jobs[i].pid \in Pids
<1>1. i # NoSlot
  BY DEF NoSlot, Slots
<1>2. jobs \in [Slots -> Job] /\ jobs[i].pid \in Pids \cup {NoPid}
  BY DEF IInv, TypeOK, Job
<1>3. CASE \E j \in Slots : jobs[j].jid >= 1 /\ i = getjobjid(jobs, jobs[j].jid)
  <2>1. PICK j \in Slots : jobs[j].jid >= 1 /\ i = getjobjid(jobs, jobs[j].jid)
    BY <1>3
  <2>2. jobs[j].jid \in Nat
    BY <1>2 DEF Job
  <2>3. jobs[i].jid = jobs[j].jid
    BY <1>1, <1>2, <2>1, <2>2, GetJobJid
  <2>4. jobs[i].jid # 0
    BY <2>1, <2>3
  <2> QED BY <1>2, <2>4 DEF IInv, SlotsAgree
<1>4. CASE \E p \in Pids : i = getjobpid(jobs, p)
  BY <1>1, <1>2, <1>4, GetJobPid
<1> QED BY <1>3, <1>4 DEF Named

LEMMA EvalBgFgIInv ==
  ASSUME IInv, NEW i \in Slots, NEW state \in {"BG", "FG"}, EvalBgFg(i, state)
  PROVE  IInv'
<1> DEFINE q == jobs[i].pid
<1>1. /\ ReadLine /\ AfterEval(jobs') /\ nextjid' = nextjid
      /\ jobs' = [jobs EXCEPT ![i].state = state]
      /\ Continue(q)
  BY DEF EvalBgFg
<1>2. /\ jobs \in [Slots -> Job] /\ proc \in [Pids -> ProcStates]
  BY DEF IInv, TypeOK
<1>3. q \in Pids
  BY NamedHasJob DEF EvalBgFg
<1> HIDE DEF q
<1>4. /\ proc' = [proc EXCEPT ![q] = IF @ \in Halted THEN "running" ELSE @]
      /\ pend' = [pend EXCEPT ![q] = @ \ {"TSTP"}]
      /\ sigpend' = IF proc[q] \in Halted THEN sigpend \cup {"CHLD"} ELSE sigpend
  BY <1>1 DEF Continue
<1>5. /\ jobs' \in [Slots -> Job]
      /\ proc' \in [Pids -> ProcStates]
      /\ pend' \in [Pids -> SUBSET {"INT", "TSTP", "QUIT"}]
      /\ sigpend' \subseteq {"INT", "TSTP", "QUIT", "CHLD"}
      /\ nextjid' \in Nat
  <2>1. jobs' \in [Slots -> Job]
    BY <1>1, <1>2 DEF Job, JobStates
  <2>2. proc' \in [Pids -> ProcStates]
    BY <1>2, <1>4 DEF ProcStates, Alive
  <2>3. pend' \in [Pids -> SUBSET {"INT", "TSTP", "QUIT"}]
    BY <1>4 DEF IInv, TypeOK
  <2>4. sigpend' \subseteq {"INT", "TSTP", "QUIT", "CHLD"} /\ nextjid' \in Nat
    BY <1>1, <1>4 DEF IInv, TypeOK
  <2> QED BY <2>1, <2>2, <2>3, <2>4
<1>6. \A j \in Slots :
        /\ jobs'[j].pid = jobs[j].pid /\ jobs'[j].jid = jobs[j].jid
        /\ jobs'[j].state = IF j = i THEN state ELSE jobs[j].state
  BY <1>1, <1>2 DEF Job
<1>7. jobs[i].pid = q /\ q # NoPid
  BY <1>3, NoPidAssumption DEF q
<1>8. NoForeground(jobs) /\ ~Ended
      /\ \A p \in Pids : proc[p] \in Waitable => "CHLD" \in sigpend
  BY <1>1, AtCommand
<1>9. SlotsAgree' /\ OneForeground'
  <2>1. SlotsAgree'
    BY <1>6, <1>7 DEF IInv, SlotsAgree
  <2>2. OneForeground'
    BY <1>6, <1>8 DEF OneForeground, NoForeground
  <2> QED BY <2>1, <2>2
<1>10. JobsAreChildren'
  <2>1. \A p \in Pids : proc'[p] = "none" <=> proc[p] = "none"
    BY <1>2, <1>4 DEF Halted
  <2>2. \A j \in Slots : jobs[j].pid # NoPid => jobs[j].pid \in Pids
    BY <1>2 DEF Job
  <2> QED BY <1>6, <2>1, <2>2 DEF IInv, JobsAreChildren
<1>11. StoppedSlots'
  <2>1. StoppedSlots
    BY StopsBySlot DEF IInv
  <2>2. \A p \in Pids : proc'[p] = "stopped" => p # q /\ proc[p] = "stopped"
    BY <1>2, <1>4 DEF Halted
  <2> QED BY <1>6, <1>7, <1>8, <2>1, <2>2 DEF StoppedSlots
<1>12. \A p \in Pids : proc'[p] \in Waitable => "CHLD" \in sigpend'
  BY <1>2, <1>4, <1>8 DEF Waitable, Zombie, Halted
<1> QED BY <1>1, <1>5, <1>9, <1>10, <1>11, <1>12, AfterCommand

LEMMA EvalRunIInv ==
  ASSUME IInv, NEW p \in Pids, NEW state \in {"BG", "FG"}, EvalRun(p, state)
  PROVE  IInv'
<1>1. /\ ReadLine /\ AfterEval(jobs')
      /\ proc[p] = "none" /\ proc' = [proc EXCEPT ![p] = "running"]
      /\ pend' = [pend EXCEPT ![p] = {}]
      /\ jobs' = addjob(jobs, nextjid, p, state).jobs
      /\ nextjid' = addjob(jobs, nextjid, p, state).nextjid
      /\ UNCHANGED sigpend
  BY DEF EvalRun
<1>2. /\ jobs \in [Slots -> Job] /\ nextjid \in Nat /\ proc \in [Pids -> ProcStates]
      /\ p # NoPid /\ state \in JobStates
  BY NoPidAssumption DEF IInv, TypeOK, JobStates
<1>3. /\ jobs' \in [Slots -> Job] /\ nextjid' \in Nat
      /\ \/ jobs' = jobs
         \/ \E i \in Slots :
              /\ jobs[i].pid = NoPid
              /\ jobs' = [jobs EXCEPT ![i] = newjob(p, nextjid, state)]
  <2> DEFINE r == addjob(jobs, nextjid, p, state)
  <2>1. AddsJob(jobs, nextjid, p, state, r)
    BY <1>2, AddJob
  <2>2. jobs' = r.jobs /\ nextjid' = r.nextjid
    BY <1>1
  <2> HIDE DEF r
  <2> QED BY <2>1, <2>2 DEF AddsJob
<1>4. NoForeground(jobs) /\ ~Ended
      /\ \A q \in Pids : proc[q] \in Waitable => "CHLD" \in sigpend
  BY <1>1, AtCommand
<1>5. /\ proc' \in [Pids -> ProcStates]
      /\ pend' \in [Pids -> SUBSET {"INT", "TSTP", "QUIT"}]
      /\ sigpend' \subseteq {"INT", "TSTP", "QUIT", "CHLD"}
  <2>1. proc' \in [Pids -> ProcStates]
    BY <1>1, <1>2 DEF ProcStates, Alive
  <2>2. pend' \in [Pids -> SUBSET {"INT", "TSTP", "QUIT"}]
    BY <1>1 DEF IInv, TypeOK
  <2> QED BY <1>1, <2>1, <2>2 DEF IInv, TypeOK
<1>6. \A q \in Pids : q # p => proc'[q] = proc[q]
  BY <1>1, <1>2
<1>7. \A j \in Slots : jobs[j].pid # p
  BY <1>1, <1>2 DEF IInv, JobsAreChildren
<1>8. \A j \in Slots : jobs[j].pid # NoPid => jobs[j].pid \in Pids
  BY <1>2 DEF Job
<1>9. StoppedSlots
  BY StopsBySlot DEF IInv
<1>10. \A q \in Pids : proc'[q] = "stopped" => proc[q] = "stopped"
  BY <1>1, <1>2
<1>11. SlotsAgree' /\ OneForeground' /\ JobsAreChildren' /\ StoppedSlots'
  <2>1. CASE jobs' = jobs
    BY <1>4, <1>6, <1>7, <1>8, <1>9, <1>10, <2>1
       DEF IInv, SlotsAgree, OneForeground, JobsAreChildren, StoppedSlots
  <2>2. CASE \E i \in Slots :
              /\ jobs[i].pid = NoPid
              /\ jobs' = [jobs EXCEPT ![i] = newjob(p, nextjid, state)]
    <3>1. PICK i \in Slots :
              /\ jobs[i].pid = NoPid
              /\ jobs' = [jobs EXCEPT ![i] = newjob(p, nextjid, state)]
      BY <2>2
    <3>2. /\ jobs'[i].pid = p /\ jobs'[i].state = state
          /\ \A j \in Slots : j # i => jobs'[j] = jobs[j]
      BY <1>2, <3>1 DEF newjob
    <3>3. SlotsAgree'
      BY <1>2, <3>2 DEF IInv, SlotsAgree
    <3>4. OneForeground'
      BY <1>4, <3>2 DEF OneForeground, NoForeground
    <3>5. JobsAreChildren'
      <4>1. proc'[p] # "none"
        BY <1>1, <1>2
      <4> QED BY <1>6, <1>7, <1>8, <3>2, <4>1 DEF IInv, JobsAreChildren
    <3>6. StoppedSlots'
      <4>1. \A q \in Pids, j \in Slots : jobs[j].pid = q => j # i
        BY <3>1, NoPidAssumption
      <4> QED BY <1>4, <1>9, <1>10, <3>2, <4>1 DEF StoppedSlots
    <3> QED BY <3>3, <3>4, <3>5, <3>6
  <2> QED BY <1>3, <2>1, <2>2
<1>12. \A q \in Pids : proc'[q] \in Waitable => "CHLD" \in sigpend'
  BY <1>1, <1>2, <1>4 DEF Waitable, Zombie
<1> QED BY <1>1, <1>3, <1>5, <1>11, <1>12, AfterCommand

-----------------------------------------------------------------------------
LEMMA NextIInv == IInv /\ [Next]_vars => IInv'
<1> SUFFICES ASSUME IInv, [Next]_vars PROVE IInv'
  OBVIOUS
<1>1. CASE Shell
  <2>1. CASE \/ \E sig \in {"INT", "TSTP"} : TakeKeyboardSignal(sig)
             \/ TakeSigquit
             \/ TakeSigchld
    BY <2>1, SignalsIInv
  <2>2. CASE \E p \in Pids : Reap(p)
    BY <2>2, ReapEndedIInv, ReapStoppedIInv DEF Reap
  <2>3. CASE ReapDone
    BY <2>3, ReapDoneIInv
  <2>4. CASE TakeInput
    BY <2>4, TakeInputIInv
  <2>5. CASE ReadPart
    BY <2>5, ReadPartIInv
  <2>6. CASE Eval
    <3>1. CASE EvalNothing
      BY <3>1, EvalNothingIInv
    <3>2. CASE EvalQuit \/ EvalRunFails
      BY <3>2, EvalEndsIInv
    <3>3. CASE \E i \in Slots, state \in {"BG", "FG"} : EvalBgFg(i, state)
      BY <3>3, EvalBgFgIInv
    <3>4. CASE \E p \in Pids, state \in {"BG", "FG"} : EvalRun(p, state)
      BY <3>4, EvalRunIInv
    <3> QED BY <2>6, <3>1, <3>2, <3>3, <3>4 DEF Eval
  <2> QED BY <1>1, <2>1, <2>2, <2>3, <2>4, <2>5, <2>6 DEF Shell
<1>2. CASE Children
  BY <1>2, ChildrenIInv
<1>3. CASE Terminal
  BY <1>3, TerminalIInv
<1>4. CASE UNCHANGED vars
  BY <1>4 DEF vars, shellVars, childVars, stdinVars, IInv, TypeOK, SlotsAgree,
       OneForeground, InputFollowsForeground, InputInHandlers, OnePrompt,
       JobsAreChildren, NoLostChild, StopsAreSeen, Ended
<1> QED BY <1>1, <1>2, <1>3, <1>4 DEF Next

(* The invariant of the shell: job list, standard input, prompts, children *)
(* and signals agree in every state (tsh.c:153-259), however the steps of  *)
(* the shell, its children and the terminal interleave.                    *)
THEOREM Invariance == Spec => []IInv
<1>1. Init => IInv
  BY InitIInv
<1>2. IInv /\ [Next]_vars => IInv'
  BY NextIInv
<1> QED BY <1>1, <1>2, PTL DEF Spec

(* Type correctness of the shell, nextjid and the job list included.       *)
THEOREM TypeCorrectness == Spec => []TypeOK
<1>1. IInv => TypeOK
  BY DEF IInv
<1> QED BY <1>1, Invariance, PTL

(* At most one job is in the foreground (tsh.c:41), and standard input is  *)
(* in the epoll set between two iterations exactly when none is.           *)
THEOREM ForegroundSafety == Spec => [](OneForeground /\ InputFollowsForeground)
<1>1. IInv => OneForeground /\ InputFollowsForeground
  BY DEF IInv
<1> QED BY <1>1, Invariance, PTL

(* One prompt for every command line, none while a job is in front.        *)
THEOREM PromptSafety == Spec => []OnePrompt
<1>1. IInv => OnePrompt
  BY DEF IInv
<1> QED BY <1>1, Invariance, PTL

(* No end or stop of a child is lost, though signals coalesce and children *)
(* change while the SIGCHLD handler runs (tsh.c:174-200).                  *)
THEOREM ChildSafety == Spec => []NoLostChild
<1>1. IInv => NoLostChild
  BY DEF IInv
<1> QED BY <1>1, Invariance, PTL

(* A stop once reported is in the job list while the child is stopped.     *)
THEOREM StopSafety == Spec => []StopsAreSeen
<1>1. IInv => StopsAreSeen
  BY DEF IInv
<1> QED BY <1>1, Invariance, PTL

(* Every job is a child not yet waited for, and no two are the same child, *)
(* so that fg, bg and quit never signal somebody else's process.           *)
THEOREM JobSafety == Spec => []JobsAreChildren
<1>1. IInv => JobsAreChildren
  BY DEF IInv
<1> QED BY <1>1, Invariance, PTL

-----------------------------------------------------------------------------
(* With no more process IDs than slots the list has room for every child:  *)
(* the jobs in a full list are different children, none of them the new    *)
(* one.                                                                    *)
LEMMA Room ==
  ASSUME IInv, IsFiniteSet(Pids), Cardinality(Pids) <= MAXJOBS,
         NEW p \in Pids, proc[p] = "none"
  PROVE  \E i \in Slots : jobs[i].pid = NoPid
<1> SUFFICES ASSUME \A i \in Slots : jobs[i].pid # NoPid PROVE FALSE
  OBVIOUS
<1> DEFINE f == [i \in Slots |-> jobs[i].pid]
           Others == Pids \ {p}
<1>1. \A i \in Slots : jobs[i].pid \in Others
  <2>1. \A i \in Slots : jobs[i].pid \in Pids
    BY DEF IInv, TypeOK, Job
  <2> QED BY <2>1 DEF IInv, JobsAreChildren
<1>2. f \in Injection(Slots, Others)
  <2>1. f \in [Slots -> Others]
    BY <1>1
  <2>2. \A i, j \in Slots : f[i] = f[j] => i = j
    BY DEF IInv, JobsAreChildren
  <2> QED BY <2>1, <2>2 DEF Injection, IsInjective
<1>3. IsFiniteSet(Others) /\ Cardinality(Others) = Cardinality(Pids) - 1
  BY FS_RemoveElement
<1>4. Cardinality(Slots) <= Cardinality(Others)
  <2> HIDE DEF f, Others
  <2> QED BY <1>2, <1>3, FS_Injection
<1>5. Cardinality(Slots) = MAXJOBS
  <2>1. Cardinality(1 .. MAXJOBS) = MAXJOBS
    BY FS_Interval, MAXJOBSAssumption
  <2> QED BY <2>1 DEF Slots
<1>6. Cardinality(Pids) \in Nat
  BY FS_CardinalityType
<1> QED BY <1>3, <1>4, <1>5, <1>6, MAXJOBSAssumption

(* EveryChildHasJob without the scan.                                      *)
TrackedBySlot ==
  /\ \A p \in Pids : proc[p] # "none" /\ ~Ended => \E i \in Slots : jobs[i].pid = p
  /\ pc # "crashed"

LEMMA TrackedSlots == TypeOK => (EveryChildHasJob <=> TrackedBySlot)
<1> SUFFICES ASSUME TypeOK PROVE EveryChildHasJob <=> TrackedBySlot
  OBVIOUS
<1>1. \A p \in Pids : getjobpid(jobs, p) # NoSlot <=> \E i \in Slots : jobs[i].pid = p
  BY GetJobPid DEF TypeOK
<1> QED BY <1>1 DEF EveryChildHasJob, TrackedBySlot

(* Every slot keeps its process ID and no child comes or goes.             *)
LEMMA SamePids ==
  ASSUME TrackedBySlot, pc' # "crashed", Ended => Ended',
         \A i \in Slots : jobs'[i].pid = jobs[i].pid,
         \A p \in Pids : proc'[p] # "none" => proc[p] # "none"
  PROVE  TrackedBySlot'
BY DEF TrackedBySlot

LEMMA ShellTracks ==
  ASSUME IInv, TrackedBySlot, Shell, IsFiniteSet(Pids), Cardinality(Pids) <= MAXJOBS
  PROVE  TrackedBySlot'
<1>0. jobs \in [Slots -> Job] /\ proc \in [Pids -> ProcStates]
  BY DEF IInv, TypeOK
<1>8. jobs \in [Slots -> Job] /\ nextjid \in Nat
  BY DEF IInv, TypeOK
<1>1. CASE \E sig \in {"INT", "TSTP"} : TakeKeyboardSignal(sig)
  BY <1>1, SamePids DEF TakeKeyboardSignal, EndIteration, Ended
<1>2. CASE TakeSigquit \/ TakeSigchld
  BY <1>2, SamePids DEF TakeSigquit, TakeSigchld, childVars, Ended
<1>3. ASSUME NEW p \in Pids, ReapEnded(p) PROVE TrackedBySlot'
  <2> DEFINE r == deletejob(jobs, nextjid, p)
  <2>1. pc = "reap" /\ ~Ended /\ proc[p] # "none" /\ proc' = [proc EXCEPT ![p] = "none"]
    BY <1>3 DEF ReapEnded, Zombie, Ended
  <2>2. getjobpid(jobs, p) # NoSlot
    BY <1>0, <2>1, GetJobPid DEF TrackedBySlot
  <2>3. jobs' = r.jobs /\ pc' = pc
    BY <1>3, <2>2 DEF ReapEnded
  <2>4. DeletesJob(jobs, p, r)
    BY <1>8, DeleteJob
  <2>5. \A q \in Pids : q # p => \A i \in Slots : jobs[i].pid = q => jobs'[i] = jobs[i]
    <3> HIDE DEF r
    <3> QED BY <1>0, <2>3, <2>4 DEF DeletesJob
  <2>6. \A q \in Pids : proc'[q] # "none" => q # p /\ proc[q] # "none"
    BY <1>0, <2>1
  <2> QED BY <2>1, <2>3, <2>5, <2>6 DEF TrackedBySlot
<1>4. ASSUME NEW p \in Pids, ReapStopped(p) PROVE TrackedBySlot'
  <2> DEFINE k == getjobpid(jobs, p)
  <2>1. pc = "reap" /\ ~Ended /\ proc[p] = "stopping" /\ proc' = [proc EXCEPT ![p] = "stopped"]
    BY <1>4 DEF ReapStopped, Ended
  <2>2. k # NoSlot
    BY <1>0, <2>1, GetJobPid DEF TrackedBySlot
  <2>3. pc' = pc /\ jobs' = [jobs EXCEPT ![k].state = "ST"]
    BY <1>4, <2>2 DEF ReapStopped
  <2> HIDE DEF k
  <2>4. \A i \in Slots : jobs'[i].pid = jobs[i].pid
    BY <1>0, <2>3 DEF Job
  <2>5. \A q \in Pids : proc'[q] # "none" => proc[q] # "none"
    BY <1>0, <2>1
  <2> QED BY <2>1, <2>3, <2>4, <2>5, SamePids
<1>5. CASE ReapDone \/ TakeInput \/ ReadPart \/ EvalNothing \/ EvalQuit \/ EvalRunFails
  <2>1. UNCHANGED <<jobs, proc>> /\ pc' # "crashed" /\ ~Ended
    BY <1>5 DEF ReapDone, TakeInput, ReadPart, EvalNothing, EvalQuit, EvalRunFails,
         ReadLine, AfterEval, EndIteration, childVars, Ended
  <2> QED BY <2>1, SamePids
<1>6. ASSUME NEW i \in Slots, NEW state \in {"BG", "FG"}, EvalBgFg(i, state)
      PROVE  TrackedBySlot'
  <2>1. /\ jobs' = [jobs EXCEPT ![i].state = state] /\ pc' = "wait" /\ ~Ended
        /\ Continue(jobs[i].pid)
    BY <1>6 DEF EvalBgFg, ReadLine, AfterEval, EndIteration, Ended
  <2>2. \A j \in Slots : jobs'[j].pid = jobs[j].pid
    BY <1>0, <2>1 DEF Job
  <2>3. \A q \in Pids : proc'[q] # "none" => proc[q] # "none"
    BY <1>0, <2>1 DEF Continue, Halted
  <2> QED BY <2>1, <2>2, <2>3, SamePids
<1>7. ASSUME NEW p \in Pids, NEW state \in {"BG", "FG"}, EvalRun(p, state)
      PROVE  TrackedBySlot'
  <2> DEFINE r == addjob(jobs, nextjid, p, state)
  <2>1. /\ jobs' = r.jobs /\ pc' = "wait" /\ ~Ended
        /\ proc[p] = "none" /\ proc' = [proc EXCEPT ![p] = "running"]
    BY <1>7 DEF EvalRun, ReadLine, AfterEval, EndIteration, Ended
  <2>2. \E i \in Slots : jobs[i].pid = NoPid
    BY <2>1, Room
  <2>3. state \in JobStates
    BY DEF JobStates
  <2>4. AddsJob(jobs, nextjid, p, state, r)
    BY <1>8, <2>3, NoPidAssumption, AddJob
  <2> HIDE DEF r
  <2>5. PICK i \in Slots : jobs[i].pid = NoPid /\ jobs' = [jobs EXCEPT ![i] = newjob(p, nextjid, state)]
    BY <2>1, <2>2, <2>4 DEF AddsJob
  <2>6. jobs'[i].pid = p /\ \A j \in Slots : jobs[j].pid # NoPid => jobs'[j] = jobs[j]
    BY <1>0, <2>5 DEF newjob
  <2>7. \A q \in Pids : proc'[q] # "none" => q = p \/ proc[q] # "none"
    BY <1>0, <2>1
  <2> QED BY <2>1, <2>6, <2>7, NoPidAssumption DEF TrackedBySlot
<1> QED BY <1>1, <1>2, <1>3, <1>4, <1>5, <1>6, <1>7 DEF Shell, Reap, Eval

LEMMA OthersTrack ==
  ASSUME IInv, TrackedBySlot, Children \/ Terminal PROVE TrackedBySlot'
<1>1. proc \in [Pids -> ProcStates]
  BY DEF IInv, TypeOK
<1>2. CASE Children
  BY <1>1, <1>2, SamePids DEF Children, ChildEnds, ChildStops, ChildContinued,
       ChildTakesSignal, ChildReads, Becomes, Continue, shellVars, childVars,
       Ended, Halted, TrackedBySlot
<1>3. CASE Terminal
  BY <1>3, SamePids DEF Terminal, TypeLine, TypePart, CloseStdin, SendSignal,
       shellVars, childVars, Ended, TrackedBySlot
<1> QED BY <1>2, <1>3

(* While the machine has no more process IDs than the list has slots, the  *)
(* SIGCHLD handler (tsh.c:176-200) never meets a child without a job.      *)
THEOREM ChildrenAreTracked ==
  ASSUME IsFiniteSet(Pids), Cardinality(Pids) <= MAXJOBS
  PROVE  Spec => []EveryChildHasJob
<1>1. Init => TrackedBySlot
  BY DEF Init, TrackedBySlot
<1>2. IInv /\ TrackedBySlot /\ [Next]_vars => TrackedBySlot'
  <2> SUFFICES ASSUME IInv, TrackedBySlot, [Next]_vars PROVE TrackedBySlot'
    OBVIOUS
  <2>1. CASE UNCHANGED vars
    BY <2>1 DEF vars, shellVars, childVars, TrackedBySlot, Ended
  <2> QED BY <2>1, ShellTracks, OthersTrack DEF Next
<1>3. IInv /\ TrackedBySlot => EveryChildHasJob
  BY TrackedSlots DEF IInv
<1> QED BY <1>1, <1>2, <1>3, Invariance, PTL DEF Spec

(* quit (tsh.c:386-389) leaves no child alive that was not told, as long   *)
(* as the list has room for every child.                                   *)
THEOREM QuitSafety ==
  ASSUME IsFiniteSet(Pids), Cardinality(Pids) <= MAXJOBS
  PROVE  Spec => QuitTellsEveryChild
<1>1. ASSUME IInv, EveryChildHasJob, [Next]_vars PROVE [QuitTells]_vars
  <2>1. CASE EvalQuit
    <3>1. /\ pend' = [p \in Pids |->
                        IF getjobpid(jobs, p) # NoSlot /\ proc[p] \in Alive
                        THEN pend[p] \cup {"QUIT"} ELSE pend[p]]
          /\ pc = "read"
      BY <2>1 DEF EvalQuit, ReadLine
    <3>2. \A p \in Pids : proc[p] \in Alive => getjobpid(jobs, p) # NoSlot
      BY <1>1, <3>1 DEF EveryChildHasJob, Alive, Halted, Ended
    <3> QED BY <3>1, <3>2 DEF QuitTells
  <2>2. CASE ~EvalQuit
    <3>1. lines \in Nat
      BY <1>1 DEF IInv, TypeOK
    <3>2. CASE Eval
      BY <2>2, <3>2 DEF Eval, EvalNothing, EvalBgFg, EvalRun, EvalRunFails, AfterEval,
           EndIteration, QuitTells
    <3>3. CASE \E p \in Pids : ChildReads(p)
      BY <3>3 DEF ChildReads, shellVars, Ended, QuitTells
    <3>4. CASE TypeLine
      BY <3>1, <3>4 DEF TypeLine, shellVars, Ended, QuitTells
    <3>5. CASE lines' = lines
      BY <3>1, <3>5 DEF QuitTells
    <3>6. CASE Shell /\ ~Eval
      BY <3>5, <3>6 DEF Shell, TakeKeyboardSignal, TakeSigquit, TakeSigchld, Reap, ReapEnded,
           ReapStopped, ReapDone, TakeInput, ReadPart, stdinVars
    <3>7. CASE Children
      BY <3>3, <3>5, <3>7 DEF Children, ChildEnds, ChildStops, ChildContinued,
           ChildTakesSignal, stdinVars
    <3>8. CASE Terminal
      BY <3>4, <3>5, <3>8 DEF Terminal, TypePart, CloseStdin, SendSignal, stdinVars
    <3> QED BY <1>1, <3>2, <3>6, <3>7, <3>8 DEF Next
  <2> QED BY <2>1, <2>2
<1>2. Spec => [][QuitTells]_vars
  BY <1>1, Invariance, ChildrenAreTracked, PTL DEF Spec
<1> QED BY <1>2 DEF QuitTellsEveryChild

(* A keyboard signal given to a child was meant for it.  Every step but    *)
(* the one that forwards gives none.                                       *)
LEMMA OnlyKillForwards ==
  ASSUME IInv, [Next]_vars,
         ~ \E sig \in {"INT", "TSTP"} : TakeKeyboardSignal(sig)
  PROVE  ForwardedToForeground
<1>1. SUFFICES \A p \in Pids, sig \in {"INT", "TSTP"} : sig \notin pend'[p] \ pend[p]
  BY DEF ForwardedToForeground
<1>2. pend \in [Pids -> SUBSET {"INT", "TSTP", "QUIT"}]
  BY DEF IInv, TypeOK
<1>3. CASE UNCHANGED pend
  BY <1>3
<1>4. ASSUME NEW p \in Pids,
             \/ pend' = [pend EXCEPT ![p] = {}]
             \/ \E s : pend' = [pend EXCEPT ![p] = @ \ {s}]
      PROVE  \A q \in Pids : pend'[q] \subseteq pend[q]
  BY <1>2, <1>4
<1>5. ASSUME NEW q \in Pids \cup {NoPid}, Continue(q)
      PROVE  \A p \in Pids : pend'[p] \subseteq pend[p]
  BY <1>2, <1>5 DEF Continue
<1>6. CASE \E p \in Pids : Reap(p)
  BY <1>4, <1>6, <1>3 DEF Reap, ReapEnded, ReapStopped
<1>7. CASE EvalQuit
  BY <1>2, <1>7 DEF EvalQuit
<1>8. CASE \E i \in Slots, state \in {"BG", "FG"} : EvalBgFg(i, state)
  <2>1. PICK i \in Slots : Continue(jobs[i].pid)
    BY <1>8 DEF EvalBgFg
  <2>2. jobs[i].pid \in Pids \cup {NoPid}
    BY DEF IInv, TypeOK, Job
  <2> QED BY <1>5, <2>1, <2>2
<1>9. CASE \E p \in Pids, state \in {"BG", "FG"} : EvalRun(p, state)
  BY <1>4, <1>9 DEF EvalRun
<1>10. CASE Children
  BY <1>3, <1>4, <1>5, <1>10 DEF Children, ChildEnds, ChildStops, ChildContinued,
       ChildTakesSignal, ChildReads, childVars
<1>11. CASE \/ TakeSigquit \/ TakeSigchld \/ ReapDone \/ TakeInput \/ ReadPart
            \/ EvalNothing \/ EvalRunFails \/ Terminal \/ UNCHANGED vars
  BY <1>3, <1>11 DEF TakeSigquit, TakeSigchld, ReapDone, TakeInput, ReadPart,
       EvalNothing, EvalRunFails, Terminal, TypeLine, TypePart, CloseStdin, SendSignal,
       vars, childVars
<1> QED BY <1>6, <1>7, <1>8, <1>9, <1>10, <1>11 DEF Next, Shell, Eval

LEMMA KillForwards ==
  ASSUME IInv, NEW sig \in {"INT", "TSTP"}, TakeKeyboardSignal(sig)
  PROVE  ForwardedToForeground
<1>1. /\ pc = "wait"
      /\ IF fgpid(jobs) # NoPid THEN Kill(fgpid(jobs), sig) ELSE UNCHANGED pend
  BY DEF TakeKeyboardSignal
<1>2. CASE fgpid(jobs) = NoPid
  BY <1>1, <1>2 DEF ForwardedToForeground
<1>3. CASE fgpid(jobs) # NoPid
  <2>1. jobs \in [Slots -> Job]
    BY DEF IInv, TypeOK
  <2>2. PICK i \in Slots : jobs[i].state = "FG" /\ jobs[i].pid = fgpid(jobs)
    BY <1>3, <2>1, FgPid DEF IInv, SlotsAgree
  <2>3. getjobpid(jobs, fgpid(jobs)) = i
    BY <1>3, <2>2, JobSlot DEF IInv
  <2>4. ~readInput
    BY <1>1, <2>2 DEF IInv, InputFollowsForeground
  <2>5. \A p \in Pids, s \in {"INT", "TSTP"} : s \in pend'[p] \ pend[p] => p = fgpid(jobs)
    <3>1. pend \in [Pids -> SUBSET {"INT", "TSTP", "QUIT"}]
      BY DEF IInv, TypeOK
    <3>2. Kill(fgpid(jobs), sig)
      BY <1>1, <1>3
    <3> QED BY <3>1, <3>2 DEF Kill
  <2>6. i # NoSlot
    BY DEF NoSlot, Slots
  <2> QED BY <2>2, <2>3, <2>4, <2>5, <2>6 DEF ForwardedToForeground
<1> QED BY <1>2, <1>3

(* Ctrl-C and ctrl-Z never reach a background or stopped job               *)
(* (tsh.c:163-169).                                                        *)
THEOREM KeyboardSafety == Spec => KeyboardSignalsForeground
<1>1. IInv /\ [Next]_vars => [ForwardedToForeground]_vars
  BY OnlyKillForwards, KillForwards
<1>2. Spec => [][ForwardedToForeground]_vars
  BY <1>1, Invariance, PTL DEF Spec
<1> QED BY <1>2 DEF KeyboardSignalsForeground

-----------------------------------------------------------------------------
(* Job control.                                                            *)

(* What a step does to the job list.                                       *)
InputAtRest == readInput' = readInput \/ (~readInput /\ fgpid(jobs) = NoPid /\ readInput')
InputAtEval == /\ readInput /\ fgpid(jobs) = NoPid
               /\ readInput' <=> fgpid(jobs') = NoPid

Same == jobs' = jobs /\ nextjid' = nextjid /\ InputAtRest

Deleted(p) == /\ jobs' = deletejob(jobs, nextjid, p).jobs
              /\ nextjid' = deletejob(jobs, nextjid, p).nextjid
              /\ readInput' = readInput

Added(p, state) == /\ proc[p] = "none"
                   /\ jobs' = addjob(jobs, nextjid, p, state).jobs
                   /\ nextjid' = addjob(jobs, nextjid, p, state).nextjid
                   /\ InputAtEval

SetTo(i, state) == /\ jobs[i].pid # NoPid
                   /\ jobs' = [jobs EXCEPT ![i].state = state]
                   /\ nextjid' = nextjid

JobsChange ==
  \/ Same
  \/ \E p \in Pids : Deleted(p)
  \/ \E p \in Pids, state \in {"BG", "FG"} : Added(p, state)
  \/ \E i \in Slots : SetTo(i, "ST") /\ readInput' = readInput
  \/ \E i \in Slots, state \in {"BG", "FG"} : SetTo(i, state) /\ InputAtEval

LEMMA EvalChangesJobs == ASSUME IInv, Eval PROVE JobsChange
<1>1. readInput
  BY DEF IInv, InputInHandlers, Eval, EvalNothing, EvalQuit, EvalBgFg, EvalRun,
       EvalRunFails, ReadLine
<1>2. ASSUME NEW jl, NEW pr, EndIteration(jl, pr)
      PROVE  readInput' <=> fgpid(jl) = NoPid
  BY <1>1, <1>2 DEF EndIteration
<1>3. ASSUME NEW jl, AfterEval(jl) PROVE readInput' <=> fgpid(jl) = NoPid
  BY <1>2, <1>3 DEF AfterEval
<1>4. fgpid(jobs) = NoPid
  <2>1. pc = "read"
    BY DEF Eval, EvalNothing, EvalQuit, EvalBgFg, EvalRun, EvalRunFails, ReadLine
  <2>2. \A i \in Slots : jobs[i].state # "FG"
    BY <1>1, <2>1 DEF IInv, InputFollowsForeground
  <2> QED BY <2>2, FgPid DEF IInv, TypeOK, SlotsAgree
<1>5. CASE EvalNothing
  BY <1>1, <1>3, <1>4, <1>5 DEF EvalNothing, JobsChange, Same, InputAtRest
<1>6. CASE EvalQuit \/ EvalRunFails
  BY <1>6 DEF EvalQuit, EvalRunFails, JobsChange, Same, InputAtRest
<1>7. ASSUME NEW i \in Slots, NEW state \in {"BG", "FG"}, EvalBgFg(i, state)
      PROVE  JobsChange
  <2>1. jobs[i].pid # NoPid
    BY <1>7, NamedHasJob, NoPidAssumption DEF EvalBgFg
  <2> QED BY <1>1, <1>3, <1>4, <1>7, <2>1 DEF EvalBgFg, JobsChange, SetTo, InputAtEval
<1>8. ASSUME NEW p \in Pids, NEW state \in {"BG", "FG"}, EvalRun(p, state)
      PROVE  JobsChange
  BY <1>1, <1>3, <1>4, <1>8 DEF EvalRun, JobsChange, Added, InputAtEval
<1> QED BY <1>5, <1>6, <1>7, <1>8 DEF Eval

LEMMA ShellChangesJobs == ASSUME IInv, Shell PROVE JobsChange
<1>0. pc \in {"wait", "reap", "read"} /\ readInput => fgpid(jobs) = NoPid
  <2>1. pc \in {"wait", "reap", "read"} /\ readInput => \A i \in Slots : jobs[i].state # "FG"
    BY DEF IInv, InputFollowsForeground, InputInHandlers
  <2> QED BY <2>1, FgPid DEF IInv, TypeOK, SlotsAgree
<1>1. ASSUME NEW pr, EndIteration(jobs, pr), pc \in {"wait", "reap", "read"}
      PROVE  InputAtRest
  BY <1>0, <1>1 DEF EndIteration, InputAtRest, IInv, TypeOK
<1>2. CASE \E sig \in {"INT", "TSTP"} : TakeKeyboardSignal(sig)
  BY <1>1, <1>2 DEF TakeKeyboardSignal, JobsChange, Same
<1>3. CASE TakeSigquit \/ TakeSigchld \/ TakeInput
  BY <1>3 DEF TakeSigquit, TakeSigchld, TakeInput, JobsChange, Same, InputAtRest
<1>4. CASE ReapDone \/ ReadPart
  BY <1>1, <1>4 DEF ReapDone, ReadPart, JobsChange, Same, InputAtRest
<1>5. ASSUME NEW p \in Pids, ReapEnded(p) PROVE JobsChange
  BY <1>5 DEF ReapEnded, JobsChange, Same, Deleted, InputAtRest
<1>6. ASSUME NEW p \in Pids, ReapStopped(p) PROVE JobsChange
  <2>1. CASE getjobpid(jobs, p) = NoSlot
    BY <1>6, <2>1 DEF ReapStopped, JobsChange, Same, InputAtRest
  <2>2. CASE getjobpid(jobs, p) # NoSlot
    <3>1. PICK i \in Slots : i = getjobpid(jobs, p) /\ jobs[i].pid = p
      BY <2>2, GetJobPid DEF IInv, TypeOK
    <3> QED BY <1>6, <2>2, <3>1, NoPidAssumption DEF ReapStopped, JobsChange, SetTo
  <2> QED BY <2>1, <2>2
<1> QED BY <1>2, <1>3, <1>4, <1>5, <1>6, EvalChangesJobs DEF Shell, Reap

LEMMA NextChangesJobs == ASSUME IInv, [Next]_vars PROVE JobsChange
<1>1. CASE Children
  BY <1>1 DEF Children, ChildEnds, ChildStops, ChildContinued, ChildTakesSignal,
       ChildReads, shellVars, JobsChange, Same, InputAtRest
<1>2. CASE Terminal
  BY <1>2 DEF Terminal, TypeLine, TypePart, CloseStdin, SendSignal, shellVars,
       JobsChange, Same, InputAtRest
<1>3. CASE UNCHANGED vars
  BY <1>3 DEF vars, shellVars, JobsChange, Same, InputAtRest
<1> QED BY <1>1, <1>2, <1>3, ShellChangesJobs DEF Next

-----------------------------------------------------------------------------
(* Job IDs.                                                                *)

LEMMA NewJid ==
  ASSUME IInv, NextjidIsFree, JobsChange PROVE NextjidIsFree' /\ NewJidIsFresh
<1>1. /\ jobs \in [Slots -> Job] /\ nextjid \in Nat
      /\ \A i \in Slots : jobs[i].pid = NoPid => jobs[i].jid = 0
      /\ FreeJid(jobs, nextjid)
  BY DEF IInv, TypeOK, SlotsAgree, NextjidIsFree, FreeJid
<1>2. (\A i \in Slots : jobs[i].pid = NoPid => jobs'[i].pid = NoPid) => NewJidIsFresh
  BY DEF NewJidIsFresh
<1>3. CASE Same
  BY <1>1, <1>2, <1>3 DEF Same, NextjidIsFree
<1>4. ASSUME NEW p \in Pids, Deleted(p) PROVE NextjidIsFree' /\ NewJidIsFresh
  <2>1. NextjidIsFree'
    BY <1>1, <1>4, DeleteJobJid DEF Deleted, NextjidIsFree, FreeJid
  <2>2. DeletesJob(jobs, p, deletejob(jobs, nextjid, p))
    BY <1>1, DeleteJob
  <2>3. jobs' = jobs \/ \E i \in Slots : jobs' = [jobs EXCEPT ![i] = clearjob]
    BY <1>4, <2>2 DEF Deleted, DeletesJob
  <2> QED BY <1>1, <1>2, <2>1, <2>3 DEF clearjob
<1>5. ASSUME NEW p \in Pids, NEW state \in {"BG", "FG"}, Added(p, state)
      PROVE  NextjidIsFree' /\ NewJidIsFresh
  <2>0. state \in JobStates
    BY DEF JobStates
  <2>1. NextjidIsFree'
    BY <1>1, <1>5, <2>0, AddJobJid DEF Added, NextjidIsFree, FreeJid
  <2>2. AddsJob(jobs, nextjid, p, state, addjob(jobs, nextjid, p, state))
    BY <1>1, <2>0, AddJob
  <2>3. \/ jobs' = jobs
        \/ \E i \in Slots : jobs' = [jobs EXCEPT ![i] = newjob(p, nextjid, state)]
    BY <1>5, <2>2 DEF Added, AddsJob
  <2>4. CASE jobs' = jobs
    BY <1>2, <2>1, <2>4
  <2>5. ASSUME NEW i \in Slots, jobs' = [jobs EXCEPT ![i] = newjob(p, nextjid, state)]
        PROVE  NewJidIsFresh
    <3>1. jobs'[i].jid = nextjid /\ \A j \in Slots : j # i => jobs'[j] = jobs[j]
      BY <1>1, <2>5 DEF newjob
    <3>2. (\E j \in Slots : jobs[j].jid = nextjid) => maxjid(jobs) >= MAXJOBS
      BY <1>1, MaxJid DEF FreeJid
    <3> QED BY <3>1, <3>2 DEF NewJidIsFresh
  <2> QED BY <2>1, <2>3, <2>4, <2>5
<1>6. ASSUME NEW i \in Slots, NEW state, SetTo(i, state)
      PROVE  NextjidIsFree' /\ NewJidIsFresh
  <2>1. \A j \in Slots : jobs'[j].jid = jobs[j].jid /\ jobs'[j].pid = jobs[j].pid
    BY <1>1, <1>6 DEF SetTo, Job
  <2>2. maxjid(jobs') = maxjid(jobs)
    BY <2>1, SameJids
  <2> QED BY <1>2, <1>6, <2>1, <2>2 DEF NextjidIsFree, SetTo
<1> QED BY <1>3, <1>4, <1>5, <1>6 DEF JobsChange

(* %jobid names one job as long as no live job has reached ID MAXJOBS      *)
(* (tsh.c:507 and 528).                                                    *)
THEOREM JidsAreFresh == Spec => FreshJid
<1>1. Init => NextjidIsFree
  <2>1. ASSUME Init PROVE jobs \in [Slots -> Job] /\ nextjid = 1
                          /\ \A i \in Slots : jobs[i].jid = 0
    BY <2>1 DEF Init, initjobs, clearjob, Job, JobStates
  <2> QED BY <2>1, MaxJid DEF NextjidIsFree
<1>2. IInv /\ NextjidIsFree /\ [Next]_vars => NextjidIsFree' /\ [NewJidIsFresh]_vars
  BY NextChangesJobs, NewJid
<1>3. Spec => [][NewJidIsFresh]_vars
  BY <1>1, <1>2, Invariance, PTL DEF Spec
<1> QED BY <1>3 DEF FreshJid

-----------------------------------------------------------------------------
(* The refinement.                                                         *)

(* A process's job by its slot, without the scan.                          *)
JobsBySlot ==
  \A p \in Pids :
    /\ \A i \in Slots : jobs[i].pid = p => UserJobs[p] = jobs[i].state
    /\ (\A i \in Slots : jobs[i].pid # p) => UserJobs[p] = "none"

LEMMA JobBySlot == IInv => JobsBySlot
<1> SUFFICES ASSUME IInv, NEW p \in Pids
             PROVE  /\ \A i \in Slots : jobs[i].pid = p => UserJobs[p] = jobs[i].state
                    /\ (\A i \in Slots : jobs[i].pid # p) => UserJobs[p] = "none"
  BY DEF JobsBySlot
<1>1. jobs \in [Slots -> Job]
  BY DEF IInv, TypeOK
<1>2. UserJobs[p] = IF getjobpid(jobs, p) = NoSlot THEN "none"
                    ELSE jobs[getjobpid(jobs, p)].state
  BY DEF UserJobs
<1>3. ASSUME NEW i \in Slots, jobs[i].pid = p PROVE UserJobs[p] = jobs[i].state
  <2>1. getjobpid(jobs, p) = i
    BY <1>3, JobSlot, NoPidAssumption DEF IInv
  <2>2. i # NoSlot
    BY DEF NoSlot, Slots
  <2> QED BY <1>2, <2>1, <2>2
<1> QED BY <1>1, <1>2, <1>3, GetJobPid

LEMMA JobBySlotNext == IInv' => JobsBySlot'
BY JobBySlot, PTL

(* One slot changes: the job of one process becomes "state".               *)
Becoming(p, state) == UserJobs' = [UserJobs EXCEPT ![p] = state]

LEMMA OneJobChanges ==
  ASSUME IInv, IInv', NEW p \in Pids, NEW state, NEW i \in Slots,
         \A j \in Slots : j # i => jobs'[j] = jobs[j] /\ jobs[j].pid # p,
         jobs[i].pid \in {p, NoPid},
         \/ jobs'[i].pid = p /\ jobs'[i].state = state
         \/ jobs'[i].pid = NoPid /\ state = "none"
  PROVE  Becoming(p, state)
<1>0. JobsBySlot /\ JobsBySlot'
  BY JobBySlot, JobBySlotNext
<1>1. UserJobs'[p] = state
  <2>1. CASE jobs'[i].pid = p
    BY <2>1, <1>0, NoPidAssumption DEF JobsBySlot
  <2>2. CASE jobs'[i].pid # p
    <3>1. \A j \in Slots : jobs'[j].pid # p
      BY <2>2
    <3> QED BY <1>0, <2>2, <3>1 DEF JobsBySlot
  <2> QED BY <2>1, <2>2
<1>2. ASSUME NEW q \in Pids, q # p PROVE UserJobs'[q] = UserJobs[q]
  <2>1. jobs[i].pid # q /\ jobs'[i].pid # q
    BY <1>2, NoPidAssumption
  <2>2. CASE \E j \in Slots : jobs[j].pid = q
    <3>1. PICK j \in Slots : jobs[j].pid = q
      BY <2>2
    <3>2. jobs'[j] = jobs[j]
      BY <2>1, <3>1
    <3> QED BY <1>0, <3>1, <3>2 DEF JobsBySlot
  <2>3. CASE \A j \in Slots : jobs[j].pid # q
    <3>1. \A j \in Slots : jobs'[j].pid # q
      BY <2>1, <2>3
    <3> QED BY <1>0, <2>3, <3>1 DEF JobsBySlot
  <2> QED BY <2>2, <2>3
<1>3. UserJobs = [q \in Pids |-> UserJobs[q]] /\ UserJobs' = [q \in Pids |-> UserJobs'[q]]
  BY DEF UserJobs
<1> HIDE DEF UserJobs
<1> QED BY <1>1, <1>2, <1>3 DEF Becoming

LEMMA SameRefines == ASSUME IInv, Same PROVE [Control!Next]_(Control!vars)
<1>1. UserJobs' = UserJobs
  BY DEF Same, UserJobs
<1>2. CASE readInput' = readInput
  BY <1>1, <1>2 DEF Control!vars
<1>3. CASE ~readInput /\ fgpid(jobs) = NoPid /\ readInput'
  <2>1. \A i \in Slots : jobs[i].state # "FG"
    BY <1>3, FgPid DEF IInv, TypeOK, SlotsAgree
  <2>2. \A p \in Pids : UserJobs[p] # "FG"
    <3>1. ASSUME NEW p \in Pids PROVE UserJobs[p] # "FG"
      BY <2>1, JobBySlot DEF JobsBySlot
    <3> QED BY <3>1
  <2>3. readInput' = TRUE
    BY <1>3
  <2> QED BY <1>1, <1>3, <2>2, <2>3 DEF Control!Next, Control!Listen
<1> QED BY <1>2, <1>3 DEF Same, InputAtRest

LEMMA DeletedRefines ==
  ASSUME IInv, IInv', NEW p \in Pids, Deleted(p)
  PROVE  [Control!Next]_(Control!vars)
<1>1. jobs \in [Slots -> Job] /\ nextjid \in Nat
  BY DEF IInv, TypeOK
<1>2. DeletesJob(jobs, p, deletejob(jobs, nextjid, p))
  BY <1>1, DeleteJob
<1>3. CASE jobs' = jobs
  BY <1>3 DEF UserJobs, Control!vars, Deleted
<1>4. ASSUME NEW i \in Slots, jobs[i].pid = p, jobs' = [jobs EXCEPT ![i] = clearjob]
      PROVE  [Control!Next]_(Control!vars)
  <2>1. \A j \in Slots : j # i => jobs'[j] = jobs[j] /\ jobs[j].pid # p
    BY <1>1, <1>4, NoPidAssumption DEF IInv, JobsAreChildren
  <2>2. jobs'[i].pid = NoPid
    BY <1>1, <1>4 DEF clearjob
  <2>3. Becoming(p, "none")
    BY <1>4, <2>1, <2>2, OneJobChanges
  <2>4. UserJobs[p] # "none"
    <3>1. jobs[i].state \in JobStates
      BY <1>1 DEF Job
    <3> QED BY <1>4, <3>1, JobBySlot DEF JobStates, JobsBySlot
  <2>5. Control!Leaves(p, "none")
    BY <2>3, <2>4 DEF Control!Leaves, Becoming, Deleted
  <2> QED BY <2>5 DEF Control!Next
<1> QED BY <1>2, <1>3, <1>4 DEF DeletesJob, Deleted

(* A command puts a job in a slot, or changes the one that is there; the   *)
(* shell goes on reading commands unless that job now has the foreground.  *)
LEMMA PutRefines ==
  ASSUME IInv, IInv', NEW p \in Pids, NEW state \in {"BG", "FG"}, NEW i \in Slots,
         \A j \in Slots : j # i => jobs'[j] = jobs[j] /\ jobs[j].pid # p,
         jobs[i].pid \in {p, NoPid}, jobs'[i].pid = p /\ jobs'[i].state = state,
         \A j \in Slots : jobs[j].state # "FG",
         InputAtEval
  PROVE  [Control!Next]_(Control!vars)
<1>1. Becoming(p, state)
  BY OneJobChanges
<1>2. fgpid(jobs') = NoPid <=> \A j \in Slots : jobs'[j].state # "FG"
  BY FgPid DEF IInv, TypeOK, SlotsAgree
<1>3. (\A j \in Slots : jobs'[j].state # "FG") <=> state # "FG"
  OBVIOUS
<1>4. readInput /\ (readInput' <=> state # "FG") /\ readInput' \in BOOLEAN
  BY <1>2, <1>3 DEF InputAtEval, IInv, TypeOK
<1>5. readInput' = (state # "FG")
  BY <1>4
<1>6. Control!Puts(p, state)
  BY <1>1, <1>4, <1>5 DEF Control!Puts, Becoming
<1> QED BY <1>6 DEF Control!Next

LEMMA AddedRefines ==
  ASSUME IInv, IInv', NEW p \in Pids, NEW state \in {"BG", "FG"}, Added(p, state),
         \A j \in Slots : jobs[j].state # "FG"
  PROVE  [Control!Next]_(Control!vars)
<1>1. jobs \in [Slots -> Job] /\ nextjid \in Nat /\ state \in JobStates
  BY DEF IInv, TypeOK, JobStates
<1>2. AddsJob(jobs, nextjid, p, state, addjob(jobs, nextjid, p, state))
  BY <1>1, AddJob
<1>3. CASE jobs' = jobs
  BY <1>3 DEF UserJobs, Control!vars, Added, InputAtEval, IInv, TypeOK
<1>4. ASSUME NEW i \in Slots, jobs[i].pid = NoPid,
             jobs' = [jobs EXCEPT ![i] = newjob(p, nextjid, state)]
      PROVE  [Control!Next]_(Control!vars)
  <2>1. \A j \in Slots : jobs[j].pid # p
    BY NoPidAssumption DEF Added, IInv, JobsAreChildren
  <2>2. /\ \A j \in Slots : j # i => jobs'[j] = jobs[j]
        /\ jobs'[i].pid = p /\ jobs'[i].state = state
    BY <1>1, <1>4 DEF newjob
  <2> QED BY <1>4, <2>1, <2>2, PutRefines DEF Added
<1> QED BY <1>2, <1>3, <1>4 DEF AddsJob, Added

LEMMA SetRefines ==
  ASSUME IInv, IInv', NEW i \in Slots,
         \/ SetTo(i, "ST") /\ readInput' = readInput
         \/ \E state \in {"BG", "FG"} :
              SetTo(i, state) /\ InputAtEval /\ \A j \in Slots : jobs[j].state # "FG"
  PROVE  [Control!Next]_(Control!vars)
<1>1. jobs \in [Slots -> Job]
  BY DEF IInv, TypeOK
<1>2. PICK p \in Pids : jobs[i].pid = p
  BY <1>1 DEF SetTo, Job
<1>3. \A j \in Slots : j # i => jobs[j].pid # p
  BY <1>2, NoPidAssumption DEF IInv, JobsAreChildren
<1>4. ASSUME NEW state, SetTo(i, state)
      PROVE  /\ \A j \in Slots : j # i => jobs'[j] = jobs[j]
             /\ jobs'[i].pid = p /\ jobs'[i].state = state
  BY <1>1, <1>2, <1>4 DEF SetTo, Job
<1>5. CASE SetTo(i, "ST") /\ readInput' = readInput
  <2>1. Becoming(p, "ST")
    BY <1>2, <1>3, <1>4, <1>5, OneJobChanges
  <2>2. UserJobs[p] # "none"
    <3>1. jobs[i].state \in JobStates
      BY <1>1 DEF Job
    <3> QED BY <1>2, <3>1, JobBySlot DEF JobStates, JobsBySlot
  <2>3. Control!Leaves(p, "ST")
    BY <1>5, <2>1, <2>2 DEF Control!Leaves, Becoming
  <2> QED BY <2>3 DEF Control!Next
<1>6. ASSUME NEW state \in {"BG", "FG"}, SetTo(i, state), InputAtEval,
             \A j \in Slots : jobs[j].state # "FG"
      PROVE  [Control!Next]_(Control!vars)
  BY <1>2, <1>3, <1>4, <1>6, PutRefines
<1> QED BY <1>5, <1>6

LEMMA StepRefines == IInv /\ IInv' /\ [Next]_vars => [Control!Next]_(Control!vars)
<1> SUFFICES ASSUME IInv, IInv', [Next]_vars PROVE [Control!Next]_(Control!vars)
  OBVIOUS
<1>1. InputAtEval => \A j \in Slots : jobs[j].state # "FG"
  BY FgPid DEF IInv, TypeOK, SlotsAgree, InputAtEval
<1>2. CASE Same
  BY <1>2, SameRefines
<1>3. CASE \E p \in Pids : Deleted(p)
  BY <1>3, DeletedRefines
<1>4. CASE \E p \in Pids, state \in {"BG", "FG"} : Added(p, state)
  BY <1>1, <1>4, AddedRefines DEF Added
<1>5. CASE \E i \in Slots : SetTo(i, "ST") /\ readInput' = readInput
  BY <1>5, SetRefines
<1>6. CASE \E i \in Slots, state \in {"BG", "FG"} : SetTo(i, state) /\ InputAtEval
  BY <1>1, <1>6, SetRefines
<1> QED BY <1>2, <1>3, <1>4, <1>5, <1>6, NextChangesJobs DEF JobsChange

LEMMA InitRefines == Init => Control!Init
<1> SUFFICES ASSUME Init PROVE Control!Init
  OBVIOUS
<1>1. jobs = initjobs /\ readInput = TRUE
  BY DEF Init
<1>2. initjobs \in [Slots -> Job] /\ \A i \in Slots : initjobs[i].pid = NoPid
  BY DEF initjobs, clearjob, Job, JobStates
<1>3. \A p \in Pids : getjobpid(jobs, p) = NoSlot
  BY <1>1, <1>2, NoPidAssumption, GetJobPid
<1> QED BY <1>1, <1>3 DEF Control!Init, UserJobs

(* The shell keeps the promise of JobControl: commands alone bring a job   *)
(* to the foreground, and none is read before it has ended or stopped.     *)
THEOREM Refinement == Spec => ImplementsJobControl
<1>1. Spec => []IInv
  BY Invariance
<1>2. Spec => Control!Init /\ [][Control!Next]_(Control!vars)
  BY <1>1, InitRefines, StepRefines, PTL DEF Spec
<1> QED BY <1>2 DEF ImplementsJobControl, Control!Spec
=============================================================================

------------------------------- MODULE Driver -------------------------------
(***************************************************************************)
(* The driver of malloclab (mdriver.c): for every trace file it runs the   *)
(* allocator three times on a fresh simulated heap (memlib.c): to judge    *)
(* whether its answers are right, to measure how much of the heap it used, *)
(* and to time it (fsecs.c, module Timing).                                *)
(*                                                                         *)
(* The allocator under test is any allocator: an answer is any address,    *)
(* aligned or not, in the heap or not, with the payload's bytes kept or    *)
(* not.  "honest" remembers whether it has kept so far the promise of      *)
(* module Allocator; the driver does not see it and is to find it out.     *)
(***************************************************************************)
EXTENDS Timing, FiniteSets

CONSTANTS
  ALIGNMENT, MAX_HEAP,  (* config.h                                        *)
  CHARS,       (* Values of a byte (256 in the source).                    *)
  NULL,        (* The address that malloc returns when it fails.           *)
  Addresses,   (* What an allocator may answer otherwise.                  *)
  Increments,  (* What an allocator may ask of mem_sbrk in a call.         *)
  Runs,        (* The lists of trace files that the driver is run with.    *)
  MaxIndex,    (* Bound: the largest index of a payload in them.           *)
  Timers,      (* The timers it may be built with.                         *)
  Durations,   (* How long a run of the function to be timed may take.     *)
  Counts,      (* What a clock may show when it is started.                *)
  Events,      (* What callibrate may see: cycles, and ticks, of an event. *)
  TimedRuns,   (* Runs that are timed together (10 in the source).         *)
  MaxElapsed   (* Bound: the runs that "elapsed" remembers, more than any  *)
               (* measuring takes.                                         *)

ASSUME HeapAssumption ==
         ALIGNMENT \in Nat \ {0} /\ MAX_HEAP \in Nat /\ Increments \subseteq Int
ASSUME BytesAssumption == CHARS \in Nat \ {0} /\ MaxIndex \in Nat
ASSUME ClocksAssumption ==
         /\ Durations \subseteq 0 .. WORD * WORD - 1 /\ Counts \subseteq Nat
         /\ \A e \in Events : e.cycles \in Nat /\ e.ticks \in Nat \ {0}
ASSUME AddressesAssumption == Addresses \subseteq Int /\ NULL \notin Addresses
ASSUME MaxElapsedAssumption ==
         TimedRuns \in Nat /\ MaxElapsed > TimedRuns /\ MaxElapsed > maxsamples
ASSUME TimersAssumption == Timers \subseteq {"fcyc", "itimer", "gettod"}

VARIABLES
  pc,              (* the function main is in, or how the driver ended     *)
  package,         (* "libc" or "mm": whose malloc is run                  *)
  tracefiles,      (* the trace files to run                               *)
  tracenum,        (* the one that is run                                  *)
  trace,           (* its requests                                         *)
  opnum,           (* the next of them                                     *)
  mem_brk,         (* the end of the simulated heap                        *)
  ranges,          (* the list of the payloads' extents                    *)
  blocks,          (* trace->blocks                                        *)
  block_sizes,     (* trace->block_sizes                                   *)
  bytes,           (* the byte that each payload was filled with           *)
  held,            (* the ids whose payloads the trace holds               *)
  honest,          (* has the allocator kept its promise in this pass?     *)
  valid,           (* mm_stats[].valid of the traces judged so far         *)
  errors,          (* the number of errors reported                        *)
  total_size, max_total_size,
  timer,           (* how fsecs measures                                   *)
  clock,           (* what the clock showed when the measuring began       *)
  elapsed,         (* how long each run took                               *)
  values,          (* the sampler's smallest values                        *)
  cyc_per_tick,    (* cycles of a timer interrupt, 0 if not known yet      *)
  secs             (* the result of fsecs                                  *)

traceVars  == <<trace, blocks, block_sizes, bytes, held>>
judgeVars  == <<ranges, valid, errors>>
utilVars   == <<total_size, max_total_size>>
clockVars  == <<clock, elapsed, values, cyc_per_tick, secs>>
fixedVars  == <<tracefiles, timer>>
vars == <<pc, package, tracenum, opnum, mem_brk, honest,
          traceVars, judgeVars, utilVars, clockVars, fixedVars>>

Ended == pc \in {"exit0", "exit1", "abort"}

(***************************************************************************)
(* memlib.c: the heap begins at 0.                                         *)
(***************************************************************************)
mem_sbrk(brk, incr) == IF incr < 0 \/ brk + incr > MAX_HEAP THEN brk ELSE brk + incr
Grown(brk)          == {mem_sbrk(brk, incr) : incr \in Increments}

(***************************************************************************)
(* The promise, in the words of module Allocator.                          *)
(***************************************************************************)
Payload(id)  == [ptr |-> blocks[id], size |-> block_sizes[id]]
Payloads(S)  == {Payload(id) : id \in S}
Alloc        == INSTANCE Allocator WITH live <- Payloads(held), brk <- mem_brk

(* An answer: where the new payload is, and where the heap ends now.       *)
Answers == [ptr : Addresses \cup {NULL}, brk : Grown(mem_brk)]

Kept(answer, size, others) ==
  /\ answer.ptr # NULL
  /\ Alloc!Fits([ptr |-> answer.ptr, size |-> size], others, answer.brk)

(***************************************************************************)
(* The range list.                                                         *)
(***************************************************************************)
range_t(lo, size) == [lo |-> lo, hi |-> lo + size - 1]

(* Mutant of add_range: only the new payload's beginning is looked at.     *)
accepthigh(rs, lo, size, brk) ==
  /\ lo % ALIGNMENT = 0
  /\ {lo, lo + size - 1} \subseteq 0 .. brk - 1
  /\ \A p \in ToSet(rs) : ~ (lo >= p.lo /\ lo <= p.hi)

(* Whether add_range takes the payload: aligned, within the heap, and with *)
(* neither its first nor its last byte in another payload.                 *)
add_range(rs, lo, size, brk) ==
  LET hi == lo + size - 1
  IN  /\ lo % ALIGNMENT = 0
      /\ {lo, hi} \subseteq 0 .. brk - 1
      /\ \A p \in ToSet(rs) : ~ (lo >= p.lo /\ lo <= p.hi) /\ ~ (hi >= p.lo /\ hi <= p.hi)

(* The first range that begins at lo is taken out.                         *)
remove_range(rs, lo) ==
  LET found == {n \in DOMAIN rs : rs[n].lo = lo}
  IN  IF found = {} THEN rs ELSE RemoveAt(rs, Min(found))

(***************************************************************************)
(* main reads the next trace file.                                         *)
(***************************************************************************)
OpTypes == [a |-> "ALLOC", r |-> "REALLOC", f |-> "FREE"]

Ids == 0 .. MaxIndex

(* The largest index of an "a" or "r" line; "f" lines are not looked at.    *)
max_index(lines) ==
  Max({0} \cup {lines[n].index : n \in {n \in DOMAIN lines : lines[n].type # "f"}})

Readable(lines) == \A n \in DOMAIN lines : lines[n].type \in DOMAIN OpTypes

traceops(lines) == [n \in DOMAIN lines |-> [lines[n] EXCEPT !.type = OpTypes[lines[n].type]]]

read_trace(file) ==
  \/ /\ ~ Readable(file.lines)
     /\ pc' = "exit1"
     /\ UNCHANGED traceVars
  \/ /\ Readable(file.lines)
     /\ max_index(file.lines) # file.num_ids - 1 \/ file.num_ops # Len(file.lines)
     /\ pc' = "abort"
     /\ UNCHANGED traceVars
  \/ /\ Readable(file.lines)
     /\ max_index(file.lines) = file.num_ids - 1 /\ file.num_ops = Len(file.lines)
     /\ pc' = IF package = "libc" THEN "eval_libc_valid" ELSE "mm_init"
     /\ trace' = traceops(file.lines)
     /\ blocks' = [id \in Ids |-> NULL]
     /\ block_sizes' = [id \in Ids |-> 0]
     /\ bytes' = [id \in Ids |-> 0]
     /\ held' = {}

(* The ids whose payloads are held before request n.                       *)
HeldBefore(ops, n) ==
  LET frees(m, id) == ops[m].type = "FREE" /\ ops[m].index = id
  IN  {id \in Ids : \E k \in 1 .. n - 1 :
                     /\ ops[k].type # "FREE" /\ ops[k].index = id
                     /\ \A m \in k + 1 .. n - 1 : ~ frees(m, id)}

(* A trace asks for no 0 bytes, and resizes and frees what it holds.       *)
Orderly(ops) ==
  \A n \in DOMAIN ops :
    /\ ops[n].index \in Ids
    /\ ops[n].type # "FREE" => ops[n].size \in Nat \ {0}
    /\ ops[n].type = "ALLOC" <=> ops[n].index \notin HeldBefore(ops, n)

Line == [type : STRING, index : Nat, size : Nat]

ASSUME RunsAssumption ==
         \A files \in Runs :
           /\ files \in Seq([num_ids : Nat, num_ops : Nat, lines : Seq(Line)])
           /\ \A n \in DOMAIN files :
                Readable(files[n].lines) => Orderly(traceops(files[n].lines))

ReadTrace ==
  /\ pc = "main"
  /\ tracenum <= Len(tracefiles)
  /\ read_trace(tracefiles[tracenum])
  /\ honest' = TRUE
  /\ elapsed' = <<>> /\ clock' = 0 /\ secs' = 0
  /\ UNCHANGED <<package, tracenum, opnum, mem_brk, judgeVars, utilVars, values,
                 cyc_per_tick, fixedVars>>

(* libc's malloc has been run on every trace: mem_init, and mm's turn.     *)
LibcDone ==
  /\ pc = "main"
  /\ tracenum > Len(tracefiles) /\ package = "libc"
  /\ package' = "mm"
  /\ tracenum' = 1
  /\ mem_brk' = 0
  /\ UNCHANGED <<pc, opnum, honest, traceVars, judgeVars, utilVars, clockVars, fixedVars>>

(* The results: a performance index, or the number of errors.              *)
Report ==
  /\ pc = "main"
  /\ tracenum > Len(tracefiles) /\ package = "mm"
  /\ pc' = "exit0"
  /\ UNCHANGED <<package, tracenum, opnum, mem_brk, honest,
                 traceVars, judgeVars, utilVars, clockVars, fixedVars>>

(* free_trace, and on to the next file.                                    *)
NextTrace ==
  /\ pc' = "main"
  /\ tracenum' = tracenum + 1
  /\ opnum' = 1
  /\ trace' = <<>>
  /\ blocks' = [id \in Ids |-> NULL]
  /\ block_sizes' = [id \in Ids |-> 0]
  /\ bytes' = [id \in Ids |-> 0]
  /\ held' = {}

(***************************************************************************)
(* Every pass begins with an empty heap and an allocator initialized anew. *)
(***************************************************************************)
mm_init_ok ==
  /\ mem_brk' \in Grown(0)
  /\ held' = {}
  /\ opnum' = 1
  /\ honest' = TRUE

Request == trace[opnum]
HasMore(pass, type) == pc = pass /\ opnum <= Len(trace) /\ Request.type = type

(* Where a payload is and how long is remembered; the trace goes on.       *)
Remember(ptr, size) ==
  /\ blocks' = [blocks EXCEPT ![Request.index] = ptr]
  /\ block_sizes' = [block_sizes EXCEPT ![Request.index] = size]
  /\ held' = held \cup {Request.index}
  /\ opnum' = opnum + 1

Forget ==
  /\ held' = held \ {Request.index}
  /\ opnum' = opnum + 1
  /\ UNCHANGED <<blocks, block_sizes>>

(***************************************************************************)
(* eval_mm_valid.                                                          *)
(***************************************************************************)
(* Mutant of clear_ranges: the ranges of the last trace stay.              *)
keepranges == UNCHANGED ranges

clear_ranges == ranges' = <<>>

(* An error is reported, eval_mm_valid returns 0, and the rest of the      *)
(* trace is left.                                                          *)
malloc_error ==
  /\ valid' = Append(valid, FALSE)
  /\ errors' = errors + 1
  /\ NextTrace

ValidInit ==
  /\ pc = "mm_init"
  /\ clear_ranges
  /\ \/ /\ mm_init_ok
        /\ pc' = "eval_mm_valid"
        /\ UNCHANGED <<tracenum, trace, blocks, block_sizes, bytes, valid, errors>>
     \/ /\ mem_brk' = 0
        /\ honest' = FALSE
        /\ malloc_error
  /\ UNCHANGED <<package, utilVars, clockVars, fixedVars>>

ValidAlloc ==
  /\ HasMore("eval_mm_valid", "ALLOC")
  /\ \E answer \in Answers :
       /\ mem_brk' = answer.brk
       /\ honest' = (honest /\ Kept(answer, Request.size, Payloads(held)))
       /\ IF answer.ptr # NULL /\ add_range(ranges, answer.ptr, Request.size, answer.brk)
          THEN /\ ranges' = <<range_t(answer.ptr, Request.size)>> \o ranges
               /\ bytes' = [bytes EXCEPT ![Request.index] = Request.index % CHARS]
               /\ Remember(answer.ptr, Request.size)
               /\ UNCHANGED <<pc, tracenum, trace, valid, errors>>
          ELSE malloc_error /\ UNCHANGED ranges
  /\ UNCHANGED <<package, utilVars, clockVars, fixedVars>>

(* A byte read through a char pointer: char is signed.                     *)
as_char(byte) == IF byte >= CHARS \div 2 THEN byte - CHARS ELSE byte

(* The bytes that the payload kept are those it was filled with.           *)
SameData(byte, index) == as_char(byte) = index % CHARS

ValidRealloc ==
  /\ HasMore("eval_mm_valid", "REALLOC")
  /\ \E answer \in Answers, byte \in 0 .. CHARS - 1 :
       LET rest == remove_range(ranges, blocks[Request.index])
       IN  /\ mem_brk' = answer.brk
           /\ honest' = (/\ honest
                         /\ Kept(answer, Request.size, Payloads(held \ {Request.index}))
                         /\ byte = bytes[Request.index])
           /\ ranges' = IF answer.ptr = NULL THEN ranges
                        ELSE IF ~ add_range(rest, answer.ptr, Request.size, answer.brk) THEN rest
                        ELSE <<range_t(answer.ptr, Request.size)>> \o rest
           /\ IF /\ answer.ptr # NULL
                 /\ add_range(rest, answer.ptr, Request.size, answer.brk)
                 /\ SameData(byte, Request.index)
              THEN /\ bytes' = [bytes EXCEPT ![Request.index] = Request.index % CHARS]
                   /\ Remember(answer.ptr, Request.size)
                   /\ UNCHANGED <<pc, tracenum, trace, valid, errors>>
              ELSE malloc_error
  /\ UNCHANGED <<package, utilVars, clockVars, fixedVars>>

ValidFree ==
  /\ HasMore("eval_mm_valid", "FREE")
  /\ ranges' = remove_range(ranges, blocks[Request.index])
  /\ Forget
  /\ UNCHANGED <<pc, package, tracenum, mem_brk, honest, trace, bytes, valid, errors,
                 utilVars, clockVars, fixedVars>>

(* All requests were answered as they should.                              *)
ValidDone ==
  /\ pc = "eval_mm_valid"
  /\ opnum > Len(trace)
  /\ valid' = Append(valid, TRUE)
  /\ pc' = "mm_init again"
  /\ UNCHANGED <<package, tracenum, opnum, mem_brk, honest, traceVars, ranges, errors,
                 utilVars, clockVars, fixedVars>>

(***************************************************************************)
(* eval_mm_util.  Its answers are not looked at but for NULL, which ends   *)
(* the driver (app_error).                                                 *)
(***************************************************************************)
app_error ==
  /\ pc' = "exit1"
  /\ honest' = FALSE
  /\ UNCHANGED <<package, tracenum, opnum, mem_brk, traceVars, judgeVars, utilVars,
                 clockVars, fixedVars>>

UtilInit ==
  /\ pc = "mm_init again"
  /\ \/ /\ mm_init_ok
        /\ pc' = "eval_mm_util"
        /\ total_size' = 0 /\ max_total_size' = 0
        /\ UNCHANGED <<package, tracenum, trace, blocks, block_sizes, bytes, judgeVars,
                       clockVars, fixedVars>>
     \/ app_error

(* Mutant of Total: what a payload had before it was resized still counts. *)
totalgrows(change) ==
  /\ total_size' = total_size + (IF Request.type = "REALLOC" THEN Request.size ELSE change)
  /\ max_total_size' = Max({max_total_size, total_size'})

Total(change) ==
  /\ total_size' = total_size + change
  /\ max_total_size' = Max({max_total_size, total_size'})

UtilAlloc ==
  /\ HasMore("eval_mm_util", "ALLOC") \/ HasMore("eval_mm_util", "REALLOC")
  /\ \E answer \in Answers :
       /\ \/ /\ answer.ptr # NULL
             /\ mem_brk' = answer.brk
             /\ honest' = (honest /\ Kept(answer, Request.size,
                                          Payloads(held \ {Request.index})))
             /\ Remember(answer.ptr, Request.size)
             /\ Total(Request.size -
                        (IF Request.type = "REALLOC" THEN block_sizes[Request.index] ELSE 0))
             /\ UNCHANGED <<pc, package, tracenum, trace, bytes, judgeVars, clockVars,
                            fixedVars>>
          \/ answer.ptr = NULL /\ app_error

UtilFree ==
  /\ HasMore("eval_mm_util", "FREE")
  /\ Forget
  /\ total_size' = total_size - block_sizes[Request.index]
  /\ UNCHANGED <<pc, package, tracenum, mem_brk, honest, trace, bytes, max_total_size,
                 judgeVars, clockVars, fixedVars>>

(***************************************************************************)
(* fsecs runs eval_mm_speed, or eval_libc_speed, until it has its result.  *)
(***************************************************************************)
StartMeasuring ==
  /\ pc' = "fsecs"
  /\ elapsed' = <<>>
  /\ values' = <<>>
  /\ clock' \in IF timer = "fcyc" THEN {0} ELSE Counts
  /\ UNCHANGED <<cyc_per_tick, secs>>

UtilDone ==
  /\ pc = "eval_mm_util"
  /\ opnum > Len(trace)
  /\ total_size' = 0 /\ max_total_size' = 0
  /\ StartMeasuring
  /\ UNCHANGED <<package, tracenum, opnum, mem_brk, honest, traceVars, judgeVars, fixedVars>>

(* libc is trusted as long as it does not fail.                            *)
EvalLibcValid ==
  /\ pc = "eval_libc_valid"
  /\ \/ /\ StartMeasuring
        /\ UNCHANGED <<package, tracenum, opnum, mem_brk, honest, traceVars, judgeVars,
                       utilVars, fixedVars>>
     \/ app_error

(* A run of eval_mm_speed: an answer of NULL ends the driver, and all      *)
(* others are as good as any.  It leaves another heap behind.              *)
RunsAgain == pc = "fsecs" /\ Len(elapsed) < MaxElapsed

SpeedFails ==
  /\ RunsAgain
  /\ app_error

SpeedDone(result) ==
  /\ secs' = result
  /\ NextTrace

GoOn == UNCHANGED <<pc, tracenum, opnum, traceVars, secs>>

(* start_comp_counter calibrates as long as it does not know what a timer *)
(* interrupt costs.                                                        *)
CycPerTick == IF cyc_per_tick # 0 THEN {cyc_per_tick}
              ELSE {callibrate(events) : events \in SUBSET Events \ {{}}}

(* Mutant of GivesUp: the sampler waits until it has converged.            *)
neverstops(vs) == has_converged(vs)

GivesUp(vs) == has_converged(vs) \/ Len(elapsed') >= maxsamples

(* fcyc: the counter is read before and after, and the sampler asked       *)
(* whether it has seen enough.  What a run took is its duration less the   *)
(* interrupts in it.                                                       *)
Sample(duration, ticks) ==
  /\ RunsAgain /\ timer = "fcyc"
  /\ cyc_per_tick' \in CycPerTick
  /\ elapsed' = Append(elapsed, duration - ticks * cyc_per_tick')
  /\ \E count \in Counts :
       LET cyc == get_comp_counter(access_counter(count), access_counter(count + duration),
                                   ticks, cyc_per_tick')
           vs  == add_sample(values, cyc)
       IN  IF GivesUp(vs) THEN SpeedDone(vs[1]) /\ values' = <<>>
           ELSE GoOn /\ values' = vs
  /\ UNCHANGED <<package, mem_brk, honest, judgeVars, utilVars, clock, fixedVars>>

(* ftimer_gettod and ftimer_itimer: the clock is read before and after all *)
(* runs; the result is divided by their number.                            *)
Now == clock + FoldLeft(LAMBDA sum, e : sum + e, 0, elapsed')

Measured ==
  IF timer = "gettod" THEN difference(timeval(clock), timeval(Now))
  ELSE get_etime(Now) - get_etime(clock)

TimedRun(duration) ==
  /\ RunsAgain /\ timer # "fcyc"
  /\ elapsed' = Append(elapsed, duration)
  /\ IF Len(elapsed') = TimedRuns THEN SpeedDone(Measured) ELSE GoOn
  /\ UNCHANGED <<package, mem_brk, honest, judgeVars, utilVars, clock, values,
                 cyc_per_tick, fixedVars>>

-----------------------------------------------------------------------------
Init ==
  /\ pc = "main"
  /\ package \in {"libc", "mm"}
  /\ tracefiles \in Runs
  /\ timer \in Timers
  /\ tracenum = 1 /\ opnum = 1
  /\ trace = <<>>
  /\ mem_brk = 0
  /\ ranges = <<>>
  /\ blocks = [id \in Ids |-> NULL]
  /\ block_sizes = [id \in Ids |-> 0]
  /\ bytes = [id \in Ids |-> 0]
  /\ held = {}
  /\ honest = TRUE
  /\ valid = <<>> /\ errors = 0
  /\ total_size = 0 /\ max_total_size = 0
  /\ clock = 0 /\ elapsed = <<>> /\ values = <<>>
  /\ cyc_per_tick = 0 /\ secs = 0

Fsecs ==
  \/ SpeedFails
  \/ \E duration \in Durations : TimedRun(duration)
  \/ \E duration \in Durations, ticks \in 0 .. 1 : Sample(duration, ticks)

Next ==
  \/ ReadTrace \/ LibcDone \/ Report
  \/ ValidInit \/ ValidAlloc \/ ValidRealloc \/ ValidFree \/ ValidDone
  \/ UtilInit \/ UtilAlloc \/ UtilFree \/ UtilDone
  \/ EvalLibcValid
  \/ Fsecs

Spec == Init /\ [][Next]_vars
FairSpec == Spec /\ WF_vars(Next)
-----------------------------------------------------------------------------
(* What a judge of allocators must be.                                     *)

TypeOK ==
  /\ pc \in {"main", "mm_init", "eval_mm_valid", "mm_init again", "eval_mm_util",
             "eval_libc_valid", "fsecs", "exit0", "exit1", "abort"}
  /\ mem_brk \in 0 .. MAX_HEAP
  /\ held \subseteq Ids
  /\ blocks \in [Ids -> Addresses \cup {NULL}]
  /\ block_sizes \in [Ids -> Nat]
  /\ opnum \in 1 .. Len(trace) + 1 \/ trace = <<>>
  /\ errors \in Nat
  /\ Len(values) <= kbest

(* An allocator that keeps its promise is never blamed: no error is        *)
(* counted, and the driver does not give up, unless the call at hand broke *)
(* the promise.  Over several traces this needs the ranges of the last one *)
(* to be forgotten, and over a realloc the old range.                      *)
GoodAllocatorIsNotBlamed ==
  [][errors' > errors \/ (pc # "main" /\ pc' = "exit1") => ~ honest']_vars

(* "The payload must not overlap any other payloads" (mdriver.c:403), and  *)
(* be aligned, in the heap, and keep its bytes: while eval_mm_valid goes   *)
(* on, and so when it calls the trace valid, every answer has been right.  *)
BadAllocatorIsCaught == pc = "eval_mm_valid" => honest

(* The utilization is the largest sum of the sizes held at one time, and   *)
(* no more than the heap (mdriver.c:690): at most 100%.                    *)
UtilizationIsRight ==
  pc = "eval_mm_util" =>
    /\ total_size = SumFunctionOnSet(block_sizes, held)
    /\ honest => total_size <= max_total_size /\ max_total_size <= mem_brk

(* What fsecs returns is the shortest run (fcyc) or the sum of the runs    *)
(* (the timers, before the division), wherever the clock's words, seconds  *)
(* and microseconds wrap around.                                           *)
TimeIsRight ==
  [][pc = "fsecs" /\ pc' = "main" =>
       secs' = IF timer = "fcyc" THEN Min(ToSet(elapsed'))
               ELSE FoldLeft(LAMBDA sum, e : sum + e, 0, elapsed')]_vars

(* The driver comes to an end: the sampler stops even if it never          *)
(* converges.                                                              *)
DriverEnds == <>Ended
=============================================================================

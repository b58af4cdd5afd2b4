------------------------------- MODULE Timing -------------------------------
(***************************************************************************)
(* How malloclab measures a function: the cycle counter of clock.c, the    *)
(* K-best sampler of fcyc.c, and the two timers of ftimer.c.  Which of     *)
(* them fsecs uses is decided by config.h when the driver is built.        *)
(*                                                                         *)
(* The clocks are given as what they show at a time t: cycles, or          *)
(* microseconds, since they started.                                       *)
(***************************************************************************)
EXTENDS Integers, Sequences, SequencesExt, FiniteSetsExt

CONSTANTS
  WORD,          (* Values of half the cycle counter (2^32 in the source). *)
  kbest,         (* The smallest samples that are kept.                    *)
  maxsamples,    (* Samples after which the sampler gives up.              *)
  EPSILON,       (* Tolerance of the sampler, in hundredths.               *)
  RECORDTHRESH,  (* Ratios up to this are not taken for a timer interrupt. *)
  USEC,          (* Microseconds of a second.                              *)
  MAX_ETIME      (* Seconds the interval timer counts down from.           *)

ASSUME WordAssumption  == WORD \in Nat \ {0} /\ USEC \in Nat \ {0} /\ MAX_ETIME \in Nat
ASSUME KbestAssumption == kbest \in Nat \ {0} /\ maxsamples \in Nat /\ EPSILON \in Nat

(***************************************************************************)
(* clock.c: a counter of two words, read as two words and subtracted word  *)
(* by word in unsigned arithmetic.                                         *)
(***************************************************************************)
access_counter(t) == [hi |-> (t \div WORD) % WORD, lo |-> t % WORD]

(* Mutant of get_counter: the low word takes nothing from the high one.    *)
noborrow(cyc, ncyc) ==
  ((ncyc.hi - cyc.hi) % WORD) * WORD + ((ncyc.lo - cyc.lo) % WORD)

get_counter(cyc, ncyc) ==
  LET lo     == (ncyc.lo - cyc.lo) % WORD
      borrow == IF lo > ncyc.lo THEN 1 ELSE 0
      hi     == (ncyc.hi - cyc.hi - borrow) % WORD
  IN  (hi * WORD) + lo

(* callibrate: the least of the events' cycles per tick that are more than *)
(* noise, 0 (which means to calibrate again next time) when none is.       *)
callibrate(events) ==
  LET ratios == {e.cycles \div e.ticks : e \in events}
      ticks  == {cpt \in ratios : cpt > RECORDTHRESH}
  IN  IF ticks = {} THEN 0 ELSE Min(ticks)

get_comp_counter(cyc, ncyc, ticks, cyc_per_tick) ==
  get_counter(cyc, ncyc) - ticks * cyc_per_tick

(***************************************************************************)
(* fcyc.c.  A new value sinks past the larger ones before it (insertion    *)
(* sort); once kbest values are kept it takes the place of the largest.    *)
(***************************************************************************)
insert(values, val) ==
  InsertAt(values, 1 + Max({0} \cup {j \in DOMAIN values : values[j] <= val}), val)

add_sample(values, val) ==
  IF Len(values) < kbest THEN insert(values, val)
  ELSE IF val < values[kbest] THEN insert(SubSeq(values, 1, kbest - 1), val)
  ELSE values

has_converged(values) ==
  /\ Len(values) >= kbest
  /\ (100 + EPSILON) * values[1] >= 100 * values[kbest]

(***************************************************************************)
(* ftimer.c.  gettimeofday gives seconds and microseconds; the interval    *)
(* timer gives what is left of MAX_ETIME.                                  *)
(***************************************************************************)
timeval(t) == [tv_sec |-> t \div USEC, tv_usec |-> t % USEC]

difference(from, to) == USEC * (to.tv_sec - from.tv_sec) + (to.tv_usec - from.tv_usec)

get_etime(t) == difference(timeval(USEC * MAX_ETIME - t), timeval(USEC * MAX_ETIME))
=============================================================================

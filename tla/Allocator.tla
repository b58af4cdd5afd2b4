------------------------------ MODULE Allocator -----------------------------
(***************************************************************************)
(* What a program may expect of malloc, free and realloc: every payload it *)
(* holds is aligned, lies in the heap and overlaps no other, and keeps its *)
(* place until the program itself frees or resizes it.  The heap grows but *)
(* never shrinks (memlib.c:56).  Where payloads go is left open.           *)
(*                                                                         *)
(* Heap implements this module; Driver judges allocators by it.            *)
(***************************************************************************)
EXTENDS Integers

CONSTANTS
  ALIGNMENT,  (* of payloads, in bytes (config.h:58)                       *)
  MAX_HEAP    (* the most the heap may grow to (config.h:63)               *)

VARIABLES
  live,  (* the payloads the program holds: where they are and their sizes *)
  brk    (* the end of the heap, which begins at 0                         *)

vars == <<live, brk>>

Apart(p, q) == p.ptr + p.size <= q.ptr \/ q.ptr + q.size <= p.ptr

(* A payload that may be given out beside the others in a heap that ends   *)
(* at top.                                                                 *)
Fits(p, others, top) ==
  /\ p.ptr % ALIGNMENT = 0
  /\ 0 <= p.ptr /\ p.ptr + p.size <= top
  /\ \A q \in others : Apart(p, q)

Grows == brk <= brk' /\ brk' <= MAX_HEAP

Gives(others) ==
  \E p \in live' : /\ live' = others \cup {p}
                   /\ p \notin others
                   /\ Fits(p, others, brk')

malloc == Gives(live) /\ Grows

free == \E p \in live : live' = live \ {p} /\ brk' = brk

realloc == \E p \in live : Gives(live \ {p}) /\ Grows

(* The simulated memory is reset and the allocator initialized again.      *)
init == live' = {} /\ brk' \in 0 .. MAX_HEAP

Init == live = {} /\ brk \in 0 .. MAX_HEAP
Next == malloc \/ free \/ realloc \/ init
Spec == Init /\ [][Next]_vars
=============================================================================

----------------------------- MODULE HeapProofs -----------------------------
(***************************************************************************)
(* The blocks of the allocator stay laid end to end, told of their         *)
(* neighbours, in the tree when they are free and held when they are not,  *)
(* for any requests, any length of the heap and any number of payloads.    *)
(*                                                                         *)
(* Every operation recuts a region of the heap: the blocks between lo and  *)
(* hi become one block, or two that meet at mid, and nothing else changes  *)
(* but what the block at hi is told.                                       *)
(***************************************************************************)
EXTENDS Heap, FiniteSetTheorems, BasicFacts, TLAPS

Blocks(h) == IsHeap(h) /\ WellFormed(h) /\ EndToEnd(h) /\ Told(h)
Free(h)   == {b \in Starts(h) : IsFree(h, b)}

(* What the block at lo is told, if lo is the end of the heap the block    *)
(* that will be there.                                                     *)
ToldAt(h, lo) == IF lo \in Starts(h) THEN h.block[lo].previous_is_free ELSE h.last_is_free

Region(h, lo, mid, hi) ==
  /\ lo \in Starts(h) \cup {h.brk}
  /\ mid \in Nat /\ mid % 4 = 0 /\ lo + MINIMAL_BLOCK_SIZE < mid
  /\ hi \in Nat  /\ hi % 4 = 0  /\ (hi = mid \/ mid + MINIMAL_BLOCK_SIZE < hi)
  /\ hi \in Starts(h) \/ hi >= h.brk

Recut(h, g, lo, mid, hi, f, f2) ==
  /\ IsHeap(g)
  /\ Starts(g) = {c \in Starts(h) : c < lo \/ c >= hi} \cup {lo} \cup ({mid} \ {hi})
  /\ \A c \in Starts(h) : c < lo \/ c > hi => g.block[c] = h.block[c]
  /\ hi \in Starts(h) => g.block[hi] = [length |-> Length(h, hi), is_free |-> IsFree(h, hi),
                                         previous_is_free |-> f2, type |-> h.block[hi].type]
  /\ g.block[lo] = [length |-> mid - lo, is_free |-> f, previous_is_free |-> ToldAt(h, lo),
                    type |-> get_block_type(lo)]
  /\ mid # hi => g.block[mid] = [length |-> hi - mid, is_free |-> f2,
                                 previous_is_free |-> f, type |-> get_block_type(mid)]
  /\ g.brk = IF hi > h.brk THEN hi ELSE h.brk
  /\ g.last_is_free = IF hi >= h.brk THEN f2 ELSE h.last_is_free

USE DEF HEAP_HEADER_SIZE, MINIMAL_BLOCK_SIZE

-----------------------------------------------------------------------------
(* Arithmetic of addresses.                                                *)

LEMMA TypeBit == ASSUME NEW b \in Nat PROVE get_block_type(b) \in {0, 1}
BY DEF get_block_type

LEMMA PayloadOf ==
  ASSUME NEW b \in Nat, b % 4 = 0
  PROVE  /\ get_block_payload(b) \in Nat
         /\ get_block_payload(b) % 8 = 0
         /\ get_block_payload(b) = IF get_block_type(b) = 0 THEN b + 8 ELSE b + 12
         /\ b + 8 <= get_block_payload(b) /\ get_block_payload(b) <= b + 12
BY DEF get_block_payload, get_block_type

LEMMA BlockLength ==
  ASSUME NEW size \in Nat, size > 4
  PROVE  LET length == block_length_from_payload_size(size)
         IN  /\ length \in Nat /\ length % 4 = 0 /\ length > MINIMAL_BLOCK_SIZE
             /\ size <= payload_size_from_block_length(length)
             /\ length <= size + 15
BY DEF block_length_from_payload_size, payload_size_from_block_length, MINIMAL_BLOCK_SIZE

-----------------------------------------------------------------------------
(* What recutting a region keeps.                                          *)

Placed(h, lo, mid, hi) ==
  /\ lo \in Nat /\ lo % 4 = 0 /\ lo >= HEAP_HEADER_SIZE /\ lo <= h.brk
  /\ mid \in Nat /\ hi \in Nat /\ lo + MINIMAL_BLOCK_SIZE < mid
  /\ mid = hi \/ mid + MINIMAL_BLOCK_SIZE < hi
  /\ h.brk \in Nat /\ h.brk % 4 = 0
  /\ \A c \in Starts(h) : /\ c \in Nat /\ c >= HEAP_HEADER_SIZE /\ c < h.brk
                          /\ Length(h, c) \in Nat /\ Length(h, c) > MINIMAL_BLOCK_SIZE
                          /\ End(h, c) \in Nat /\ c < End(h, c)
                          /\ c < lo => End(h, c) <= lo
                          /\ c < hi => End(h, c) <= hi

LEMMA RegionPlaced ==
  ASSUME NEW h, NEW lo, NEW mid, NEW hi, Blocks(h), Region(h, lo, mid, hi)
  PROVE  Placed(h, lo, mid, hi)
<1>1. \A c \in Starts(h) : /\ c \in Nat /\ c >= HEAP_HEADER_SIZE /\ c % 4 = 0
                           /\ Length(h, c) \in Nat /\ Length(h, c) > MINIMAL_BLOCK_SIZE
                           /\ Length(h, c) % 4 = 0
  BY DEF Blocks, IsHeap, WellFormed, header_t, Length
<1>2. \A c \in Starts(h) : /\ End(h, c) \in Nat /\ End(h, c) % 4 = 0
                           /\ c < End(h, c) /\ End(h, c) <= h.brk
  <2> TAKE c \in Starts(h)
  <2>1. End(h, c) \in Nat /\ End(h, c) % 4 = 0 /\ c < End(h, c)
    BY <1>1 DEF End
  <2> QED BY <2>1 DEF Blocks, EndToEnd
<1>3. h.brk \in Nat /\ h.brk % 4 = 0 /\ h.brk >= HEAP_HEADER_SIZE
  <2>1. PICK b \in Starts(h) : End(h, b) = h.brk
    BY DEF Blocks, EndToEnd
  <2> QED BY <1>1, <1>2, <2>1 DEF HEAP_HEADER_SIZE
<1>4. \A c \in Starts(h) : c < h.brk
  BY <1>1, <1>2, <1>3
<1>5. lo \in Nat /\ lo % 4 = 0 /\ lo >= HEAP_HEADER_SIZE /\ lo <= h.brk
  BY <1>1, <1>3, <1>4 DEF Region
<1>6. ASSUME NEW c \in Starts(h), c < lo PROVE End(h, c) <= lo
  BY <1>2, <1>6 DEF Region, Blocks, EndToEnd
<1>7. ASSUME NEW c \in Starts(h), c < hi PROVE End(h, c) <= hi
  BY <1>2, <1>3, <1>7 DEF Region, Blocks, EndToEnd
<1> QED BY <1>1, <1>2, <1>3, <1>4, <1>5, <1>6, <1>7 DEF Placed, Region, MINIMAL_BLOCK_SIZE

LEMMA RecutEndToEnd ==
  ASSUME NEW h, NEW g, NEW lo, NEW mid, NEW hi, NEW f \in BOOLEAN, NEW f2 \in BOOLEAN,
         Blocks(h), Region(h, lo, mid, hi), Recut(h, g, lo, mid, hi, f, f2)
  PROVE  WellFormed(g) /\ EndToEnd(g)
<1>0. Placed(h, lo, mid, hi) BY RegionPlaced
<1> USE <1>0 DEF Placed
<1> DEFINE S == Starts(h)
           T == Starts(g)
<1>1. \A c \in T : \/ c \in S /\ (c < lo \/ c > hi)
                   \/ c \in S /\ c = hi
                   \/ c = lo
                   \/ c = mid /\ mid # hi
  <2>1. T = {c \in S : c < lo \/ c >= hi} \cup {lo} \cup ({mid} \ {hi})
    BY DEF Recut
  <2> QED BY <2>1
<1>2. /\ \A c \in S : c < lo \/ c >= hi => c \in T /\ Length(g, c) = Length(h, c)
      /\ lo \in T /\ Length(g, lo) = mid - lo
      /\ mid # hi => mid \in T /\ Length(g, mid) = hi - mid
  <2>1. T = {c \in S : c < lo \/ c >= hi} \cup {lo} \cup ({mid} \ {hi})
    BY DEF Recut
  <2>2. \A c \in S : c < lo \/ c > hi => g.block[c] = h.block[c]
    BY DEF Recut
  <2>3. hi \in S => Length(g, hi) = Length(h, hi)
    BY DEF Recut, Length
  <2>4. Length(g, lo) = mid - lo /\ (mid # hi => Length(g, mid) = hi - mid)
    BY DEF Recut, Length
  <2> QED BY <2>1, <2>2, <2>3, <2>4 DEF Length
<1>3. /\ \A c \in S : c < lo \/ c >= hi => End(g, c) = End(h, c)
      /\ End(g, lo) = mid
      /\ mid # hi => End(g, mid) = hi
  BY <1>2 DEF End, Region
<1>4. ASSUME NEW c \in T
      PROVE  /\ c % 4 = 0 /\ Length(g, c) % 4 = 0
             /\ c >= HEAP_HEADER_SIZE /\ Length(g, c) > MINIMAL_BLOCK_SIZE
             /\ g.block[c].type = get_block_type(c)
  <2>1. CASE c \in S /\ (c < lo \/ c > hi)
    <3>1. g.block[c] = h.block[c]
      BY <2>1 DEF Recut
    <3> QED BY <2>1, <3>1 DEF Length, Blocks, WellFormed
  <2>2. CASE c \in S /\ c = hi
    <3>1. g.block[hi].type = h.block[hi].type
      BY <2>2 DEF Recut, Blocks, IsHeap, header_t
    <3> QED BY <1>2, <2>2, <3>1 DEF Blocks, WellFormed, Region, MINIMAL_BLOCK_SIZE
  <2>3. CASE c = lo
    BY <1>2, <2>3 DEF Recut, Region, MINIMAL_BLOCK_SIZE
  <2>4. CASE c = mid /\ mid # hi
    BY <1>2, <2>4 DEF Recut, Region, MINIMAL_BLOCK_SIZE, HEAP_HEADER_SIZE
  <2> QED BY <1>1, <2>1, <2>2, <2>3, <2>4
<1>5. HEAP_HEADER_SIZE \in T
  BY <1>2 DEF Blocks, EndToEnd
<1>6. /\ g.brk \in Nat /\ h.brk <= g.brk /\ hi <= g.brk /\ (g.brk = h.brk \/ g.brk = hi)
      /\ hi <= h.brk => g.brk = h.brk
  BY DEF Recut, Region
<1>7. hi \in T \cup {g.brk}
  BY <1>2, <1>6 DEF Recut, Region
<1>8. ASSUME NEW c \in T PROVE End(g, c) \in T \cup {g.brk} /\ End(g, c) <= g.brk
  <2>1. CASE c \in S /\ c < lo
    <3>1. End(h, c) = lo \/ (End(h, c) \in S /\ End(h, c) < lo)
      BY <2>1 DEF Blocks, EndToEnd
    <3> QED BY <1>2, <1>3, <1>6, <2>1, <3>1
  <2>2. CASE c \in S /\ c >= hi
    <3>1. End(h, c) \in S \cup {h.brk} /\ End(h, c) > hi /\ g.brk = h.brk
      BY <1>6, <2>2 DEF Blocks, EndToEnd
    <3> QED BY <1>2, <1>3, <2>2, <3>1
  <2>3. CASE c = lo
    BY <1>2, <1>3, <1>6, <1>7, <2>3 DEF Region
  <2>4. CASE c = mid /\ mid # hi
    BY <1>3, <1>6, <1>7, <2>4
  <2> QED BY <1>1, <2>1, <2>2, <2>3, <2>4
<1>9. ASSUME NEW b \in T, NEW c \in T, b < c PROVE End(g, b) <= c
  <2>1. b \in Nat /\ c \in Nat /\ lo < mid /\ mid <= hi /\ hi \in Nat /\ mid \in Nat
    BY <1>1 DEF Region, MINIMAL_BLOCK_SIZE
  <2>2. CASE b \in S /\ c \in S /\ (b < lo \/ b >= hi)
    BY <1>3, <1>9, <2>2 DEF Blocks, EndToEnd
  <2>3. CASE b \in S /\ b < lo /\ (c = lo \/ c = mid)
    BY <1>3, <2>1, <2>3
  <2>4. CASE b = lo
    <3>1. c >= mid
      BY <1>1, <1>9, <2>1, <2>4
    <3> QED BY <1>3, <2>4, <3>1
  <2>5. CASE b = mid /\ mid # hi
    <3>1. c >= hi
      BY <1>1, <1>9, <2>1, <2>5
    <3> QED BY <1>3, <2>5, <3>1
  <2> QED BY <1>1, <1>9, <2>1, <2>2, <2>3, <2>4, <2>5
<1>10. ASSUME NEW c \in (T \ {HEAP_HEADER_SIZE}) \cup {g.brk}
       PROVE  \E b \in T : End(g, b) = c
  <2>1. CASE c = hi
    BY <1>2, <1>3, <2>1 DEF Region
  <2>2. CASE c = mid
    BY <1>2, <1>3, <2>2
  <2>3. CASE c # HEAP_HEADER_SIZE /\ (c \in S \/ c = h.brk) /\ c <= lo
    <3>1. PICK b \in S : End(h, b) = c
      BY <2>3 DEF Blocks, EndToEnd
    <3>2. b < c
      BY <3>1 DEF End, MINIMAL_BLOCK_SIZE
    <3> QED BY <1>2, <1>3, <2>3, <3>1, <3>2
  <2>4. CASE (c \in S \/ c = h.brk) /\ c > hi
    <3>1. PICK b \in S : End(h, b) = c
      BY <2>4 DEF Blocks, EndToEnd, Region, HEAP_HEADER_SIZE
    <3>2. b >= hi
      BY <2>4, <3>1, b \in Nat, hi \in Nat, b < hi => End(h, b) <= hi DEF Region
    <3> QED BY <1>2, <1>3, <3>1, <3>2
  <2>5. c \in S \/ c = h.brk \/ c = hi \/ c = lo \/ c = mid
    BY <1>1, <1>6
  <2>6. c \in S \/ c = h.brk => c <= lo \/ c = hi \/ c > hi \/ c = mid
    BY <1>1, <1>6 DEF Region
  <2> QED BY <1>6, <2>1, <2>2, <2>3, <2>4, <2>5, <2>6 DEF Region, HEAP_HEADER_SIZE
<1> QED BY <1>4, <1>5, <1>8, <1>9, <1>10 DEF WellFormed, EndToEnd

LEMMA RecutTold ==
  ASSUME NEW h, NEW g, NEW lo, NEW mid, NEW hi, NEW f \in BOOLEAN, NEW f2 \in BOOLEAN,
         Blocks(h), Region(h, lo, mid, hi), Recut(h, g, lo, mid, hi, f, f2),
         mid = hi => f2 = f
  PROVE  Told(g)
<1>0. Placed(h, lo, mid, hi) BY RegionPlaced
<1> USE <1>0 DEF Placed
<1> DEFINE S == Starts(h)
           T == Starts(g)
<1>1. T = {c \in S : c < lo \/ c >= hi} \cup {lo} \cup ({mid} \ {hi})
  BY DEF Recut
<1>2. \A c \in S : c < lo \/ c > hi => g.block[c] = h.block[c]
  BY DEF Recut
<1>3. hi \in S => /\ Length(g, hi) = Length(h, hi) /\ IsFree(g, hi) = IsFree(h, hi)
                  /\ g.block[hi].previous_is_free = f2
  BY DEF Recut, Length, IsFree
<1>4. /\ Length(g, lo) = mid - lo /\ IsFree(g, lo) = f
      /\ g.block[lo].previous_is_free = ToldAt(h, lo)
  BY DEF Recut, Length, IsFree
<1>5. mid # hi => /\ Length(g, mid) = hi - mid /\ IsFree(g, mid) = f2
                  /\ g.block[mid].previous_is_free = f
  BY DEF Recut, Length, IsFree
<1>6. /\ g.brk = IF hi > h.brk THEN hi ELSE h.brk
      /\ g.last_is_free = IF hi >= h.brk THEN f2 ELSE h.last_is_free
  BY DEF Recut
<1>7. ~ g.block[HEAP_HEADER_SIZE].previous_is_free
  <2>1. HEAP_HEADER_SIZE \in S /\ ~ h.block[HEAP_HEADER_SIZE].previous_is_free
    BY DEF Blocks, EndToEnd, Told
  <2>2. CASE HEAP_HEADER_SIZE < lo
    BY <1>2, <2>1, <2>2
  <2>3. CASE HEAP_HEADER_SIZE = lo
    BY <1>4, <2>1, <2>3 DEF ToldAt
  <2> QED BY <2>2, <2>3
<1> DEFINE Tells(k, b) == IF End(k, b) = k.brk THEN k.last_is_free
                          ELSE k.block[End(k, b)].previous_is_free
<1>8. \A b \in S : IsFree(h, b) = Tells(h, b)
  BY DEF Blocks, Told
<1>9. \A b \in S : End(h, b) \in S \cup {h.brk}
  BY DEF Blocks, EndToEnd
<1>10. lo \in S \cup {h.brk} /\ (hi \in S \/ hi >= h.brk)
  BY DEF Region
<1>11. (hi = g.brk => g.last_is_free = f2) /\ (hi # g.brk => g.block[hi].previous_is_free = f2)
  BY <1>3, <1>6, <1>10
<1>12. ASSUME NEW b \in T PROVE IsFree(g, b) = Tells(g, b)
  <2>1. CASE b \in S /\ b < lo
    <3>1. IsFree(g, b) = IsFree(h, b) /\ End(g, b) = End(h, b)
      BY <1>2, <2>1 DEF IsFree, End, Length
    <3>2. CASE End(h, b) = lo
      <4>1. ToldAt(h, lo) = Tells(h, b)
        BY <1>10, <3>2 DEF ToldAt
      <4>2. Tells(g, b) = g.block[lo].previous_is_free
        BY <1>6, <3>1, <3>2
      <4> QED BY <1>4, <1>8, <2>1, <3>1, <4>1, <4>2
    <3>3. CASE End(h, b) < lo
      <4>1. End(h, b) \in S /\ End(h, b) # h.brk
        BY <1>9, <2>1, <3>3
      <4>2. g.block[End(h, b)] = h.block[End(h, b)] /\ End(h, b) # g.brk
        BY <1>2, <1>6, <3>3, <4>1
      <4> QED BY <1>8, <2>1, <3>1, <4>1, <4>2
    <3> QED BY <2>1, <3>2, <3>3
  <2>2. CASE b \in S /\ b >= hi
    <3>1. IsFree(g, b) = IsFree(h, b) /\ Length(g, b) = Length(h, b)
      BY <1>2, <1>3, <2>2 DEF IsFree, Length
    <3>2. End(g, b) = End(h, b) /\ End(h, b) > hi /\ g.brk = h.brk
          /\ g.last_is_free = h.last_is_free
      BY <1>6, <2>2, <3>1 DEF End
    <3>3. End(h, b) \in S => g.block[End(h, b)] = h.block[End(h, b)]
      BY <1>2, <3>2
    <3> QED BY <1>8, <1>9, <2>2, <3>1, <3>2, <3>3
  <2>3. CASE b = lo
    <3>1. End(g, b) = mid
      BY <1>4, <2>3 DEF End
    <3>2. CASE mid = hi
      BY <1>4, <1>11, <2>3, <3>1, <3>2
    <3>3. CASE mid # hi
      <4>1. mid # g.brk
        BY <1>6, <3>3
      <4> QED BY <1>4, <1>5, <2>3, <3>1, <3>3, <4>1
    <3> QED BY <3>2, <3>3
  <2>4. CASE b = mid /\ mid # hi
    <3>1. End(g, b) = hi
      BY <1>5, <2>4 DEF End
    <3> QED BY <1>5, <1>11, <2>4, <3>1
  <2> QED BY <1>1, <2>1, <2>2, <2>3, <2>4
<1> QED BY <1>7, <1>12 DEF Told

LEMMA RecutBlocks ==
  ASSUME NEW h, NEW g, NEW lo, NEW mid, NEW hi, NEW f \in BOOLEAN, NEW f2 \in BOOLEAN,
         Blocks(h), Region(h, lo, mid, hi), Recut(h, g, lo, mid, hi, f, f2),
         mid = hi => f2 = f
  PROVE  Blocks(g)
BY RecutEndToEnd, RecutTold DEF Blocks, Recut

LEMMA RecutFree ==
  ASSUME NEW h, NEW g, NEW lo, NEW mid, NEW hi, NEW f \in BOOLEAN, NEW f2 \in BOOLEAN,
         Blocks(h), Region(h, lo, mid, hi), Recut(h, g, lo, mid, hi, f, f2)
  PROVE  Free(g) = {c \in Free(h) : c < lo \/ c >= hi}
                   \cup (IF f THEN {lo} ELSE {}) \cup (IF mid # hi /\ f2 THEN {mid} ELSE {})
<1>0. Placed(h, lo, mid, hi) BY RegionPlaced
<1> USE <1>0 DEF Placed
<1>1. Starts(g) = {c \in Starts(h) : c < lo \/ c >= hi} \cup {lo} \cup ({mid} \ {hi})
  BY DEF Recut
<1>2. \A c \in Starts(h) : c < lo \/ c >= hi => IsFree(g, c) = IsFree(h, c)
  <2>1. \A c \in Starts(h) : c < lo \/ c > hi => g.block[c] = h.block[c]
    BY DEF Recut
  <2>2. hi \in Starts(h) => IsFree(g, hi) = IsFree(h, hi)
    BY DEF Recut, IsFree
  <2> QED BY <2>1, <2>2 DEF IsFree
<1>3. IsFree(g, lo) = f /\ (mid # hi => IsFree(g, mid) = f2)
  BY DEF Recut, IsFree
<1> QED BY <1>1, <1>2, <1>3 DEF Free

(* The free blocks of `g' are those of `h' outside lo..hi, and `lo'.       *)
FreedIs(h, g, lo, hi) ==
  Free(g) = {c \in Free(h) : c < lo \/ c >= hi} \cup {lo}

LEMMA RecutFreed ==
  ASSUME NEW h, NEW g, NEW lo, NEW hi,
         Blocks(h), Region(h, lo, hi, hi), Recut(h, g, lo, hi, hi, TRUE, TRUE)
  PROVE  FreedIs(h, g, lo, hi)
<1>1. \A f \in BOOLEAN : Recut(h, g, lo, hi, hi, f, f) =>
         Free(g) = {c \in Free(h) : c < lo \/ c >= hi}
                   \cup (IF f THEN {lo} ELSE {}) \cup (IF hi # hi /\ f THEN {hi} ELSE {})
  BY RecutFree
<1>2. Free(g) = {c \in Free(h) : c < lo \/ c >= hi}
                \cup (IF TRUE THEN {lo} ELSE {}) \cup (IF hi # hi /\ TRUE THEN {hi} ELSE {})
  BY <1>1, Zenon
<1> QED BY <1>2 DEF FreedIs

-----------------------------------------------------------------------------
(* Payloads and their blocks.                                              *)

LEMMA PayloadsInOrder ==
  ASSUME NEW h, Blocks(h), NEW b \in Starts(h), NEW c \in Starts(h), b < c
  PROVE  get_block_payload(b) < get_block_payload(c)
<1>1. \A d \in Starts(h) : /\ d \in Nat /\ d % 4 = 0
                           /\ Length(h, d) \in Nat /\ Length(h, d) > MINIMAL_BLOCK_SIZE
  BY DEF Blocks, IsHeap, WellFormed, header_t, Length
<1>2. End(h, b) <= c
  BY DEF Blocks, EndToEnd
<1>3. b + MINIMAL_BLOCK_SIZE < c
  BY <1>1, <1>2 DEF End
<1>4. /\ get_block_payload(b) <= b + 12 /\ get_block_payload(c) >= c + 8
      /\ get_block_payload(b) \in Nat /\ get_block_payload(c) \in Nat
  BY <1>1, PayloadOf
<1> QED BY <1>1, <1>3, <1>4

LEMMA PayloadsApart ==
  ASSUME NEW h, Blocks(h), NEW b \in Starts(h), NEW c \in Starts(h),
         get_block_payload(b) = get_block_payload(c)
  PROVE  b = c
<1>1. b \in Nat /\ b % 4 = 0 /\ c \in Nat /\ c % 4 = 0
  BY DEF Blocks, IsHeap, WellFormed
<1>2. get_block_payload(b) \in Nat
  BY <1>1, PayloadOf
<1>3. ~ b < c /\ ~ c < b
  BY <1>2, PayloadsInOrder
<1> QED BY <1>1, <1>3

(* The block of a payload, as the code finds it.                           *)
LEMMA BlockOf ==
  ASSUME NEW h, NEW l, Blocks(h), Held(h, l), NEW p \in l
  PROVE  /\ get_payload_block(h, p.ptr) \in Starts(h)
         /\ \A b \in Starts(h) : Owns(h, p, b) <=> b = get_payload_block(h, p.ptr)
<1>1. PICK b \in Starts(h) : Owns(h, p, b)
  BY DEF Held
<1>2. p.ptr = get_block_payload(b)
  BY <1>1 DEF Owns
<1>3. \A c \in Starts(h) : get_block_payload(c) = p.ptr => c = b
  BY <1>2, PayloadsApart
<1>4. b = CHOOSE c \in Starts(h) : get_block_payload(c) = p.ptr
  BY <1>2, <1>3
<1>5. b \in Nat /\ b % 4 = 0 /\ h.block[b].type = get_block_type(b)
  BY DEF Blocks, WellFormed, IsHeap
<1>6. p.ptr = (IF h.block[b].type = 0 THEN b + 8 ELSE b + 12)
  BY <1>2, <1>5, PayloadOf
<1>7. get_payload_block(h, p.ptr) = b
  <2>1. (IF h.block[b].type = 0 THEN p.ptr - 8 ELSE p.ptr - 12) = b
    BY <1>5, <1>6
  <2> QED BY <1>4, <2>1 DEF get_payload_block
<1> QED BY <1>1, <1>3, <1>7 DEF Owns

(* Payloads held at once are aligned, within the heap and apart.           *)
LEMMA HeldFits ==
  ASSUME NEW h, NEW l, Blocks(h), Held(h, l), NEW p \in l
  PROVE  Alloc!Fits(p, l \ {p}, h.brk)
<1>1. \A d \in Starts(h) : /\ d \in Nat /\ d % 4 = 0 /\ Length(h, d) \in Nat
                           /\ Length(h, d) > MINIMAL_BLOCK_SIZE /\ End(h, d) <= h.brk
  BY DEF Blocks, IsHeap, WellFormed, EndToEnd, header_t, Length
<1>2. h.brk \in Nat
  BY DEF Blocks, IsHeap
<1>3. \A q \in l : q.ptr \in Nat /\ q.size \in Nat
  BY RequestsAssumption DEF Held
<1>4. \A q \in l : \E b \in Starts(h) : Owns(h, q, b)
  BY DEF Held
<1>5. ASSUME NEW q \in l, NEW b \in Starts(h), Owns(h, q, b)
      PROVE  /\ q.ptr % 8 = 0 /\ b + 8 <= q.ptr /\ q.ptr + q.size <= End(h, b)
             /\ q.ptr = get_block_payload(b)
  <2>1. q.ptr % 8 = 0 /\ b + 8 <= q.ptr /\ q.ptr <= b + 12
    BY <1>1, <1>5, PayloadOf DEF Owns
  <2>2. q.size <= Length(h, b) - 12
    BY <1>5 DEF Owns, payload_size_from_block_length
  <2> QED BY <1>1, <1>3, <1>5, <2>1, <2>2 DEF Owns, End
<1>6. PICK b \in Starts(h) : Owns(h, p, b)
  BY <1>4
<1>7. ASSUME NEW q \in l \ {p} PROVE Alloc!Apart(p, q)
  <2>1. PICK c \in Starts(h) : Owns(h, q, c)
    BY <1>4, <1>7
  <2>2. b # c
    <3>1. p.ptr # q.ptr
      BY <1>7 DEF Held
    <3> QED BY <1>5, <1>6, <1>7, <2>1, <3>1
  <2>3. End(h, b) <= c \/ End(h, c) <= b
    BY <1>1, <2>2 DEF Blocks, EndToEnd
  <2>4. /\ b + 8 <= p.ptr /\ p.ptr + p.size <= End(h, b)
        /\ c + 8 <= q.ptr /\ q.ptr + q.size <= End(h, c)
    BY <1>5, <1>6, <1>7, <2>1
  <2>5. End(h, b) \in Nat /\ End(h, c) \in Nat
    BY <1>1 DEF End
  <2> QED BY <1>1, <1>3, <1>7, <2>3, <2>4, <2>5 DEF Alloc!Apart
<1>8. p.ptr % 8 = 0 /\ 0 <= p.ptr /\ p.ptr + p.size <= h.brk
  <2>1. p.ptr % 8 = 0 /\ p.ptr + p.size <= End(h, b) /\ End(h, b) <= h.brk
    BY <1>1, <1>5, <1>6
  <2>2. End(h, b) \in Nat
    BY <1>1 DEF End
  <2> QED BY <1>2, <1>3, <2>1, <2>2
<1> QED BY <1>7, <1>8 DEF Alloc!Fits

(* After a region is recut, the payloads whose block was in it are gone    *)
(* and the blocks made of it belong to new ones.                           *)
Gone(h, l, lo, hi, gone) ==
  \A p \in l, b \in Starts(h) : Owns(h, p, b) => (p \in gone <=> lo <= b /\ b < hi)

New(g, lo, mid, hi, new) ==
  /\ new \in SUBSET [ptr : Nat, size : Requests] /\ IsFiniteSet(new)
  /\ \A p \in new : \E b \in {lo} \cup ({mid} \ {hi}) : Owns(g, p, b)
  /\ \A b \in {lo} \cup ({mid} \ {hi}) : ~ IsFree(g, b) => \E p \in new : Owns(g, p, b)
  /\ \A p, q \in new : p.ptr = q.ptr => p = q

LEMMA RecutHeld ==
  ASSUME NEW h, NEW g, NEW lo, NEW mid, NEW hi, NEW f \in BOOLEAN, NEW f2 \in BOOLEAN,
         Blocks(h), Region(h, lo, mid, hi), Recut(h, g, lo, mid, hi, f, f2),
         mid = hi => f2 = f,
         NEW l, Held(h, l), NEW gone, Gone(h, l, lo, hi, gone),
         NEW new, New(g, lo, mid, hi, new)
  PROVE  Held(g, (l \ gone) \cup new) /\ \A p \in new : p \notin l \ gone
<1>0. Placed(h, lo, mid, hi) /\ Blocks(g)
  BY RegionPlaced, RecutBlocks
<1> USE DEF Gone, New
<1> DEFINE S == Starts(h)
           N == {lo} \cup ({mid} \ {hi})
<1>1. Starts(g) = {c \in S : c < lo \/ c >= hi} \cup N
  BY DEF Recut
<1>2. \A p : \A c \in S : c < lo \/ c >= hi => (Owns(g, p, c) <=> Owns(h, p, c))
  <2>1. \A c \in S : c < lo \/ c > hi => g.block[c] = h.block[c]
    BY DEF Recut
  <2>2. hi \in S => IsFree(g, hi) = IsFree(h, hi) /\ Length(g, hi) = Length(h, hi)
    BY DEF Recut, IsFree, Length
  <2>3. \A c \in S : c < lo \/ c >= hi =>
          IsFree(g, c) = IsFree(h, c) /\ Length(g, c) = Length(h, c)
    BY <1>0, <2>1, <2>2 DEF IsFree, Length, Placed
  <2> QED BY <2>3 DEF Owns
<1>3. \A c \in S : c \in Nat
  BY <1>0 DEF Placed
<1>4. \A c \in S : (c < lo \/ c >= hi) => c \notin N
  BY <1>0, <1>3 DEF Placed
<1>5. lo \in Nat /\ hi \in Nat
  BY <1>0 DEF Placed
<1>6. ASSUME NEW p \in l \ gone
      PROVE  \E b \in S : (b < lo \/ b >= hi) /\ Owns(g, p, b)
  <2>1. PICK b \in S : Owns(h, p, b)
    BY <1>6 DEF Held
  <2> QED BY <1>2, <1>3, <1>5, <1>6, <2>1
<1>7. ASSUME NEW p \in l \ gone, NEW q \in new PROVE p.ptr # q.ptr
  <2>1. PICK b \in S : (b < lo \/ b >= hi) /\ Owns(g, p, b)
    BY <1>6, <1>7
  <2>2. PICK c \in N : Owns(g, q, c)
    BY <1>7
  <2>3. b \in Starts(g) /\ c \in Starts(g) /\ b # c
    BY <1>1, <1>4, <2>1, <2>2
  <2> QED BY <1>0, <2>1, <2>2, <2>3, PayloadsApart DEF Owns
<1>8. IsFiniteSet((l \ gone) \cup new) /\ (l \ gone) \cup new \subseteq [ptr : Nat, size : Requests]
  <2>1. IsFiniteSet(l \ gone)
    BY FS_Difference DEF Held
  <2>2. IsFiniteSet((l \ gone) \cup new)
    BY <2>1, FS_Union
  <2> QED BY <2>2 DEF Held
<1>9. \A p \in (l \ gone) \cup new : \E b \in Starts(g) : Owns(g, p, b)
  BY <1>1, <1>6
<1>10. ASSUME NEW b \in Starts(g), ~ IsFree(g, b)
       PROVE  \E p \in (l \ gone) \cup new : Owns(g, p, b)
  <2>1. CASE b \in N
    BY <1>10, <2>1
  <2>2. CASE b \in S /\ (b < lo \/ b >= hi)
    <3>1. ~ IsFree(h, b)
      <4>1. CASE b = hi
        BY <1>10, <2>2, <4>1 DEF Recut, IsFree
      <4>2. CASE b # hi
        BY <1>3, <1>5, <1>10, <2>2, <4>2 DEF Recut, IsFree
      <4> QED BY <4>1, <4>2
    <3>2. PICK p \in l : Owns(h, p, b)
      BY <2>2, <3>1 DEF Held
    <3>3. p \notin gone
      BY <1>3, <1>5, <2>2, <3>2
    <3> QED BY <1>2, <2>2, <3>2, <3>3
  <2> QED BY <1>1, <2>1, <2>2
<1>11. \A p, q \in (l \ gone) \cup new : p.ptr = q.ptr => p = q
  BY <1>7 DEF Held
<1> QED BY <1>7, <1>8, <1>9, <1>10, <1>11 DEF Held

(* A region of free blocks belongs to no payload.                          *)
LEMMA RecutHeldSame ==
  ASSUME NEW h, NEW g, NEW lo, NEW mid, NEW hi, NEW f \in BOOLEAN, NEW f2 \in BOOLEAN,
         Blocks(h), Region(h, lo, mid, hi), Recut(h, g, lo, mid, hi, f, f2),
         mid = hi => f2 = f, NEW l, Held(h, l),
         \A c \in Starts(h) : lo <= c /\ c < hi => IsFree(h, c), f, f2
  PROVE  Held(g, l)
<1>1. Gone(h, l, lo, hi, {})
  BY DEF Gone, Owns
<1>2. \A c \in {lo} \cup ({mid} \ {hi}) : IsFree(g, c)
  BY DEF Recut, IsFree
<1>3. New(g, lo, mid, hi, {})
  BY <1>2, FS_EmptySet DEF New
<1>4. Held(g, (l \ {}) \cup {})
  BY <1>1, <1>3, RecutHeld
<1> QED BY <1>4

(* The blocks in use are kept.                                             *)
Keeps(h, g) ==
  \A c \in Starts(h) : ~ IsFree(h, c) =>
    c \in Starts(g) /\ ~ IsFree(g, c) /\ Length(g, c) = Length(h, c)

LEMMA RecutKeeps ==
  ASSUME NEW h, NEW g, NEW lo, NEW mid, NEW hi, NEW f \in BOOLEAN, NEW f2 \in BOOLEAN,
         Blocks(h), Region(h, lo, mid, hi), Recut(h, g, lo, mid, hi, f, f2),
         \A c \in Starts(h) : lo <= c /\ c < hi => IsFree(h, c)
  PROVE  Keeps(h, g)
<1>0. Placed(h, lo, mid, hi) BY RegionPlaced
<1> SUFFICES ASSUME NEW c \in Starts(h), ~ IsFree(h, c)
             PROVE  c \in Starts(g) /\ ~ IsFree(g, c) /\ Length(g, c) = Length(h, c)
  BY DEF Keeps
<1>1. c < lo \/ c > hi \/ c = hi
  BY <1>0 DEF Placed
<1>2. c \in Starts(g)
  BY <1>0, <1>1 DEF Recut, Placed
<1>3. CASE c < lo \/ c > hi
  <2>1. g.block[c] = h.block[c]
    BY <1>3 DEF Recut
  <2> QED BY <1>2, <2>1 DEF IsFree, Length
<1>4. CASE c = hi
  BY <1>2, <1>4 DEF Recut, IsFree, Length
<1> QED BY <1>1, <1>3, <1>4

(* Free blocks that follow free ones.                                      *)
Seconds(h) == {c \in Free(h) : h.block[c].previous_is_free}

LEMMA RecutSeconds ==
  ASSUME NEW h, NEW g, NEW lo, NEW mid, NEW hi, NEW f \in BOOLEAN, NEW f2 \in BOOLEAN,
         Blocks(h), Region(h, lo, mid, hi), Recut(h, g, lo, mid, hi, f, f2)
  PROVE  \A c \in Seconds(g) : \/ c \in Seconds(h) /\ (c < lo \/ c > hi)
                               \/ c = lo /\ f /\ ToldAt(h, lo)
                               \/ c = mid /\ mid # hi /\ f /\ f2
                               \/ c = hi /\ f2 /\ hi \in Free(h)
<1>0. Placed(h, lo, mid, hi) BY RegionPlaced
<1> SUFFICES ASSUME NEW c \in Starts(g), IsFree(g, c), g.block[c].previous_is_free
             PROVE  \/ c \in Seconds(h) /\ (c < lo \/ c > hi)
                    \/ c = lo /\ f /\ ToldAt(h, lo)
                    \/ c = mid /\ mid # hi /\ f /\ f2
                    \/ c = hi /\ f2 /\ hi \in Free(h)
  BY DEF Seconds, Free
<1>1. \/ c \in Starts(h) /\ (c < lo \/ c > hi)
      \/ c \in Starts(h) /\ c = hi
      \/ c = lo
      \/ c = mid /\ mid # hi
  <2>1. Starts(g) = {d \in Starts(h) : d < lo \/ d >= hi} \cup {lo} \cup ({mid} \ {hi})
    BY DEF Recut
  <2>2. c \in Starts(h) => c \in Nat
    BY <1>0 DEF Placed
  <2> QED BY <1>0, <2>1, <2>2 DEF Placed
<1>2. CASE c \in Starts(h) /\ (c < lo \/ c > hi)
  <2>1. g.block[c] = h.block[c]
    BY <1>2 DEF Recut
  <2> QED BY <1>2, <2>1 DEF IsFree, Seconds, Free
<1>3. CASE c \in Starts(h) /\ c = hi
  BY <1>3 DEF Recut, IsFree, Free
<1>4. CASE c = lo
  BY <1>4 DEF Recut, IsFree
<1>5. CASE c = mid /\ mid # hi
  BY <1>5 DEF Recut, IsFree
<1> QED BY <1>1, <1>2, <1>3, <1>4, <1>5

(* Recutting that makes no new free neighbours.                            *)
Quiet(h, lo, mid, hi, f, f2) ==
  /\ f /\ ToldAt(h, lo) => lo \in Free(h)
  /\ f /\ f2 => mid = hi
  /\ f2 /\ hi \in Free(h) => hi \in Seconds(h)

LEMMA RecutQuiet ==
  ASSUME NEW h, NEW g, NEW lo, NEW mid, NEW hi, NEW f \in BOOLEAN, NEW f2 \in BOOLEAN,
         Blocks(h), Region(h, lo, mid, hi), Recut(h, g, lo, mid, hi, f, f2),
         Quiet(h, lo, mid, hi, f, f2)
  PROVE  Seconds(g) \subseteq Seconds(h)
<1> SUFFICES ASSUME NEW c \in Seconds(g) PROVE c \in Seconds(h)
  OBVIOUS
<1>1. \/ c \in Seconds(h) /\ (c < lo \/ c > hi)
      \/ c = lo /\ f /\ ToldAt(h, lo)
      \/ c = mid /\ mid # hi /\ f /\ f2
      \/ c = hi /\ f2 /\ hi \in Free(h)
  BY RecutSeconds
<1>2. lo \in Free(h) /\ ToldAt(h, lo) => lo \in Seconds(h)
  BY DEF Free, ToldAt, Seconds
<1> QED BY <1>1, <1>2 DEF Quiet

LEMMA NextTold ==
  ASSUME NEW h, Blocks(h), NEW c \in Free(h), End(h, c) \in Free(h)
  PROVE  End(h, c) \in Seconds(h)
<1>1. c \in Starts(h) /\ End(h, c) \in Starts(h) /\ IsFree(h, c)
  BY DEF Free
<1>2. End(h, c) # h.brk
  <2>1. \A b \in Starts(h) : b \in Nat /\ End(h, b) \in Nat /\ End(h, b) <= h.brk /\ b < End(h, b)
    BY DEF Blocks, IsHeap, WellFormed, EndToEnd, End, Length, header_t
  <2> QED BY <1>1, <2>1 DEF Blocks, IsHeap
<1> QED BY <1>1, <1>2 DEF Blocks, Told, Seconds

(* One of the blocks made of it belongs to a new payload.                  *)
LEMMA RecutHeldNew ==
  ASSUME NEW h, NEW g, NEW lo, NEW mid, NEW hi, NEW f \in BOOLEAN, NEW f2 \in BOOLEAN,
         Blocks(h), Region(h, lo, mid, hi), Recut(h, g, lo, mid, hi, f, f2),
         mid = hi => f2 = f, NEW l, Held(h, l),
         NEW gone, Gone(h, l, lo, hi, gone),
         NEW q \in [ptr : Nat, size : Requests],
         NEW b \in {lo} \cup ({mid} \ {hi}), Owns(g, q, b),
         \A c \in {lo} \cup ({mid} \ {hi}) : ~ IsFree(g, c) => c = b
  PROVE  Held(g, (l \ gone) \cup {q}) /\ q \notin l \ gone
<1>1. New(g, lo, mid, hi, {q})
  <2> DEFINE places == {lo} \cup ({mid} \ {hi})
  <2>1. b \in places /\ \A c \in places : ~ IsFree(g, c) => c = b
    OBVIOUS
  <2> HIDE DEF places
  <2>2. /\ \A r \in {q} : \E c \in places : Owns(g, r, c)
        /\ \A c \in places : ~ IsFree(g, c) => \E r \in {q} : Owns(g, r, c)
    BY <2>1
  <2>3. IsFiniteSet({q}) /\ {q} \in SUBSET [ptr : Nat, size : Requests]
    BY FS_Singleton
  <2> QED BY <2>2, <2>3 DEF New, places
<1>2. Held(g, (l \ gone) \cup {q}) /\ \A p \in {q} : p \notin l \ gone
  BY <1>1, RecutHeld
<1> QED BY <1>2

(* A payload is gone, and its block and those around it are a free one.    *)
LEMMA RecutHeldGone ==
  ASSUME NEW h, NEW g, NEW lo, NEW hi,
         Blocks(h), Region(h, lo, hi, hi), Recut(h, g, lo, hi, hi, TRUE, TRUE),
         NEW l, Held(h, l), NEW x \in l, NEW b \in Starts(h), Owns(h, x, b),
         \A c \in Starts(h) : lo <= c /\ c < hi /\ c # b => IsFree(h, c),
         lo <= b, b < hi
  PROVE  Held(g, l \ {x})
<1>1. Gone(h, l, lo, hi, {x})
  <2> SUFFICES ASSUME NEW p \in l, NEW c \in Starts(h), Owns(h, p, c)
               PROVE  p = x <=> lo <= c /\ c < hi
    BY DEF Gone
  <2>1. lo <= c /\ c < hi => c = b
    BY DEF Owns
  <2>2. c = b => p = x
    BY DEF Owns, Held
  <2>3. p = x => c = b
    BY PayloadsApart DEF Owns
  <2> QED BY <2>1, <2>2, <2>3
<1>2. \A c \in {lo} \cup ({hi} \ {hi}) : IsFree(g, c)
  BY DEF Recut, IsFree
<1>3. New(g, lo, hi, hi, {})
  BY <1>2, FS_EmptySet DEF New
<1>4. \A f \in BOOLEAN : Recut(h, g, lo, hi, hi, f, f) => Held(g, (l \ {x}) \cup {})
  <2> DEFINE gone == {x}
             new == {}
  <2> HIDE DEF gone, new
  <2>1. Gone(h, l, lo, hi, gone) /\ New(g, lo, hi, hi, new)
    BY <1>1, <1>3 DEF gone, new
  <2>2. ASSUME NEW f \in BOOLEAN, Recut(h, g, lo, hi, hi, f, f)
        PROVE  Held(g, (l \ gone) \cup new)
    BY ONLY <2>1, <2>2, RecutHeld, f \in BOOLEAN, Held(h, l), Blocks(h), Region(h, lo, hi, hi)
  <2> QED BY <2>2 DEF gone, new
<1>5. Held(g, (l \ {x}) \cup {})
  BY <1>4, Zenon
<1> QED BY <1>5

-----------------------------------------------------------------------------
(* What the primitives leave in each field.                                *)

LEMMA SetToFields ==
  ASSUME NEW k, IsHeap(k), NEW b \in Nat, NEW length \in Nat, length > 0,
         NEW free \in BOOLEAN, NEW told \in BOOLEAN
  PROVE  LET g == SetTo(k, b, length, free, told)
         IN  /\ IsHeap(g) /\ g.tree = k.tree /\ g.brk = k.brk
             /\ g.last_is_free = k.last_is_free
             /\ Starts(g) = {b} \cup {c \in Starts(k) : c < b \/ c >= b + length}
             /\ g.block[b] = [length |-> length, is_free |-> free,
                              previous_is_free |-> told, type |-> get_block_type(b)]
             /\ \A c \in Starts(k) : c < b \/ c >= b + length => g.block[c] = k.block[c]
<1> DEFINE header == [length |-> length, is_free |-> free,
                      previous_is_free |-> told, type |-> get_block_type(b)]
           S == {b} \cup {c \in Starts(k) : c < b \/ c >= b + length}
           block == [c \in S |-> IF c = b THEN header ELSE k.block[c]]
           g == SetTo(k, b, length, free, told)
<1>1. header \in header_t /\ header.length = length
  BY TypeBit DEF header_t
<1>2. g = [block |-> block, tree |-> k.tree, last_is_free |-> k.last_is_free, brk |-> k.brk]
  BY <1>1 DEF SetTo, Header, IsHeap
<1>3. Starts(g) = S /\ S \subseteq Nat
  BY <1>2 DEF Starts, IsHeap
<1>4. block \in [S -> header_t]
  BY <1>1 DEF IsHeap
<1>5. IsHeap(g)
  BY <1>2, <1>3, <1>4 DEF IsHeap
<1>6. \A c \in Starts(k) : c < b \/ c >= b + length => c # b
  BY DEF IsHeap
<1> QED BY <1>2, <1>3, <1>5, <1>6

(* The block after b is told whether b is free; rbnull is told when there  *)
(* is none.                                                                *)
LEMMA TellFields ==
  ASSUME NEW k, IsHeap(k), NEW b \in Starts(k), Length(k, b) > 0
  PROVE  LET g == TellNext(k, b)
         IN  /\ IsHeap(g) /\ Starts(g) = Starts(k) /\ g.tree = k.tree /\ g.brk = k.brk
             /\ g.last_is_free = IF End(k, b) = k.brk THEN IsFree(k, b) ELSE k.last_is_free
             /\ \A c \in Starts(k) : c # End(k, b) \/ c = k.brk => g.block[c] = k.block[c]
             /\ End(k, b) \in Starts(k) /\ End(k, b) # k.brk =>
                  g.block[End(k, b)] = [length |-> k.block[End(k, b)].length,
                                        is_free |-> k.block[End(k, b)].is_free,
                                        previous_is_free |-> IsFree(k, b),
                                        type |-> k.block[End(k, b)].type]
<1> DEFINE g == TellNext(k, b)
           next == End(k, b)
<1>1. /\ k = [block |-> k.block, tree |-> k.tree, last_is_free |-> k.last_is_free, brk |-> k.brk]
      /\ k.block \in [Starts(k) -> header_t]
      /\ Starts(k) \subseteq Nat /\ k.tree \subseteq Nat
      /\ k.last_is_free \in BOOLEAN /\ k.brk \in Nat
  BY DEF IsHeap
<1>2. IsFree(k, b) \in BOOLEAN /\ next \in Nat /\ next # rbnull
  BY <1>1 DEF IsFree, header_t, End, Length, rbnull
<1>3. CASE next = k.brk
  <2>1. g = [block |-> k.block, tree |-> k.tree, last_is_free |-> IsFree(k, b), brk |-> k.brk]
    BY <1>1, <1>3 DEF TellNext, get_logical_next_block, is_last_block, set_previous_is_free,
         End, IsFree
  <2> QED BY <1>1, <1>2, <1>3, <2>1 DEF IsHeap, Starts
<1>4. CASE next # k.brk /\ next \notin Starts(k)
  <2>1. g = k
    BY <1>2, <1>4 DEF TellNext, get_logical_next_block, is_last_block, set_previous_is_free, End
  <2> QED BY <1>1, <1>4, <2>1
<1>5. CASE next # k.brk /\ next \in Starts(k)
  <2> DEFINE told == [length |-> k.block[next].length, is_free |-> k.block[next].is_free,
                      previous_is_free |-> IsFree(k, b), type |-> k.block[next].type]
  <2>1. k.block[next] \in header_t
    BY <1>1, <1>5
  <2>2. [k.block[next] EXCEPT !.previous_is_free = IsFree(k, b)] = told
    BY <2>1 DEF header_t
  <2>3. told \in header_t
    BY <1>2, <2>1 DEF header_t
  <2>4. g = [k EXCEPT !.block[next].previous_is_free = IsFree(k, b)]
    BY <1>2, <1>5 DEF TellNext, get_logical_next_block, is_last_block, set_previous_is_free,
         End, IsFree
  <2>5. g = [block |-> [k.block EXCEPT ![next] = told], tree |-> k.tree,
             last_is_free |-> k.last_is_free, brk |-> k.brk]
    BY <1>1, <2>2, <2>4
  <2>6. /\ [k.block EXCEPT ![next] = told] \in [Starts(k) -> header_t]
        /\ \A c \in Starts(k) : [k.block EXCEPT ![next] = told][c]
                                  = IF c = next THEN told ELSE k.block[c]
    BY <1>1, <1>5, <2>3
  <2> QED BY <1>1, <1>5, <2>5, <2>6 DEF IsHeap, Starts
<1> QED BY <1>3, <1>4, <1>5

-----------------------------------------------------------------------------
(* One block made of a region, and two.  The tree may be another, and the  *)
(* heap has grown to the end of the region.                                *)
Under(h, k, hi) == /\ IsHeap(k) /\ k.block = h.block /\ k.last_is_free = h.last_is_free
                   /\ k.brk = IF hi > h.brk THEN hi ELSE h.brk

LEMMA ToldIsBoolean ==
  ASSUME NEW h, IsHeap(h), NEW lo PROVE ToldAt(h, lo) \in BOOLEAN
BY DEF IsHeap, ToldAt, header_t

LEMMA OneBlock ==
  ASSUME NEW h, NEW k, NEW lo, NEW hi, NEW f \in BOOLEAN,
         Blocks(h), Region(h, lo, hi, hi), Under(h, k, hi)
  PROVE  LET g == TellNext(SetTo(k, lo, hi - lo, f, ToldAt(h, lo)), lo)
         IN  Recut(h, g, lo, hi, hi, f, f) /\ g.tree = k.tree
<1>0. Placed(h, lo, hi, hi) BY RegionPlaced
<1> USE <1>0 DEF Placed
<1> DEFINE told == ToldAt(h, lo)
           a == SetTo(k, lo, hi - lo, f, told)
           g == TellNext(a, lo)
<1>1. /\ IsHeap(k) /\ k.block = h.block /\ k.last_is_free = h.last_is_free
      /\ k.brk = IF hi > h.brk THEN hi ELSE h.brk
      /\ Starts(k) = Starts(h) /\ told \in BOOLEAN
  BY ToldIsBoolean DEF Under, Starts, Blocks
<1>2. lo \in Nat /\ hi - lo \in Nat /\ hi - lo > 0 /\ lo + (hi - lo) = hi
  OBVIOUS
<1>3. /\ IsHeap(a) /\ a.tree = k.tree /\ a.brk = k.brk /\ a.last_is_free = h.last_is_free
      /\ Starts(a) = {lo} \cup {c \in Starts(h) : c < lo \/ c >= hi}
      /\ a.block[lo] = [length |-> hi - lo, is_free |-> f,
                        previous_is_free |-> told, type |-> get_block_type(lo)]
      /\ \A c \in Starts(h) : c < lo \/ c >= hi => a.block[c] = h.block[c]
  <2> HIDE DEF told
  <2>1. /\ IsHeap(a) /\ a.tree = k.tree /\ a.brk = k.brk /\ a.last_is_free = k.last_is_free
        /\ Starts(a) = {lo} \cup {c \in Starts(k) : c < lo \/ c >= lo + (hi - lo)}
        /\ a.block[lo] = [length |-> hi - lo, is_free |-> f,
                          previous_is_free |-> told, type |-> get_block_type(lo)]
        /\ \A c \in Starts(k) : c < lo \/ c >= lo + (hi - lo) => a.block[c] = k.block[c]
    BY <1>1, <1>2, SetToFields
  <2> QED BY <1>1, <1>2, <2>1
<1>4. Length(a, lo) = hi - lo /\ IsFree(a, lo) = f /\ End(a, lo) = hi
  BY <1>3 DEF Length, IsFree, End
<1>5. /\ IsHeap(g) /\ Starts(g) = Starts(a) /\ g.tree = a.tree /\ g.brk = a.brk
      /\ g.last_is_free = IF hi = a.brk THEN f ELSE a.last_is_free
      /\ \A c \in Starts(a) : c # hi \/ c = a.brk => g.block[c] = a.block[c]
      /\ hi \in Starts(a) /\ hi # a.brk =>
           g.block[hi] = [length |-> a.block[hi].length, is_free |-> a.block[hi].is_free,
                          previous_is_free |-> f, type |-> a.block[hi].type]
  <2> HIDE DEF a
  <2> QED BY <1>3, <1>4, TellFields
<1> HIDE DEF told, a, g
<1>6. Starts(g) = {c \in Starts(h) : c < lo \/ c >= hi} \cup {lo} \cup ({hi} \ {hi})
  BY <1>3, <1>5
<1>7. \A c \in Starts(h) : c < lo \/ c > hi => g.block[c] = h.block[c]
  BY <1>3, <1>5
<1>8. hi \in Starts(h) => g.block[hi] = [length |-> Length(h, hi), is_free |-> IsFree(h, hi),
                                         previous_is_free |-> f, type |-> h.block[hi].type]
  <2> HAVE hi \in Starts(h)
  <2>1. hi \in Starts(a) /\ hi # a.brk /\ a.block[hi] = h.block[hi]
    BY <1>1, <1>3
  <2> QED BY <1>5, <2>1 DEF Length, IsFree
<1>9. g.block[lo] = [length |-> hi - lo, is_free |-> f, previous_is_free |-> told,
                     type |-> get_block_type(lo)]
  BY <1>3, <1>5
<1>10. g.brk = (IF hi > h.brk THEN hi ELSE h.brk)
       /\ g.last_is_free = (IF hi >= h.brk THEN f ELSE h.last_is_free)
  BY <1>1, <1>3, <1>5
<1>11. IsHeap(g) /\ g.tree = k.tree
  BY <1>3, <1>5
<1>12. Recut(h, g, lo, hi, hi, f, f)
  BY ONLY <1>6, <1>7, <1>8, <1>9, <1>10, <1>11 DEF Recut, told
<1> QED BY <1>11, <1>12 DEF g, a, told

LEMMA TwoBlocks ==
  ASSUME NEW h, NEW k, NEW lo, NEW mid, NEW hi, NEW f \in BOOLEAN, NEW f2 \in BOOLEAN,
         Blocks(h), Region(h, lo, mid, hi), mid # hi, Under(h, k, hi)
  PROVE  LET g == TellNext(SetTo(SetTo(k, lo, mid - lo, f, ToldAt(h, lo)),
                                 mid, hi - mid, f2, f), mid)
         IN  Recut(h, g, lo, mid, hi, f, f2) /\ g.tree = k.tree
<1>0. Placed(h, lo, mid, hi) BY RegionPlaced
<1> USE <1>0 DEF Placed
<1> DEFINE told == ToldAt(h, lo)
           a == SetTo(k, lo, mid - lo, f, told)
           b == SetTo(a, mid, hi - mid, f2, f)
           g == TellNext(b, mid)
<1>1. /\ IsHeap(k) /\ k.block = h.block /\ k.last_is_free = h.last_is_free
      /\ k.brk = IF hi > h.brk THEN hi ELSE h.brk
      /\ Starts(k) = Starts(h) /\ told \in BOOLEAN
  BY ToldIsBoolean DEF Under, Starts, Blocks
<1>2. /\ lo \in Nat /\ mid - lo \in Nat /\ mid - lo > 0 /\ lo + (mid - lo) = mid
      /\ mid \in Nat /\ hi - mid \in Nat /\ hi - mid > 0 /\ mid + (hi - mid) = hi
  OBVIOUS
<1>3. /\ IsHeap(a) /\ a.tree = k.tree /\ a.brk = k.brk /\ a.last_is_free = h.last_is_free
      /\ Starts(a) = {lo} \cup {c \in Starts(h) : c < lo \/ c >= mid}
      /\ a.block[lo] = [length |-> mid - lo, is_free |-> f,
                        previous_is_free |-> told, type |-> get_block_type(lo)]
      /\ \A c \in Starts(h) : c < lo \/ c >= mid => a.block[c] = h.block[c]
  <2> HIDE DEF told, b, g
  <2>1. /\ IsHeap(a) /\ a.tree = k.tree /\ a.brk = k.brk /\ a.last_is_free = k.last_is_free
        /\ Starts(a) = {lo} \cup {c \in Starts(k) : c < lo \/ c >= lo + (mid - lo)}
        /\ a.block[lo] = [length |-> mid - lo, is_free |-> f,
                          previous_is_free |-> told, type |-> get_block_type(lo)]
        /\ \A c \in Starts(k) : c < lo \/ c >= lo + (mid - lo) => a.block[c] = k.block[c]
    BY ONLY <1>1, <1>2, f \in BOOLEAN, SetToFields
  <2> QED BY <1>1, <1>2, <2>1
<1>4. /\ IsHeap(b) /\ b.tree = a.tree /\ b.brk = a.brk /\ b.last_is_free = a.last_is_free
      /\ Starts(b) = {mid} \cup {c \in Starts(a) : c < mid \/ c >= hi}
      /\ b.block[mid] = [length |-> hi - mid, is_free |-> f2,
                         previous_is_free |-> f, type |-> get_block_type(mid)]
      /\ \A c \in Starts(a) : c < mid \/ c >= hi => b.block[c] = a.block[c]
  <2> HIDE DEF a
  <2>1. /\ IsHeap(b) /\ b.tree = a.tree /\ b.brk = a.brk /\ b.last_is_free = a.last_is_free
        /\ Starts(b) = {mid} \cup {c \in Starts(a) : c < mid \/ c >= mid + (hi - mid)}
        /\ b.block[mid] = [length |-> hi - mid, is_free |-> f2,
                           previous_is_free |-> f, type |-> get_block_type(mid)]
        /\ \A c \in Starts(a) : c < mid \/ c >= mid + (hi - mid) => b.block[c] = a.block[c]
    BY <1>2, <1>3, SetToFields
  <2> QED BY <1>2, <2>1
<1>5. Length(b, mid) = hi - mid /\ IsFree(b, mid) = f2 /\ End(b, mid) = hi
  BY <1>4 DEF Length, IsFree, End
<1>6. /\ IsHeap(g) /\ Starts(g) = Starts(b) /\ g.tree = b.tree /\ g.brk = b.brk
      /\ g.last_is_free = IF hi = b.brk THEN f2 ELSE b.last_is_free
      /\ \A c \in Starts(b) : c # hi \/ c = b.brk => g.block[c] = b.block[c]
      /\ hi \in Starts(b) /\ hi # b.brk =>
           g.block[hi] = [length |-> b.block[hi].length, is_free |-> b.block[hi].is_free,
                          previous_is_free |-> f2, type |-> b.block[hi].type]
  <2> HIDE DEF b
  <2> QED BY <1>4, <1>5, TellFields
<1> HIDE DEF told, a, b, g
<1>7. Starts(g) = {c \in Starts(h) : c < lo \/ c >= hi} \cup {lo} \cup ({mid} \ {hi})
  <2>1. \A c \in Starts(b) : c = mid \/ c = lo \/ (c \in Starts(h) /\ (c < lo \/ c >= hi))
    BY <1>3, <1>4
  <2>2. \A c \in Starts(h) : c < lo \/ c >= hi => c \in Starts(b)
    BY <1>3, <1>4
  <2>3. lo \in Starts(b) /\ mid \in Starts(b)
    BY <1>3, <1>4
  <2> QED BY <1>6, <2>1, <2>2, <2>3
<1>8. \A c \in Starts(h) : c < lo \/ c >= hi =>
        c \in Starts(b) /\ c \in Starts(a) /\ b.block[c] = h.block[c]
  BY <1>3, <1>4
<1>9. \A c \in Starts(h) : c < lo \/ c > hi => g.block[c] = h.block[c]
  BY <1>6, <1>8
<1>10. hi \in Starts(h) => g.block[hi] = [length |-> Length(h, hi), is_free |-> IsFree(h, hi),
                                          previous_is_free |-> f2, type |-> h.block[hi].type]
  <2> HAVE hi \in Starts(h)
  <2>1. hi \in Starts(b) /\ hi # b.brk /\ b.block[hi] = h.block[hi]
    BY <1>1, <1>3, <1>4, <1>8
  <2> QED BY <1>6, <2>1 DEF Length, IsFree
<1>11. /\ g.block[lo] = [length |-> mid - lo, is_free |-> f, previous_is_free |-> told,
                         type |-> get_block_type(lo)]
       /\ g.block[mid] = [length |-> hi - mid, is_free |-> f2, previous_is_free |-> f,
                          type |-> get_block_type(mid)]
  BY <1>3, <1>4, <1>6
<1>12. g.brk = (IF hi > h.brk THEN hi ELSE h.brk)
       /\ g.last_is_free = (IF hi >= h.brk THEN f2 ELSE h.last_is_free)
  BY <1>1, <1>3, <1>4, <1>6
<1>13. IsHeap(g) /\ g.tree = k.tree
  BY <1>3, <1>4, <1>6
<1>14. Recut(h, g, lo, mid, hi, f, f2)
  BY ONLY <1>7, <1>9, <1>10, <1>11, <1>12, <1>13 DEF Recut, told
<1> QED BY <1>13, <1>14 DEF g, b, a, told

(* A block becomes free or is taken.                                       *)
LEMMA SetFree ==
  ASSUME NEW h, Blocks(h), NEW b \in Starts(h), NEW f \in BOOLEAN
  PROVE  LET g == set_block_is_free(h, b, f)
         IN  /\ Region(h, b, End(h, b), End(h, b))
             /\ Recut(h, g, b, End(h, b), End(h, b), f, f) /\ g.tree = h.tree
<1> DEFINE e == End(h, b)
           r == [length |-> Length(h, b), is_free |-> f,
                 previous_is_free |-> ToldAt(h, b), type |-> get_block_type(b)]
           a == SetTo(h, b, e - b, f, ToldAt(h, b))
<1>1. /\ b \in Nat /\ b % 4 = 0 /\ Length(h, b) \in Nat /\ Length(h, b) % 4 = 0
      /\ Length(h, b) > MINIMAL_BLOCK_SIZE /\ e \in Starts(h) \cup {h.brk}
      /\ h.block[b].type = get_block_type(b) /\ h.block[b] \in header_t
  BY DEF Blocks, IsHeap, WellFormed, EndToEnd, header_t, Length
<1>2. e \in Nat /\ e % 4 = 0 /\ e - b = Length(h, b) /\ b + Length(h, b) = e
  BY <1>1 DEF End
<1>3. \A c \in Starts(h) : c \in Nat /\ (c < b \/ c = b \/ c >= e)
  <2>1. Starts(h) \subseteq Nat
    BY DEF Blocks, IsHeap
  <2>2. \A c \in Starts(h) : b < c => e <= c
    BY DEF Blocks, EndToEnd
  <2> HIDE DEF e
  <2> QED BY <1>2, <2>1, <2>2
<1>4. Region(h, b, e, e)
  BY <1>1, <1>2, <1>3 DEF Region, Blocks, IsHeap
<1>5. Under(h, h, e)
  <2>1. ~ (e > h.brk)
    BY <1>2 DEF Blocks, EndToEnd, IsHeap
  <2> QED BY <2>1 DEF Under, Blocks
<1>6. r = [h.block[b] EXCEPT !.is_free = f]
  BY <1>1 DEF header_t, ToldAt, Length
<1>7. a = [h EXCEPT !.block[b].is_free = f]
  <2>1. /\ h = [block |-> h.block, tree |-> h.tree,
                last_is_free |-> h.last_is_free, brk |-> h.brk]
        /\ h.block \in [Starts(h) -> header_t]
    BY DEF Blocks, IsHeap
  <2>2. [h EXCEPT !.block[b].is_free = f] = [h EXCEPT !.block = [h.block EXCEPT ![b] = r]]
    BY <1>6, <2>1
  <2>3. {b} \cup {c \in Starts(h) : c < b \/ c >= b + r.length} = Starts(h)
    BY <1>2, <1>3
  <2>4. [c \in {b} \cup {c \in Starts(h) : c < b \/ c >= b + r.length} |->
           IF c = b THEN r ELSE h.block[c]] = [h.block EXCEPT ![b] = r]
    BY <2>1, <2>3
  <2>5. a = [h EXCEPT !.block =
               [c \in {b} \cup {c \in Starts(h) : c < b \/ c >= b + r.length} |->
                  IF c = b THEN r ELSE h.block[c]]]
    BY <1>2 DEF SetTo, Header
  <2> QED BY <2>2, <2>4, <2>5
<1>8. set_block_is_free(h, b, f) = TellNext(a, b)
  BY <1>7 DEF set_block_is_free
<1> QED BY <1>4, <1>5, <1>8, OneBlock

-----------------------------------------------------------------------------
(* A sound heap, of which the free blocks in x are not in the tree.        *)

Sound(h, l, x) == /\ Blocks(h) /\ Held(h, l) /\ h.tree = Free(h) \ x
                  /\ h.brk <= MAX_HEAP

LEMMA ConsistentIsSound ==
  ASSUME NEW h, NEW l PROVE Consistent(h, l) <=> Sound(h, l, {})
BY DEF Consistent, Sound, Blocks, InTree, Free

LEMMA BlockFacts ==
  ASSUME NEW h, Blocks(h)
  PROVE  /\ h.brk \in Nat
         /\ \A b \in Starts(h) :
              /\ b \in Nat /\ b % 4 = 0 /\ Length(h, b) \in Nat /\ Length(h, b) % 4 = 0
              /\ Length(h, b) > MINIMAL_BLOCK_SIZE /\ h.block[b] \in header_t
              /\ IsFree(h, b) \in BOOLEAN
              /\ End(h, b) = b + Length(h, b) /\ End(h, b) \in Nat /\ End(h, b) % 4 = 0
              /\ End(h, b) \in Starts(h) \cup {h.brk} /\ End(h, b) <= h.brk /\ b < h.brk
              /\ h.block[b].type = get_block_type(b)
         /\ \A b, c \in Starts(h) : b < c => End(h, b) <= c
<1>1. h.brk \in Nat /\ h.block \in [Starts(h) -> header_t] /\ Starts(h) \subseteq Nat
  BY DEF Blocks, IsHeap
<1>2. ASSUME NEW b \in Starts(h)
      PROVE  /\ b \in Nat /\ b % 4 = 0 /\ Length(h, b) \in Nat /\ Length(h, b) % 4 = 0
             /\ Length(h, b) > MINIMAL_BLOCK_SIZE /\ h.block[b] \in header_t
             /\ IsFree(h, b) \in BOOLEAN
             /\ h.block[b].type = get_block_type(b)
  BY <1>1 DEF Blocks, WellFormed, header_t, Length, IsFree
<1>3. ASSUME NEW b \in Starts(h)
      PROVE  /\ End(h, b) = b + Length(h, b) /\ End(h, b) \in Nat /\ End(h, b) % 4 = 0
             /\ End(h, b) \in Starts(h) \cup {h.brk} /\ End(h, b) <= h.brk /\ b < h.brk
  <2>1. End(h, b) \in Starts(h) \cup {h.brk} /\ End(h, b) <= h.brk
    BY DEF Blocks, EndToEnd
  <2> QED BY <1>1, <1>2, <2>1 DEF End
<1> QED BY <1>1, <1>2, <1>3 DEF Blocks, EndToEnd

(* A region of whole blocks.                                               *)
LEMMA RegionOf ==
  ASSUME NEW h, Blocks(h), NEW b \in Starts(h), NEW c \in Starts(h), b <= c
  PROVE  Region(h, b, End(h, c), End(h, c))
<1>1. /\ b \in Nat /\ c \in Nat /\ Length(h, c) > MINIMAL_BLOCK_SIZE /\ Length(h, c) \in Nat
      /\ End(h, c) = c + Length(h, c) /\ End(h, c) % 4 = 0 /\ h.brk \in Nat
      /\ End(h, c) \in Starts(h) \cup {h.brk}
  BY BlockFacts
<1> QED BY <1>1 DEF Region

(* The smallest of what is large enough.                                   *)
LEMMA LowerBound ==
  ASSUME NEW h, NEW l, Sound(h, l, {}), NEW length \in Nat
  PROVE  /\ \A b \in rb_lower_bound(h, length) : b \in Free(h) /\ Length(h, b) >= length
         /\ rb_lower_bound(h, length) = {} => \A b \in Free(h) : Length(h, b) < length
<1>1. h.tree = Free(h) /\ \A b \in Free(h) : Length(h, b) \in Nat
  BY BlockFacts DEF Sound, Free
<1>2. ASSUME NEW b \in Free(h), Length(h, b) >= length PROVE rb_lower_bound(h, length) # {}
  <2> DEFINE L == {n \in Nat : \E c \in Free(h) : Length(h, c) = n /\ n >= length}
  <2>1. Length(h, b) \in L
    BY <1>1, <1>2
  <2>2. L \in SUBSET Nat /\ L # {}
    BY <2>1
  <2>3. PICK n \in L : \A m \in L : n <= m
    BY <2>2, LeastNatural
  <2>4. PICK c \in Free(h) : Length(h, c) = n /\ n >= length
    OBVIOUS
  <2>5. c \in rb_lower_bound(h, length)
    BY <1>1, <2>3, <2>4 DEF rb_lower_bound
  <2> QED BY <2>5
<1> QED BY <1>1, <1>2 DEF rb_lower_bound

-----------------------------------------------------------------------------
(* The heap grows for mm_malloc.                                           *)

LEMMA LastIs ==
  ASSUME NEW h, Blocks(h)
  PROVE  /\ LastBlock(h) \in Starts(h) /\ End(h, LastBlock(h)) = h.brk
         /\ IsFree(h, LastBlock(h)) = h.last_is_free
         /\ \A c \in Starts(h) : c <= LastBlock(h)
<1>1. PICK b \in Starts(h) : End(h, b) = h.brk
  BY DEF Blocks, EndToEnd
<1>2. is_last_block(h, b)
  BY <1>1 DEF is_last_block, End
<1>3. LastBlock(h) \in Starts(h) /\ is_last_block(h, LastBlock(h))
  BY <1>2 DEF LastBlock
<1>4. End(h, LastBlock(h)) = h.brk
  BY <1>3 DEF is_last_block, End
<1>5. IsFree(h, LastBlock(h)) = h.last_is_free
  BY <1>3, <1>4 DEF Blocks, Told
<1>6. \A c \in Starts(h) : c <= LastBlock(h)
  <2> TAKE c \in Starts(h)
  <2>1. c \in Nat /\ LastBlock(h) \in Nat /\ h.brk \in Nat /\ c < h.brk
    BY <1>3, BlockFacts
  <2>2. LastBlock(h) < c => End(h, LastBlock(h)) <= c
    BY <1>3, BlockFacts
  <2> QED BY <1>4, <2>1, <2>2
<1> QED BY <1>3, <1>4, <1>5, <1>6

LEMMA ExtendSound ==
  ASSUME NEW h, NEW l, Sound(h, l, {}), NEW length \in Nat, length % 4 = 0,
         length > MINIMAL_BLOCK_SIZE, \A b \in Free(h) : Length(h, b) < length,
         h.brk + ExtendBy(h, length) <= MAX_HEAP
  PROVE  LET g == extend(h, length)
             b == Extended(h, length)
         IN  /\ Sound(g, l, {b}) /\ b \in Free(g) /\ Length(g, b) >= length
             /\ h.brk <= g.brk /\ Keeps(h, g) /\ Seconds(g) \subseteq Seconds(h)
<1> DEFINE b == Extended(h, length)
           hi == b + Wanted(length)
           last == LastBlock(h)
           k == mem_sbrk(IF h.last_is_free THEN rb_delete(h, b) ELSE h, ExtendBy(h, length))
           g == extend(h, length)
<1>1. Blocks(h) /\ Held(h, l) /\ h.tree = Free(h) /\ IsHeap(h)
  BY DEF Sound, Blocks
<1>2. Wanted(length) \in Nat /\ Wanted(length) % 4 = 0 /\ Wanted(length) >= length
  BY LengthsAssumption DEF Wanted
<1>3. /\ last \in Starts(h) /\ last \in Nat /\ last % 4 = 0 /\ Length(h, last) \in Nat
      /\ last + Length(h, last) = h.brk /\ h.brk \in Nat /\ h.brk % 4 = 0
      /\ IsFree(h, last) = h.last_is_free
      /\ \A c \in Starts(h) : c \in Nat /\ c <= last /\ c < h.brk
  BY <1>1, LastIs, BlockFacts
<1>4. b = IF h.last_is_free THEN last ELSE h.brk
  BY DEF Extended
<1>5. h.last_is_free => last \in Free(h) /\ Length(h, last) < length
  BY <1>3 DEF Free
<1>6. h.brk + ExtendBy(h, length) = hi
  BY <1>2, <1>3, <1>4 DEF ExtendBy
<1>7. b \in Nat /\ b % 4 = 0 /\ hi \in Nat /\ hi % 4 = 0 /\ hi > h.brk /\ hi - b = Wanted(length)
  BY <1>2, <1>3, <1>4, <1>5
<1>8. k = [block |-> h.block, last_is_free |-> h.last_is_free, brk |-> hi,
           tree |-> IF h.last_is_free THEN h.tree \ {b} ELSE h.tree]
  <2>1. h = [block |-> h.block, tree |-> h.tree, last_is_free |-> h.last_is_free, brk |-> h.brk]
    BY <1>1 DEF IsHeap
  <2> HIDE DEF hi, b
  <2> QED BY <1>6, <2>1 DEF mem_sbrk, rb_delete
<1>9. Region(h, b, hi, hi)
  BY <1>2, <1>3, <1>4, <1>7 DEF Region
<1>10. Under(h, k, hi)
  <2> HIDE DEF hi, b, k
  <2> QED BY <1>1, <1>7, <1>8 DEF Under, IsHeap, Starts
<1>11. g = TellNext(SetTo(k, b, hi - b, TRUE, ToldAt(h, b)), b)
  <2>1. CASE h.last_is_free
    <3>1. ToldAt(h, b) = k.block[b].previous_is_free
      <4> HIDE DEF k
      <4> QED BY <1>3, <1>4, <1>8, <2>1 DEF ToldAt
    <3>2. g = TellNext(PRESERVE(k, b, Wanted(length), TRUE), b)
      BY <2>1 DEF extend
    <3> QED BY <1>7, <3>1, <3>2 DEF PRESERVE
  <2>2. CASE ~ h.last_is_free
    <3>1. ToldAt(h, b) = FALSE
      BY <1>1, <1>3, <1>4, <2>2 DEF ToldAt, IsHeap
    <3>2. g = TellNext(SetTo(k, b, Wanted(length), TRUE, FALSE), b)
      BY <2>2 DEF extend
    <3> QED BY <1>7, <3>1, <3>2
  <2> QED BY <2>1, <2>2
<1>12. Recut(h, g, b, hi, hi, TRUE, TRUE) /\ g.tree = k.tree
  <2> HIDE DEF hi, b, k, g
  <2> DEFINE made(f) == TellNext(SetTo(k, b, hi - b, f, ToldAt(h, b)), b)
  <2>1. \A f \in BOOLEAN : Recut(h, made(f), b, hi, hi, f, f) /\ made(f).tree = k.tree
    BY <1>1, <1>9, <1>10, OneBlock
  <2>2. g = made(TRUE)
    BY <1>11
  <2> HIDE DEF made
  <2> QED BY <2>1, <2>2, Zenon
<1> HIDE DEF hi, b, k, g
<1>13. Blocks(g)
  BY <1>1, <1>9, <1>12, RecutBlocks
<1>14. \A c \in Starts(h) : c < hi
  BY <1>3, <1>7
<1>15. Free(g) = {c \in Free(h) : c < b} \cup {b}
  <2>1. Free(g) = {c \in Free(h) : c < b \/ c >= hi} \cup {b}
    <3>1. Blocks(h) /\ Recut(h, g, b, hi, hi, TRUE, TRUE)
      BY ONLY <1>1, <1>12
    <3>2. FreedIs(h, g, b, hi)
      BY <1>9, <3>1, RecutFreed, Zenon
    <3> QED BY <3>2, Zenon DEF FreedIs
  <2> QED BY <1>3, <1>7, <1>14, <2>1 DEF Free
<1>16. g.tree = Free(g) \ {b}
  <2>1. g.tree = (IF h.last_is_free THEN Free(h) \ {b} ELSE Free(h))
    BY <1>1, <1>8, <1>12
  <2>2. \A c \in Free(h) : c \in Nat /\ c <= last /\ c < h.brk
    BY <1>3 DEF Free
  <2>3. \A c \in Free(h) : c < b \/ (c = b /\ h.last_is_free)
    BY <1>3, <1>4, <2>2
  <2>4. ~ h.last_is_free => \A c \in Free(h) : c # b
    BY <1>4, <2>2, <1>3
  <2>5. b \in Nat
    BY <1>7
  <2> QED BY <1>15, <2>1, <2>2, <2>3, <2>4, <2>5
<1>17. Held(g, l)
  <2>1. \A c \in Starts(h) : b <= c /\ c < hi => IsFree(h, c)
    BY <1>3, <1>4, <1>7
  <2>2. ASSUME NEW f \in BOOLEAN, f, Recut(h, g, b, hi, hi, f, f) PROVE Held(g, l)
    BY <1>1, <1>9, <2>1, <2>2, RecutHeldSame
  <2> QED BY <1>12, <2>2
<1>18. g.brk = hi /\ Length(g, b) = Wanted(length)
  BY <1>7, <1>12 DEF Recut, Length
<1>19. Sound(g, l, {b})
  BY <1>6, <1>13, <1>16, <1>17, <1>18 DEF Sound
<1>20. b \in Free(g) /\ Length(g, b) >= length /\ h.brk <= g.brk
  BY <1>2, <1>3, <1>7, <1>15, <1>18
<1>21. Keeps(h, g)
  <2>1. \A c \in Starts(h) : b <= c /\ c < hi => IsFree(h, c)
    BY <1>3, <1>4, <1>7
  <2>2. ASSUME NEW f \in BOOLEAN, Recut(h, g, b, hi, hi, f, f) PROVE Keeps(h, g)
    BY <1>1, <1>9, <2>1, <2>2, RecutKeeps
  <2> QED BY <1>12, <2>2
<1>22. Seconds(g) \subseteq Seconds(h)
  <2>1. hi \notin Free(h)
    BY <1>7, <1>14 DEF Free
  <2>2. ToldAt(h, b) => b \in Free(h)
    BY <1>1, <1>3, <1>4, <1>5 DEF ToldAt, IsHeap
  <2>3. \A f \in BOOLEAN : Quiet(h, b, hi, hi, f, f)
    BY <2>1, <2>2 DEF Quiet
  <2>4. ASSUME NEW f \in BOOLEAN, Recut(h, g, b, hi, hi, f, f)
        PROVE  Seconds(g) \subseteq Seconds(h)
    BY <1>1, <1>9, <2>3, <2>4, RecutQuiet
  <2> QED BY <1>12, <2>4
<1> QED BY <1>19, <1>20, <1>21, <1>22 DEF g, b

(* What mm_malloc finds or makes: a free block that is large enough and no *)
(* longer in the tree.                                                     *)
LEMMA FindsSound ==
  ASSUME NEW h, NEW l, Sound(h, l, {}), NEW length \in Nat, length % 4 = 0,
         length > MINIMAL_BLOCK_SIZE,
         rb_lower_bound(h, length) = {} => h.brk + ExtendBy(h, length) <= MAX_HEAP,
         NEW found \in Finds(h, length)
  PROVE  /\ Sound(found.heap, l, {found.block}) /\ found.block \in Free(found.heap)
         /\ Length(found.heap, found.block) >= length /\ h.brk <= found.heap.brk
         /\ Keeps(h, found.heap) /\ Seconds(found.heap) \subseteq Seconds(h)
<1>1. CASE rb_lower_bound(h, length) # {}
  <2>1. PICK b \in rb_lower_bound(h, length) : found = [heap |-> rb_delete(h, b), block |-> b]
    BY <1>1 DEF Finds
  <2>2. b \in Free(h) /\ Length(h, b) >= length
    BY LowerBound
  <2> DEFINE g == rb_delete(h, b)
  <2>3. /\ h = [block |-> h.block, tree |-> h.tree, last_is_free |-> h.last_is_free, brk |-> h.brk]
        /\ h.tree = Free(h) /\ h.brk \in Nat
    BY DEF Sound, Blocks, IsHeap
  <2>4. g = [block |-> h.block, tree |-> Free(h) \ {b}, last_is_free |-> h.last_is_free,
             brk |-> h.brk]
    <3>1. [h EXCEPT !.tree = @ \ {b}]
            = [block |-> h.block, tree |-> h.tree \ {b}, last_is_free |-> h.last_is_free,
               brk |-> h.brk]
      BY ONLY <2>3
    <3> QED BY <2>3, <3>1 DEF rb_delete
  <2>5. /\ g.block = h.block /\ g.tree = Free(h) \ {b} /\ g.last_is_free = h.last_is_free
        /\ g.brk = h.brk /\ Starts(g) = Starts(h)
    BY <2>4 DEF Starts
  <2> HIDE DEF g
  <2>6. IsHeap(g)
    BY <2>3, <2>4, <2>5 DEF Sound, Blocks, IsHeap
  <2>7. /\ \A c : Length(g, c) = Length(h, c) /\ IsFree(g, c) = IsFree(h, c)
        /\ \A c : End(g, c) = End(h, c)
    BY <2>5 DEF Length, IsFree, End
  <2>8. Free(g) = Free(h)
    BY <2>5, <2>7 DEF Free
  <2>9. WellFormed(g) /\ EndToEnd(g) /\ Told(g)
    BY <2>5, <2>7 DEF Sound, Blocks, WellFormed, EndToEnd, Told
  <2>10. Held(g, l)
    BY <2>5, <2>7 DEF Sound, Held, Owns
  <2>11. Sound(g, l, {b})
    BY <2>5, <2>6, <2>8, <2>9, <2>10 DEF Sound, Blocks
  <2>12. found.heap = g /\ found.block = b
    BY <2>1 DEF g
  <2>13. Keeps(h, g)
    BY <2>5, <2>7 DEF Keeps
  <2>14. Seconds(g) = Seconds(h)
    BY <2>5, <2>8 DEF Seconds
  <2> QED BY <2>2, <2>3, <2>5, <2>7, <2>8, <2>11, <2>12, <2>13, <2>14
<1>2. CASE rb_lower_bound(h, length) = {}
  <2>1. found = [heap |-> extend(h, length), block |-> Extended(h, length)]
    BY <1>2 DEF Finds
  <2>2. \A b \in Free(h) : Length(h, b) < length
    BY <1>2, LowerBound
  <2> QED BY <1>2, <2>1, <2>2, ExtendSound
<1> QED BY <1>1, <1>2

(* rb_insert is about the tree alone.                                      *)
LEMMA InsertSound ==
  ASSUME NEW k, NEW l, NEW b \in Nat, NEW x, Blocks(k), Held(k, l), k.brk <= MAX_HEAP,
         k.tree \cup {b} = Free(k) \ x
  PROVE  /\ Sound(rb_insert(k, b), l, x) /\ Free(rb_insert(k, b)) = Free(k)
         /\ rb_insert(k, b).brk = k.brk /\ rb_insert(k, b).block = k.block
         /\ Seconds(rb_insert(k, b)) = Seconds(k)
<1> DEFINE g == rb_insert(k, b)
<1>1. k = [block |-> k.block, tree |-> k.tree, last_is_free |-> k.last_is_free, brk |-> k.brk]
  BY DEF Blocks, IsHeap
<1>2. g = [block |-> k.block, tree |-> k.tree \cup {b}, last_is_free |-> k.last_is_free,
           brk |-> k.brk]
  <2>1. [k EXCEPT !.tree = @ \cup {b}] = [block |-> k.block, tree |-> k.tree \cup {b},
                                           last_is_free |-> k.last_is_free, brk |-> k.brk]
    BY ONLY <1>1
  <2> QED BY <2>1 DEF rb_insert
<1>3. /\ g.block = k.block /\ g.tree = k.tree \cup {b} /\ g.last_is_free = k.last_is_free
      /\ g.brk = k.brk /\ Starts(g) = Starts(k)
  BY <1>2 DEF Starts
<1> HIDE DEF g
<1>4. IsHeap(g)
  BY <1>2, <1>3 DEF Blocks, IsHeap
<1>5. /\ \A c : Length(g, c) = Length(k, c) /\ IsFree(g, c) = IsFree(k, c)
      /\ \A c : End(g, c) = End(k, c)
  BY <1>3 DEF Length, IsFree, End
<1>6. Free(g) = Free(k)
  BY <1>3, <1>5 DEF Free
<1>7. WellFormed(g) /\ EndToEnd(g) /\ Told(g)
  BY <1>3, <1>5 DEF Blocks, WellFormed, EndToEnd, Told
<1>8. Held(g, l)
  BY <1>3, <1>5 DEF Held, Owns
<1>9. Seconds(g) = Seconds(k)
  BY <1>3, <1>6 DEF Seconds
<1> QED BY <1>3, <1>4, <1>6, <1>7, <1>8, <1>9 DEF Sound, Blocks, g

-----------------------------------------------------------------------------
(* mm_malloc takes the block, or cuts it in two and takes one of them.     *)

LEMMA TakeSound ==
  ASSUME NEW h, NEW l, NEW b, Sound(h, l, {b}), b \in Free(h), NEW size \in Requests,
         size <= payload_size_from_block_length(Length(h, b))
  PROVE  LET g == set_block_is_free(h, b, FALSE)
             q == Holds(get_block_payload(b), size)
         IN  /\ Sound(g, l \cup {q}, {}) /\ q \notin l /\ g.brk = h.brk
             /\ Keeps(h, g)
             /\ \A c \in Seconds(g) : c \in Seconds(h) /\ (c < b \/ c > End(h, b))
<1> DEFINE g == set_block_is_free(h, b, FALSE)
           q == Holds(get_block_payload(b), size)
           e == End(h, b)
<1>1. /\ Blocks(h) /\ Held(h, l) /\ h.tree = Free(h) \ {b} /\ h.brk <= MAX_HEAP
      /\ b \in Starts(h) /\ IsFree(h, b)
  BY DEF Sound, Free
<1>2. /\ b \in Nat /\ b % 4 = 0 /\ e \in Nat /\ e = b + Length(h, b) /\ e <= h.brk
      /\ Length(h, b) > MINIMAL_BLOCK_SIZE /\ Length(h, b) \in Nat /\ h.brk \in Nat
  BY <1>1, BlockFacts
<1>3. \A c \in Starts(h) : c \in Nat /\ (b <= c /\ c < e => c = b)
  BY <1>1, BlockFacts
<1>4. Region(h, b, e, e) /\ Recut(h, g, b, e, e, FALSE, FALSE) /\ g.tree = h.tree
  <2>1. \A f \in BOOLEAN : /\ Region(h, b, e, e) /\ Recut(h, set_block_is_free(h, b, f), b, e, e, f, f)
                           /\ set_block_is_free(h, b, f).tree = h.tree
    BY <1>1, SetFree
  <2> QED BY <2>1, Zenon
<1> HIDE DEF g
<1>5. Blocks(g)
  BY <1>1, <1>4, RecutBlocks
<1>6. Free(g) = Free(h) \ {b}
  <2>1. \A f \in BOOLEAN : Recut(h, g, b, e, e, f, f) =>
           Free(g) = {c \in Free(h) : c < b \/ c >= e}
                     \cup (IF f THEN {b} ELSE {}) \cup (IF e # e /\ f THEN {e} ELSE {})
    BY <1>1, <1>4, RecutFree
  <2>2. Free(g) = {c \in Free(h) : c < b \/ c >= e}
                     \cup (IF FALSE THEN {b} ELSE {}) \cup (IF e # e /\ FALSE THEN {e} ELSE {})
    BY <1>4, <2>1, Zenon
  <2>3. \A c \in Free(h) : (c < b \/ c >= e) <=> c # b
    BY <1>2, <1>3 DEF Free
  <2> HIDE DEF e
  <2> QED BY ONLY <2>2, <2>3
<1>7. Length(g, b) = Length(h, b) /\ ~ IsFree(g, b) /\ g.brk = h.brk
  BY <1>2, <1>4 DEF Recut, Length, IsFree
<1>8. Owns(g, q, b)
  BY <1>7 DEF Owns, Holds
<1>9. q \in [ptr : Nat, size : Requests]
  BY <1>2, PayloadOf DEF Holds
<1> HIDE DEF q, e
<1>10. Held(g, l \cup {q}) /\ q \notin l
  <2>1. Gone(h, l, b, e, {})
    BY <1>1, <1>3 DEF Gone, Owns
  <2>2. /\ b \in {b} \cup ({e} \ {e})
        /\ \A c \in {b} \cup ({e} \ {e}) : ~ IsFree(g, c) => c = b
    OBVIOUS
  <2>4. Held(g, (l \ {}) \cup {q}) /\ q \notin l \ {}
    <3>1. ASSUME NEW f \in BOOLEAN, Recut(h, g, b, e, e, f, f)
          PROVE  Held(g, (l \ {}) \cup {q}) /\ q \notin l \ {}
      BY <1>1, <1>4, <1>8, <1>9, <2>1, <2>2, <3>1, RecutHeldNew
    <3> QED BY <1>4, <3>1
  <2> QED BY <2>4
<1>11. Sound(g, l \cup {q}, {})
  BY <1>1, <1>4, <1>5, <1>6, <1>7, <1>10 DEF Sound
<1>12. Keeps(h, g)
  <2>1. \A c \in Starts(h) : b <= c /\ c < e => IsFree(h, c)
    BY <1>1, <1>3
  <2>2. ASSUME NEW f \in BOOLEAN, Recut(h, g, b, e, e, f, f) PROVE Keeps(h, g)
    BY <1>1, <1>4, <2>1, <2>2, RecutKeeps
  <2> QED BY <1>4, <2>2
<1>13. \A c \in Seconds(g) : c \in Seconds(h) /\ (c < b \/ c > e)
  <2>1. \A f \in BOOLEAN : Recut(h, g, b, e, e, f, f) =>
           \A c \in Seconds(g) : \/ c \in Seconds(h) /\ (c < b \/ c > e)
                                 \/ f
    BY <1>1, <1>4, RecutSeconds
  <2>2. \A c \in Seconds(g) : \/ c \in Seconds(h) /\ (c < b \/ c > e)
                              \/ FALSE
    BY <1>4, <2>1, Zenon
  <2> QED BY <2>2
<1> QED BY <1>7, <1>10, <1>11, <1>12, <1>13 DEF g, q, e

LEMMA SplitSound ==
  ASSUME NEW h, NEW l, NEW found, Sound(h, l, {found}), found \in Free(h),
         NEW size \in Requests,
         Splits(h, found, block_length_from_payload_size(size))
  PROVE  LET length == block_length_from_payload_size(size)
             g == split(h, found, size)
             b == IF FromEnd(size) THEN found + Length(h, found) - length ELSE found
         IN  /\ Sound(g, l, {b}) /\ b \in Free(g) /\ Length(g, b) = length
             /\ g.brk = h.brk /\ Keeps(h, g)
             /\ \A c \in Seconds(g) : c \in Seconds(h) \/ c = b \/ c = End(g, b)
<1> DEFINE length == block_length_from_payload_size(size)
           rest == Length(h, found) - length
           mid == IF FromEnd(size) THEN found + rest ELSE found + length
           hi == found + Length(h, found)
           taken == IF FromEnd(size) THEN mid ELSE found
           left == IF FromEnd(size) THEN found ELSE mid
           g == split(h, found, size)
           cut(f) == TellNext(SetTo(SetTo(h, found, mid - found, f, ToldAt(h, found)),
                                    mid, hi - mid, f, f), mid)
           k == cut(TRUE)
<1>1. /\ Blocks(h) /\ Held(h, l) /\ h.tree = Free(h) \ {found} /\ h.brk <= MAX_HEAP
      /\ found \in Starts(h) /\ IsFree(h, found)
  BY DEF Sound, Free
<1>2. /\ found \in Nat /\ found % 4 = 0 /\ Length(h, found) \in Nat /\ Length(h, found) % 4 = 0
      /\ hi = End(h, found) /\ hi \in Nat /\ hi <= h.brk /\ h.brk \in Nat
  BY <1>1, BlockFacts
<1>3. /\ length \in Nat /\ length % 4 = 0 /\ length > MINIMAL_BLOCK_SIZE
      /\ Length(h, found) >= length + MINIMAL_BLOCK_SIZE
  <2>1. size \in Nat /\ size > 4
    BY RequestsAssumption
  <2> QED BY <2>1, BlockLength DEF Splits
<1> HIDE DEF length
<1>4. /\ mid \in Nat /\ mid % 4 = 0 /\ found + MINIMAL_BLOCK_SIZE < mid
      /\ mid + MINIMAL_BLOCK_SIZE < hi /\ mid # hi
      /\ mid - found = (IF FromEnd(size) THEN rest ELSE length)
      /\ hi - mid = (IF FromEnd(size) THEN length ELSE rest)
  BY <1>2, <1>3
<1>5. Region(h, found, mid, hi)
  <2>1. Region(h, found, hi, hi)
    <3>1. Region(h, found, End(h, found), End(h, found))
      <4> HIDE DEF mid, hi
      <4>1. found <= found
        BY <1>2
      <4> QED BY <1>1, <4>1, RegionOf
    <3> QED BY <1>2, <3>1
  <2> HIDE DEF mid, hi
  <2> QED BY <1>4, <2>1 DEF Region
<1>6. Under(h, h, hi)
  BY <1>1, <1>2 DEF Under, Blocks
<1>7. g = rb_insert(k, left)
  <2>1. ToldAt(h, found) = h.block[found].previous_is_free
    BY <1>1 DEF ToldAt
  <2>2. CASE FromEnd(size)
    BY <1>4, <2>1, <2>2 DEF split, PRESERVE, length
  <2>3. CASE ~ FromEnd(size)
    BY <1>4, <2>1, <2>3 DEF split, PRESERVE, length
  <2> QED BY <2>2, <2>3
<1>8. Recut(h, k, found, mid, hi, TRUE, TRUE) /\ k.tree = h.tree
  <2> HIDE DEF mid, hi
  <2>1. \A f \in BOOLEAN : Recut(h, cut(f), found, mid, hi, f, f) /\ cut(f).tree = h.tree
    BY <1>1, <1>4, <1>5, <1>6, TwoBlocks
  <2> HIDE DEF cut
  <2> QED BY <2>1, Zenon
<1> HIDE DEF k
<1>9. \A c \in Starts(h) : c \in Nat /\ (found <= c /\ c < hi => c = found)
  <2> HIDE DEF hi, mid
  <2> SUFFICES ASSUME NEW c \in Starts(h)
               PROVE  c \in Nat /\ (found <= c /\ c < hi => c = found)
    OBVIOUS
  <2>1. c \in Nat /\ (found < c => hi <= c)
    BY <1>1, <1>2, BlockFacts
  <2> QED BY <1>2, <2>1
<1>10. Free(k) = {c \in Free(h) : c < found \/ c >= hi} \cup {found, mid}
  <2> HIDE DEF mid, hi
  <2>1. \A f \in BOOLEAN : Recut(h, k, found, mid, hi, f, f) =>
           Free(k) = {c \in Free(h) : c < found \/ c >= hi}
                     \cup (IF f THEN {found} ELSE {}) \cup (IF mid # hi /\ f THEN {mid} ELSE {})
    BY <1>1, <1>5, RecutFree
  <2>2. Free(k) = {c \in Free(h) : c < found \/ c >= hi}
                     \cup (IF TRUE THEN {found} ELSE {}) \cup (IF mid # hi /\ TRUE THEN {mid} ELSE {})
    BY <1>8, <2>1, Zenon
  <2> QED BY <1>4, <2>2
<1>11. Blocks(k)
  <2> HIDE DEF mid, hi
  <2> QED BY <1>1, <1>5, <1>8, RecutBlocks
<1>12. Held(k, l)
  <2> HIDE DEF mid, hi
  <2>1. ASSUME NEW f \in BOOLEAN, f, Recut(h, k, found, mid, hi, f, f) PROVE Held(k, l)
    BY <1>1, <1>5, <1>9, <2>1, RecutHeldSame
  <2> QED BY <1>8, <2>1
<1>13. k.brk = h.brk /\ Length(k, taken) = length
  <2>1. k.brk = h.brk
    BY <1>2, <1>8 DEF Recut
  <2>2. Length(k, found) = mid - found /\ Length(k, mid) = hi - mid
    <3> HIDE DEF mid, hi
    <3> QED BY <1>4, <1>8 DEF Recut, Length
  <2> QED BY <1>4, <2>1, <2>2
<1>14. left \in Nat /\ taken \in {found, mid} /\ left \in {found, mid} /\ taken # left
  <2> HIDE DEF mid, hi
  <2>1. found \in Nat /\ mid \in Nat /\ found # mid
    BY <1>2, <1>4
  <2> QED BY <2>1
<1> HIDE DEF left, taken, mid, hi, g
<1>15. Sound(g, l, {taken}) /\ taken \in Free(g) /\ g.brk = k.brk /\ g.block = k.block
      /\ Seconds(g) = Seconds(k)
  <2>1. \A c \in Free(h) : (c < found \/ c >= hi) <=> c # found
    BY <1>2, <1>4, <1>9 DEF Free
  <2>2. k.tree \cup {left} = Free(k) \ {taken}
    <3>1. Free(k) = (Free(h) \ {found}) \cup {found, mid}
      BY <1>10, <2>1
    <3>2. mid \notin Free(h)
      BY <1>2, <1>4, <1>9 DEF Free
    <3> QED BY <1>1, <1>8, <1>14, <3>1, <3>2
  <2>3. Sound(rb_insert(k, left), l, {taken}) /\ rb_insert(k, left).brk = k.brk
        /\ rb_insert(k, left).block = k.block /\ Free(rb_insert(k, left)) = Free(k)
        /\ Seconds(rb_insert(k, left)) = Seconds(k)
    BY <1>1, <1>11, <1>12, <1>13, <1>14, <2>2, InsertSound
  <2> QED BY <1>7, <1>10, <1>14, <2>3
<1>16. Length(g, taken) = length
  BY <1>13, <1>15 DEF Length
<1>17. taken = IF FromEnd(size) THEN found + Length(h, found) - length ELSE found
  BY <1>2, <1>3 DEF taken, mid
<1>18. Keeps(h, g)
  <2>1. \A c \in Starts(h) : found <= c /\ c < hi => IsFree(h, c)
    BY <1>1, <1>9
  <2>2. ASSUME NEW f \in BOOLEAN, Recut(h, k, found, mid, hi, f, f) PROVE Keeps(h, k)
    BY <1>1, <1>5, <2>1, <2>2, RecutKeeps
  <2>3. Keeps(h, k)
    BY <1>8, <2>2
  <2> QED BY <1>15, <2>3 DEF Keeps, Starts, IsFree, Length
<1>19. \A c \in Seconds(k) : c \in Seconds(h) \/ c = mid
  <2> SUFFICES ASSUME NEW c \in Seconds(k) PROVE c \in Seconds(h) \/ c = mid
    OBVIOUS
  <2>1. \A f \in BOOLEAN : Recut(h, k, found, mid, hi, f, f) =>
           \/ c \in Seconds(h) /\ (c < found \/ c > hi)
           \/ c = found /\ ToldAt(h, found)
           \/ c = mid
           \/ (c = hi /\ hi \in Free(h))
    BY <1>1, <1>5, RecutSeconds
  <2>2. \/ c \in Seconds(h)
        \/ c = found /\ ToldAt(h, found)
        \/ c = mid
        \/ (c = hi /\ hi \in Free(h))
    BY <1>8, <2>1
  <2>3. ToldAt(h, found) => found \in Seconds(h)
    BY <1>1 DEF ToldAt, Seconds, Free
  <2>4. hi \in Free(h) => hi \in Seconds(h)
    BY <1>1, <1>2, NextTold DEF Free
  <2> QED BY <2>2, <2>3, <2>4
<1>20. mid = taken \/ mid = End(g, taken)
  <2>1. mid = (IF FromEnd(size) THEN taken ELSE taken + length)
    BY <1>2, <1>3 DEF mid, taken
  <2> QED BY <1>16, <2>1 DEF End
<1> QED BY <1>13, <1>15, <1>16, <1>17, <1>18, <1>19, <1>20 DEF g, length

LEMMA AllocateSound ==
  ASSUME NEW h, NEW l, NEW found, Sound(h, l, {found}), found \in Free(h),
         NEW size \in Requests,
         Length(h, found) >= block_length_from_payload_size(size)
  PROVE  LET given == allocate(h, found, size)
             q == Holds(get_block_payload(given.block), size)
         IN  /\ Sound(given.heap, l \cup {q}, {}) /\ q \notin l
             /\ given.heap.brk = h.brk /\ Keeps(h, given.heap)
             /\ Seconds(given.heap) \subseteq Seconds(h)
<1> DEFINE length == block_length_from_payload_size(size)
           b == allocate(h, found, size).block
           k == IF Splits(h, found, length) THEN split(h, found, size) ELSE h
<1>1. size \in Nat /\ length \in Nat /\ size <= payload_size_from_block_length(length)
  BY RequestsAssumption, BlockLength
<1>2. b = (IF Splits(h, found, length) /\ FromEnd(size) THEN found + Length(h, found) - length
           ELSE found)
      /\ allocate(h, found, size).heap = set_block_is_free(k, b, FALSE)
  BY DEF allocate
<1>3. Sound(k, l, {b}) /\ b \in Free(k) /\ Length(k, b) >= length /\ k.brk = h.brk
      /\ Length(k, b) \in Nat /\ Keeps(h, k) /\ b \in Nat /\ End(k, b) \in Nat
      /\ \A c \in Seconds(k) : c \in Seconds(h) \/ c = b \/ c = End(k, b)
  <2>1. Sound(k, l, {b}) /\ b \in Free(k) /\ Length(k, b) >= length /\ k.brk = h.brk
        /\ Keeps(h, k)
        /\ \A c \in Seconds(k) : c \in Seconds(h) \/ c = b \/ c = End(k, b)
    <3>1. CASE Splits(h, found, length)
      <4>1. b = IF FromEnd(size) THEN found + Length(h, found) - length ELSE found
        BY <1>2, <3>1
      <4>2. k = split(h, found, size)
        BY <3>1
      <4> HIDE DEF k, b
      <4>3. LET g == split(h, found, size)
                d == IF FromEnd(size) THEN found + Length(h, found) - length ELSE found
            IN  /\ Sound(g, l, {d}) /\ d \in Free(g) /\ Length(g, d) = length
                /\ g.brk = h.brk /\ Keeps(h, g)
                /\ \A c \in Seconds(g) : c \in Seconds(h) \/ c = d \/ c = End(g, d)
        BY <3>1, SplitSound
      <4> QED BY <1>1, <4>1, <4>2, <4>3
    <3>2. CASE ~ Splits(h, found, length)
      <4>1. Keeps(h, h)
        BY DEF Keeps
      <4> QED BY <1>2, <3>2, <4>1
    <3> QED BY <3>1, <3>2
  <2> HIDE DEF k, b, length
  <2> QED BY <2>1, BlockFacts DEF Sound, Free
<1> HIDE DEF k, b, length
<1>4. size <= payload_size_from_block_length(Length(k, b))
  BY <1>1, <1>3 DEF payload_size_from_block_length
<1>5. LET g == set_block_is_free(k, b, FALSE)
          q == Holds(get_block_payload(b), size)
      IN  /\ Sound(g, l \cup {q}, {}) /\ q \notin l /\ g.brk = k.brk /\ Keeps(k, g)
          /\ \A c \in Seconds(g) : c \in Seconds(k) /\ (c < b \/ c > End(k, b))
  BY <1>3, <1>4, TakeSound
<1>6. Keeps(h, set_block_is_free(k, b, FALSE))
  BY <1>3, <1>5 DEF Keeps
<1>7. Seconds(set_block_is_free(k, b, FALSE)) \subseteq Seconds(h)
  <2> DEFINE g == set_block_is_free(k, b, FALSE)
  <2>1. \A c \in Seconds(g) : c \in Seconds(k) /\ (c < b \/ c > End(k, b))
    BY <1>5
  <2> HIDE DEF g
  <2>2. \A c \in Seconds(g) : c # b /\ c # End(k, b)
    <3>1. b \in Nat /\ End(k, b) \in Nat
      BY <1>3
    <3> SUFFICES ASSUME NEW c \in Seconds(g) PROVE c # b /\ c # End(k, b)
      OBVIOUS
    <3>2. c < b \/ c > End(k, b)
      BY <2>1
    <3>3. b <= End(k, b)
      BY <1>3 DEF End
    <3> QED BY ONLY <3>1, <3>2, <3>3
  <2>3. Seconds(g) \subseteq Seconds(h)
    BY <1>3, <2>1, <2>2
  <2> QED BY <2>3 DEF g
<1> QED BY <1>2, <1>3, <1>5, <1>6, <1>7 DEF b

-----------------------------------------------------------------------------
(* The free neighbours of a block.                                         *)

LEMMA NextIs ==
  ASSUME NEW h, Blocks(h), NEW b \in Starts(h)
  PROVE  LET next == get_next_block_if_free(h, b)
         IN  \/ next = {} /\ End(h, b) \notin Free(h)
             \/ next = {End(h, b)} /\ End(h, b) \in Free(h)
<1>1. h.brk \notin Starts(h) /\ End(h, b) = b + Length(h, b)
  BY BlockFacts
<1>2. \A n \in Starts(h) : n < h.brk
  BY BlockFacts
<1>3. get_next_block_if_free(h, b) = {n \in Free(h) : n = End(h, b)}
  BY <1>1, <1>2 DEF get_next_block_if_free, Free, IsFree
<1> QED BY <1>3

LEMMA PreviousIs ==
  ASSUME NEW h, Blocks(h), NEW b \in Starts(h)
  PROVE  LET previous == get_previous_block_if_free(h, b)
         IN  \/ previous = {} /\ ~ h.block[b].previous_is_free
             \/ \E p \in Free(h) : previous = {p} /\ End(h, p) = b
<1>1. \A p \in Starts(h) : End(h, p) = p + Length(h, p)
  BY BlockFacts
<1>2. get_previous_block_if_free(h, b)
        = {p \in Starts(h) : h.block[b].previous_is_free /\ End(h, p) = b}
  BY <1>1 DEF get_previous_block_if_free
<1>3. CASE ~ h.block[b].previous_is_free
  BY <1>2, <1>3
<1>4. CASE h.block[b].previous_is_free
  <2>1. b # HEAP_HEADER_SIZE
    BY <1>4 DEF Blocks, Told
  <2>2. PICK p \in Starts(h) : End(h, p) = b
    BY <2>1 DEF Blocks, EndToEnd
  <2>3. b # h.brk
    BY BlockFacts
  <2>4. p \in Free(h)
    BY <1>4, <2>2, <2>3 DEF Blocks, Told, Free
  <2>5. ASSUME NEW q \in Starts(h), End(h, q) = b PROVE q = p
    <3>1. /\ p \in Nat /\ q \in Nat
          /\ q < p => End(h, q) <= p
          /\ p < q => End(h, p) <= q
          /\ p < End(h, p) /\ q < End(h, q)
      <4>1. /\ p \in Nat /\ q \in Nat
            /\ q < p => End(h, q) <= p
            /\ p < q => End(h, p) <= q
        BY BlockFacts
      <4>2. /\ Length(h, p) \in Nat /\ Length(h, p) > 0 /\ End(h, p) = p + Length(h, p)
            /\ Length(h, q) \in Nat /\ Length(h, q) > 0 /\ End(h, q) = q + Length(h, q)
        BY BlockFacts
      <4> QED BY <4>1, <4>2
    <3> QED BY <2>2, <2>5, <3>1
  <2> QED BY <1>2, <1>4, <2>2, <2>4, <2>5
<1> QED BY <1>3, <1>4

(* The region that mm_free merges.                                         *)
LEMMA Merged ==
  ASSUME NEW h, Blocks(h), NEW b \in Starts(h),
         NEW previous, previous \in {{}, get_previous_block_if_free(h, b)},
         NEW next, next \in {{}, get_next_block_if_free(h, b)}
  PROVE  LET start == b - Neighbour(h, previous)
             end   == End(h, b) + Neighbour(h, next)
         IN  /\ start \in Starts(h) /\ start <= b /\ b < end /\ end \in Nat
             /\ previous = {} => start = b /\ Neighbour(h, previous) = 0
             /\ previous # {} => /\ previous = {start} /\ start \in Free(h) /\ End(h, start) = b
                                 /\ Neighbour(h, previous) = Length(h, start)
             /\ next = {} => end = End(h, b) /\ Neighbour(h, next) = 0
             /\ next # {} => /\ next = {End(h, b)} /\ End(h, b) \in Free(h)
                             /\ Neighbour(h, next) = Length(h, End(h, b))
             /\ \E c \in Starts(h) : b <= c /\ End(h, c) = end
             /\ \A c \in Starts(h) : start <= c /\ c < end <=> c \in {b} \cup previous \cup next
             /\ previous \cup next \subseteq Free(h)
<1> DEFINE start == b - Neighbour(h, previous)
           end   == End(h, b) + Neighbour(h, next)
           e == End(h, b)
<1>1. \A c \in Starts(h) : /\ c \in Nat /\ Length(h, c) \in Nat /\ Length(h, c) > 0
                           /\ End(h, c) = c + Length(h, c) /\ End(h, c) \in Nat
  BY BlockFacts
<1>2. \A c, d \in Starts(h) : c < d => End(h, c) <= d
  BY BlockFacts
<1>3. /\ start \in Starts(h) /\ start <= b
      /\ previous = {} => start = b /\ Neighbour(h, previous) = 0
      /\ previous # {} => /\ previous = {start} /\ start \in Free(h) /\ End(h, start) = b
                          /\ Neighbour(h, previous) = Length(h, start)
  <2>1. CASE previous = {}
    <3>1. Neighbour(h, previous) = 0
      BY <2>1 DEF Neighbour
    <3> QED BY <1>1, <2>1, <3>1
  <2>2. CASE previous # {}
    <3>1. PICK p \in Free(h) : previous = {p} /\ End(h, p) = b
      BY <2>2, PreviousIs
    <3>2. p \in Starts(h)
      BY DEF Free
    <3>3. Neighbour(h, previous) = Length(h, p)
      BY <3>1 DEF Neighbour
    <3>4. start = p /\ p <= b
      BY <1>1, <3>1, <3>2, <3>3
    <3> QED BY <2>2, <3>1, <3>2, <3>3, <3>4
  <2> QED BY <2>1, <2>2
<1>4. /\ next = {} => end = e /\ Neighbour(h, next) = 0
      /\ next # {} => /\ next = {e} /\ e \in Free(h) /\ Neighbour(h, next) = Length(h, e)
                      /\ end = End(h, e) /\ e \in Starts(h)
  <2>1. CASE next = {}
    <3>1. Neighbour(h, next) = 0
      BY <2>1 DEF Neighbour
    <3> QED BY <1>1, <2>1, <3>1
  <2>2. CASE next # {}
    <3>1. next = {e} /\ e \in Free(h)
      BY <2>2, NextIs
    <3>2. e \in Starts(h)
      BY <3>1 DEF Free
    <3>3. Neighbour(h, next) = Length(h, e)
      BY <3>1 DEF Neighbour
    <3> QED BY <1>1, <2>2, <3>1, <3>2, <3>3
  <2> QED BY <2>1, <2>2
<1>5. b \in Nat /\ e \in Nat /\ b < e
  BY <1>1
<1>6. e <= end /\ end \in Nat /\ \E c \in Starts(h) : b <= c /\ End(h, c) = end
  <2>1. CASE next = {}
    BY <1>4, <1>5, <2>1
  <2>2. CASE next # {}
    <3> HIDE DEF e, end
    <3>1. e <= end /\ end \in Nat
      BY <1>1, <1>4, <1>5, <2>2
    <3> QED BY <1>4, <1>5, <2>2, <3>1
  <2> QED BY <2>1, <2>2
<1>7. ASSUME NEW c \in Starts(h)
      PROVE  start <= c /\ c < end <=> c \in {b} \cup previous \cup next
  <2> HIDE DEF start, end, e
  <2>1. c \in Nat /\ start \in Nat
    BY <1>1, <1>3
  <2>2. c < b => (start <= c <=> c \in previous)
    <3>1. previous # {} /\ start < c /\ c < b => FALSE
      BY <1>2, <1>3, <1>5, <2>1
    <3>2. previous # {} => start < b
      BY <1>1, <1>3
    <3> QED BY <1>3, <1>5, <2>1, <3>1, <3>2
  <2>3. c > b => (c < end <=> c \in next)
    <3>1. c > b => c >= e
      BY <1>2 DEF e
    <3>2. next # {} /\ c > e => c >= end
      BY <1>2, <1>4
    <3>3. next # {} => e < end
      BY <1>1, <1>4
    <3> QED BY <1>4, <1>5, <1>6, <2>1, <3>1, <3>2, <3>3
  <2>4. c \in previous => c < b
    BY <1>1, <1>3
  <2>5. c \in next => c > b
    BY <1>4, <1>5
  <2> QED BY <1>3, <1>5, <1>6, <2>1, <2>2, <2>3, <2>4, <2>5
<1> QED BY <1>3, <1>4, <1>5, <1>6, <1>7

-----------------------------------------------------------------------------
(* mm_free.                                                                *)

LEMMA ReleaseSound ==
  ASSUME NEW h, NEW l, Sound(h, l, {}), NEW x \in l, NEW b \in Starts(h), Owns(h, x, b)
  PROVE  /\ Sound(release(h, b), l \ {x}, {}) /\ release(h, b).brk = h.brk
         /\ Seconds(release(h, b)) \subseteq Seconds(h)
<1> DEFINE previous == get_previous_block_if_free(h, b)
           next == get_next_block_if_free(h, b)
           start == b - Neighbour(h, previous)
           end == End(h, b) + Neighbour(h, next)
           loose == [h EXCEPT !.tree = @ \ (previous \cup next)]
           made(f) == IF previous \cup next = {} THEN set_block_is_free(h, b, f)
                      ELSE TellNext(PRESERVE(loose, start, end - start, f), start)
           k == made(TRUE)
<1>1. Blocks(h) /\ Held(h, l) /\ h.tree = Free(h) /\ h.brk <= MAX_HEAP /\ ~ IsFree(h, b)
  BY DEF Sound, Owns
<1>2. /\ start \in Starts(h) /\ start <= b /\ b < end /\ end \in Nat
      /\ previous = {} => start = b /\ Neighbour(h, previous) = 0
      /\ previous # {} => previous = {start}
      /\ next = {} => end = End(h, b) /\ Neighbour(h, next) = 0
      /\ next # {} => next = {End(h, b)} /\ Neighbour(h, next) = Length(h, End(h, b))
      /\ \E c \in Starts(h) : b <= c /\ End(h, c) = end
      /\ \A c \in Starts(h) : start <= c /\ c < end <=> c \in {b} \cup previous \cup next
      /\ previous \cup next \subseteq Free(h)
  BY <1>1, Merged
<1>3. /\ b \in Nat /\ start \in Nat /\ End(h, b) = b + Length(h, b) /\ Length(h, b) \in Nat
      /\ end <= h.brk /\ h.brk \in Nat
  <2> HIDE DEF previous, next, start, end
  <2> QED BY <1>1, <1>2, BlockFacts
<1>4. release(h, b) = rb_insert(k, start)
  <2>1. start = IF previous = {} THEN b ELSE CHOOSE p \in previous : TRUE
    <3> HIDE DEF previous, start
    <3> QED BY <1>2
  <2>2. end = IF next = {} THEN b + Length(h, b)
              ELSE b + Length(h, b) + Length(h, CHOOSE n \in next : TRUE)
    <3>1. CASE next = {}
      BY <1>2, <1>3, <3>1
    <3>2. CASE next # {}
      BY <1>3, <3>2 DEF Neighbour
    <3> QED BY <3>1, <3>2
  <2> HIDE DEF start, end, previous, next
  <2> QED BY <2>1, <2>2 DEF release, previous, next
<1>5. Region(h, start, end, end)
  <2> HIDE DEF previous, next, start, end
  <2>1. PICK c \in Starts(h) : b <= c /\ End(h, c) = end
    BY <1>2
  <2>2. start <= c
    BY <1>1, <1>2, <1>3, <2>1, BlockFacts
  <2> QED BY <1>1, <1>2, <2>1, <2>2, RegionOf
<1>6. loose = [block |-> h.block, tree |-> h.tree \ (previous \cup next),
               last_is_free |-> h.last_is_free, brk |-> h.brk]
  <2>1. h = [block |-> h.block, tree |-> h.tree, last_is_free |-> h.last_is_free, brk |-> h.brk]
    BY <1>1 DEF Blocks, IsHeap
  <2> HIDE DEF previous, next
  <2> QED BY ONLY <2>1 DEF loose
<1>7. Under(h, loose, end)
  <2>1. /\ loose.block = h.block /\ loose.last_is_free = h.last_is_free /\ loose.brk = h.brk
        /\ loose.tree \subseteq h.tree /\ Starts(loose) = Starts(h)
    <3> HIDE DEF previous, next
    <3> QED BY <1>6 DEF Starts
  <2>2. IsHeap(loose)
    <3> HIDE DEF previous, next
    <3> QED BY <1>1, <1>6, <2>1 DEF Blocks, IsHeap
  <2> HIDE DEF loose, end
  <2> QED BY <1>2, <1>3, <2>1, <2>2 DEF Under
<1>8. \A f \in BOOLEAN : /\ Recut(h, made(f), start, end, end, f, f)
                         /\ made(f).tree = h.tree \ (previous \cup next)
  <2> TAKE f \in BOOLEAN
  <2>1. CASE previous \cup next = {}
    <3>1. made(f) = set_block_is_free(h, b, f) /\ start = b /\ end = End(h, b)
      <4> HIDE DEF start, end
      <4> QED BY <1>2, <2>1
    <3> HIDE DEF made, start, end, previous, next
    <3>2. Recut(h, made(f), b, End(h, b), End(h, b), f, f) /\ made(f).tree = h.tree
      BY <1>1, <3>1, SetFree
    <3> QED BY <2>1, <3>1, <3>2
  <2>2. CASE previous \cup next # {}
    <3>1. made(f) = TellNext(PRESERVE(loose, start, end - start, f), start)
      BY <2>2
    <3>2. ToldAt(h, start) = loose.block[start].previous_is_free
      <4> HIDE DEF loose, start
      <4> QED BY <1>2, <1>7 DEF ToldAt, Under
    <3>3. loose.tree = h.tree \ (previous \cup next)
      BY <1>6
    <3> HIDE DEF made, start, end, previous, next, loose
    <3>4. made(f) = TellNext(SetTo(loose, start, end - start, f, ToldAt(h, start)), start)
      BY <3>1, <3>2 DEF PRESERVE
    <3>5. Recut(h, made(f), start, end, end, f, f) /\ made(f).tree = loose.tree
      BY <1>1, <1>5, <1>7, <3>4, OneBlock
    <3> QED BY <3>3, <3>5
  <2> QED BY <2>1, <2>2
<1>9. Recut(h, k, start, end, end, TRUE, TRUE) /\ k.tree = h.tree \ (previous \cup next)
  <2> HIDE DEF made, start, end, previous, next
  <2> QED BY <1>8, Zenon
<1> HIDE DEF k, made, start, end, previous, next, loose
<1>10. Blocks(k)
  BY <1>1, <1>5, <1>9, RecutBlocks
<1>11. Free(k) = {c \in Free(h) : c < start \/ c >= end} \cup {start}
  <2>1. Blocks(h) /\ Recut(h, k, start, end, end, TRUE, TRUE)
    BY ONLY <1>1, <1>9
  <2>2. FreedIs(h, k, start, end)
    BY <1>5, <2>1, RecutFreed, Zenon
  <2> QED BY <2>2, Zenon DEF FreedIs
<1>12. k.tree \cup {start} = Free(k) \ {}
  <2>1. \A c \in Free(h) : c \in Starts(h) /\ c \in Nat /\ c # b
    BY <1>1, BlockFacts DEF Free
  <2>2. ASSUME NEW c \in Free(h)
        PROVE  (c < start \/ c >= end) <=> c \notin previous \cup next
    <3>1. start <= c /\ c < end <=> c \in previous \cup next
      BY <1>2, <2>1
    <3> QED BY <1>2, <1>3, <2>1, <3>1
  <2> QED BY <1>1, <1>9, <1>11, <2>2
<1>13. Held(k, l \ {x})
  <2>1. \A c \in Starts(h) : start <= c /\ c < end /\ c # b => IsFree(h, c)
    BY <1>2 DEF Free
  <2>2. start <= b /\ b < end
    BY <1>2
  <2> QED BY <1>1, <1>5, <1>9, <2>1, <2>2, RecutHeldGone
<1>14. k.brk = h.brk
  BY <1>2, <1>3, <1>9 DEF Recut
<1>15. Seconds(k) \subseteq Seconds(h)
  <2>1. Quiet(h, start, end, end, TRUE, TRUE)
    <3>1. ToldAt(h, start) => start \in Free(h)
      <4>1. previous = {} => ~ h.block[b].previous_is_free
        BY <1>1, PreviousIs DEF previous
      <4> QED BY <1>2, <4>1 DEF ToldAt
    <3>2. end \in Free(h) => end \in Seconds(h)
      <4>1. next = {} => End(h, b) \notin Free(h)
        BY <1>1, NextIs DEF next
      <4>2. next # {} => end = End(h, End(h, b)) /\ End(h, b) \in Free(h)
        <5>1. next # {} => End(h, b) \in Free(h)
          BY <1>2
        <5> QED BY <1>1, <1>2, <5>1, BlockFacts DEF end, Free
      <4> QED BY <1>1, <1>2, <4>1, <4>2, NextTold
    <3> QED BY <3>1, <3>2 DEF Quiet
  <2>2. \A f \in BOOLEAN : Recut(h, k, start, end, end, f, f) =>
           (Quiet(h, start, end, end, f, f) => Seconds(k) \subseteq Seconds(h))
    BY <1>1, <1>5, RecutQuiet
  <2> QED BY <1>9, <2>1, <2>2, Zenon
<1>16. /\ Sound(rb_insert(k, start), l \ {x}, {})
       /\ rb_insert(k, start).brk = k.brk /\ Seconds(rb_insert(k, start)) = Seconds(k)
  BY <1>1, <1>3, <1>10, <1>12, <1>13, <1>14, InsertSound
<1> QED BY <1>4, <1>14, <1>15, <1>16

-----------------------------------------------------------------------------
(* mm_realloc.                                                             *)

(* The payload keeps its block, which is large enough.                     *)
LEMMA KeepSound ==
  ASSUME NEW h, NEW l, Sound(h, l, {}), NEW p \in l, NEW b \in Starts(h), Owns(h, p, b),
         NEW size \in Requests, size <= payload_size_from_block_length(Length(h, b))
  PROVE  LET q == Holds(get_block_payload(b), size)
         IN  Sound(h, (l \ {p}) \cup {q}, {}) /\ q \notin l \ {p}
<1> DEFINE q == Holds(get_block_payload(b), size)
           l2 == (l \ {p}) \cup {q}
<1>1. /\ Blocks(h) /\ Held(h, l) /\ h.tree = Free(h) \ {} /\ h.brk <= MAX_HEAP
      /\ ~ IsFree(h, b) /\ p.ptr = get_block_payload(b)
  BY DEF Sound, Owns
<1>2. Owns(h, q, b) /\ q.ptr = p.ptr /\ q \in [ptr : Nat, size : Requests]
  <2>1. b \in Nat /\ b % 4 = 0
    BY <1>1, BlockFacts
  <2> QED BY <1>1, <2>1, PayloadOf DEF Owns, Holds
<1> HIDE DEF q
<1>3. \A r \in l : r.ptr = p.ptr => r = p
  BY <1>1 DEF Held
<1>4. q \notin l \ {p}
  BY <1>2, <1>3
<1>5. IsFiniteSet(l2)
  BY <1>1, FS_RemoveElement, FS_AddElement DEF Held
<1>6. \A r \in l2 : \E c \in Starts(h) : Owns(h, r, c)
  BY <1>1, <1>2 DEF Held
<1>7. ASSUME NEW c \in Starts(h), ~ IsFree(h, c) PROVE \E r \in l2 : Owns(h, r, c)
  <2>1. PICK r \in l : Owns(h, r, c)
    BY <1>1, <1>7 DEF Held
  <2>2. CASE r = p
    <3>1. c = b
      BY <1>1, <2>1, <2>2, PayloadsApart DEF Owns
    <3> QED BY <1>2, <3>1
  <2>3. CASE r # p
    BY <2>1, <2>3
  <2> QED BY <2>2, <2>3
<1>8. \A r, s \in l2 : r.ptr = s.ptr => r = s
  BY <1>1, <1>2, <1>3 DEF Held
<1>9. l2 \subseteq [ptr : Nat, size : Requests]
  BY <1>1, <1>2 DEF Held
<1>10. Held(h, l2)
  BY <1>5, <1>6, <1>7, <1>8, <1>9 DEF Held
<1> QED BY <1>1, <1>4, <1>10 DEF Sound, q

(* A payload of the program, its block, and the free blocks beside it that *)
(* are made one with it.                                                   *)
Around(h, l, p, b, lo, hi, x) ==
  /\ Sound(h, l, {}) /\ p \in l /\ b \in Starts(h) /\ Owns(h, p, b)
  /\ \A c \in Starts(h) : lo <= c /\ c < hi <=> c \in {b} \cup x
  /\ x \subseteq Free(h)

LEMMA AroundGone ==
  ASSUME NEW h, NEW l, NEW p, NEW b, NEW lo, NEW hi, NEW x, Around(h, l, p, b, lo, hi, x)
  PROVE  /\ Gone(h, l, lo, hi, {p})
         /\ \A c \in Free(h) : ~ (lo <= c /\ c < hi) <=> c \notin x
<1>1. Held(h, l) /\ Blocks(h) /\ b \in Starts(h) /\ Owns(h, p, b) /\ p \in l
  BY DEF Around, Sound
<1>2. \A c \in Starts(h) : lo <= c /\ c < hi <=> c \in {b} \cup x
  BY DEF Around
<1>3. x \subseteq Free(h)
  BY DEF Around
<1>4. Gone(h, l, lo, hi, {p})
  <2> SUFFICES ASSUME NEW r \in l, NEW c \in Starts(h), Owns(h, r, c)
               PROVE  r = p <=> lo <= c /\ c < hi
    BY DEF Gone
  <2>1. lo <= c /\ c < hi => c = b
    BY <1>2, <1>3 DEF Owns, Free
  <2>2. lo <= b /\ b < hi
    BY <1>1, <1>2
  <2>3. c = b => r = p
    BY <1>1 DEF Owns, Held
  <2>4. r = p => c = b
    BY <1>1, PayloadsApart DEF Owns
  <2> QED BY <2>1, <2>2, <2>3, <2>4
<1>5. b \notin Free(h)
  BY <1>1 DEF Owns, Free
<1> QED BY <1>2, <1>4, <1>5 DEF Free

(* They become one block, in use.                                          *)
LEMMA ResizedOne ==
  ASSUME NEW h, NEW k, NEW l, NEW p, NEW b, NEW lo, NEW hi, NEW x,
         Around(h, l, p, b, lo, hi, x), Region(h, lo, hi, hi),
         Under(h, k, hi), k.tree = h.tree \ x, hi <= MAX_HEAP,
         NEW size \in Requests, size <= payload_size_from_block_length(hi - lo)
  PROVE  LET g == TellNext(SetTo(k, lo, hi - lo, FALSE, ToldAt(h, lo)), lo)
             q == Holds(get_block_payload(lo), size)
         IN  /\ Sound(g, (l \ {p}) \cup {q}, {}) /\ q \notin l \ {p}
             /\ h.brk <= g.brk /\ Seconds(g) \subseteq Seconds(h)
<1> DEFINE made(f) == TellNext(SetTo(k, lo, hi - lo, f, ToldAt(h, lo)), lo)
           g == made(FALSE)
           q == Holds(get_block_payload(lo), size)
<1>1. /\ Blocks(h) /\ Held(h, l) /\ h.tree = Free(h) /\ h.brk <= MAX_HEAP
      /\ Gone(h, l, lo, hi, {p}) /\ Placed(h, lo, hi, hi)
      /\ \A c \in Free(h) : ~ (lo <= c /\ c < hi) <=> c \notin x
  <2>1. Blocks(h) /\ Held(h, l) /\ h.tree = Free(h) /\ h.brk <= MAX_HEAP
    BY DEF Around, Sound
  <2>2. /\ Gone(h, l, lo, hi, {p})
        /\ \A c \in Free(h) : ~ (lo <= c /\ c < hi) <=> c \notin x
    BY AroundGone
  <2> QED BY <2>1, <2>2, RegionPlaced
<1>2. Recut(h, g, lo, hi, hi, FALSE, FALSE) /\ g.tree = Free(h) \ x
  <2>1. \A f \in BOOLEAN : Recut(h, made(f), lo, hi, hi, f, f) /\ made(f).tree = k.tree
    BY <1>1, OneBlock
  <2> HIDE DEF made
  <2>2. Recut(h, g, lo, hi, hi, FALSE, FALSE) /\ g.tree = k.tree
    BY <2>1, Zenon
  <2> QED BY <1>1, <2>2
<1> HIDE DEF g, made
<1>3. Blocks(g)
  BY <1>1, <1>2, RecutBlocks
<1>4. lo \in Nat /\ lo % 4 = 0 /\ hi \in Nat /\ h.brk \in Nat
  BY <1>1 DEF Placed
<1>5. Free(g) = Free(h) \ x
  <2>1. \A f \in BOOLEAN : Recut(h, g, lo, hi, hi, f, f) =>
           Free(g) = {c \in Free(h) : c < lo \/ c >= hi}
                     \cup (IF f THEN {lo} ELSE {}) \cup (IF hi # hi /\ f THEN {hi} ELSE {})
    BY <1>1, RecutFree
  <2>2. Free(g) = {c \in Free(h) : c < lo \/ c >= hi}
                     \cup (IF FALSE THEN {lo} ELSE {}) \cup (IF hi # hi /\ FALSE THEN {hi} ELSE {})
    BY <1>2, <2>1, Zenon
  <2>3. \A c \in Free(h) : c \in Nat
    BY <1>1 DEF Placed, Free
  <2>4. \A c \in Free(h) : (c < lo \/ c >= hi) <=> c \notin x
    BY <1>1, <1>4, <2>3
  <2> QED BY ONLY <2>2, <2>4
<1>6. Length(g, lo) = hi - lo /\ ~ IsFree(g, lo) /\ h.brk <= g.brk /\ g.brk <= MAX_HEAP
  BY <1>1, <1>2, <1>4 DEF Recut, Length, IsFree
<1>7. Owns(g, q, lo) /\ q \in [ptr : Nat, size : Requests]
  BY <1>4, <1>6, PayloadOf DEF Owns, Holds
<1> HIDE DEF q
<1>8. Held(g, (l \ {p}) \cup {q}) /\ q \notin l \ {p}
  <2> DEFINE gone == {p}
  <2>1. Gone(h, l, lo, hi, gone)
    BY <1>1
  <2>2. /\ lo \in {lo} \cup ({hi} \ {hi})
        /\ \A c \in {lo} \cup ({hi} \ {hi}) : ~ IsFree(g, c) => c = lo
    OBVIOUS
  <2> HIDE DEF gone
  <2>3. ASSUME NEW f \in BOOLEAN, Recut(h, g, lo, hi, hi, f, f)
        PROVE  Held(g, (l \ gone) \cup {q}) /\ q \notin l \ gone
    BY <1>1, <1>7, <2>1, <2>2, <2>3, RecutHeldNew
  <2> QED BY <1>2, <2>3 DEF gone
<1>9. Seconds(g) \subseteq Seconds(h)
  <2>1. \A f, f2 \in BOOLEAN : Recut(h, g, lo, hi, hi, f, f2) =>
           \A c \in Seconds(g) : c \in Seconds(h) \/ f \/ f2
    BY <1>1, RecutSeconds
  <2>2. \A c \in Seconds(g) : c \in Seconds(h) \/ FALSE \/ FALSE
    BY <1>2, <2>1, Zenon
  <2> QED BY <2>2
<1> QED BY <1>2, <1>3, <1>5, <1>6, <1>8, <1>9 DEF Sound, g, q, made

(* They become two, the first in use and the second free.                  *)
LEMMA ResizedTwo ==
  ASSUME NEW h, NEW k, NEW l, NEW p, NEW b, NEW lo, NEW mid, NEW hi, NEW x,
         Around(h, l, p, b, lo, hi, x), Region(h, lo, mid, hi), mid # hi,
         Under(h, k, hi), k.tree = h.tree \ x, hi <= MAX_HEAP,
         NEW size \in Requests, size <= payload_size_from_block_length(mid - lo)
  PROVE  LET g == rb_insert(TellNext(SetTo(SetTo(k, lo, mid - lo, FALSE, ToldAt(h, lo)),
                                           mid, hi - mid, TRUE, FALSE), mid), mid)
             q == Holds(get_block_payload(lo), size)
         IN  /\ Sound(g, (l \ {p}) \cup {q}, {}) /\ q \notin l \ {p}
             /\ h.brk <= g.brk
             /\ \A c \in Seconds(g) : c \in Seconds(h) \/ (c = hi /\ hi \in Free(h))
<1> DEFINE made(f, f2) == TellNext(SetTo(SetTo(k, lo, mid - lo, f, ToldAt(h, lo)),
                                         mid, hi - mid, f2, f), mid)
           a == made(FALSE, TRUE)
           q == Holds(get_block_payload(lo), size)
<1>1. /\ Blocks(h) /\ Held(h, l) /\ h.tree = Free(h) /\ h.brk <= MAX_HEAP
      /\ Gone(h, l, lo, hi, {p}) /\ Placed(h, lo, mid, hi)
      /\ \A c \in Free(h) : ~ (lo <= c /\ c < hi) <=> c \notin x
  <2>1. Blocks(h) /\ Held(h, l) /\ h.tree = Free(h) /\ h.brk <= MAX_HEAP
    BY DEF Around, Sound
  <2>2. /\ Gone(h, l, lo, hi, {p})
        /\ \A c \in Free(h) : ~ (lo <= c /\ c < hi) <=> c \notin x
    BY AroundGone
  <2> QED BY <2>1, <2>2, RegionPlaced
<1>2. Recut(h, a, lo, mid, hi, FALSE, TRUE) /\ a.tree = Free(h) \ x
  <2>1. \A f, f2 \in BOOLEAN : /\ Recut(h, made(f, f2), lo, mid, hi, f, f2)
                               /\ made(f, f2).tree = k.tree
    BY <1>1, TwoBlocks
  <2> HIDE DEF made
  <2>2. Recut(h, a, lo, mid, hi, FALSE, TRUE) /\ a.tree = k.tree
    BY <2>1, Zenon
  <2> QED BY <1>1, <2>2
<1> HIDE DEF a, made
<1>3. Blocks(a)
  <2>1. \A f, f2 \in BOOLEAN : Recut(h, a, lo, mid, hi, f, f2) => Blocks(a)
    BY <1>1, RecutBlocks
  <2> QED BY <1>2, <2>1
<1>4. lo \in Nat /\ lo % 4 = 0 /\ hi \in Nat /\ h.brk \in Nat /\ mid \in Nat /\ lo < mid
  BY <1>1 DEF Placed
<1>5. Free(a) = (Free(h) \ x) \cup {mid}
  <2>1. \A f, f2 \in BOOLEAN : Recut(h, a, lo, mid, hi, f, f2) =>
           Free(a) = {c \in Free(h) : c < lo \/ c >= hi}
                     \cup (IF f THEN {lo} ELSE {}) \cup (IF mid # hi /\ f2 THEN {mid} ELSE {})
    BY <1>1, RecutFree
  <2>2. Free(a) = {c \in Free(h) : c < lo \/ c >= hi}
                     \cup (IF FALSE THEN {lo} ELSE {}) \cup (IF mid # hi /\ TRUE THEN {mid} ELSE {})
    BY <1>2, <2>1, Zenon
  <2>3. \A c \in Free(h) : c \in Nat
    BY <1>1 DEF Placed, Free
  <2>4. \A c \in Free(h) : (c < lo \/ c >= hi) <=> c \notin x
    BY <1>1, <1>4, <2>3
  <2> QED BY ONLY <2>2, <2>4, mid # hi
<1>6. /\ Length(a, lo) = mid - lo /\ ~ IsFree(a, lo) /\ h.brk <= a.brk /\ a.brk <= MAX_HEAP
      /\ IsFree(a, mid)
  BY <1>1, <1>2, <1>4 DEF Recut, Length, IsFree
<1>7. Owns(a, q, lo) /\ q \in [ptr : Nat, size : Requests]
  BY <1>4, <1>6, PayloadOf DEF Owns, Holds
<1> HIDE DEF q
<1>8. Held(a, (l \ {p}) \cup {q}) /\ q \notin l \ {p}
  <2> DEFINE gone == {p}
  <2>1. Gone(h, l, lo, hi, gone)
    BY <1>1
  <2>2. /\ lo \in {lo} \cup ({mid} \ {hi})
        /\ \A c \in {lo} \cup ({mid} \ {hi}) : ~ IsFree(a, c) => c = lo
    BY <1>6
  <2> HIDE DEF gone
  <2>3. ASSUME NEW f \in BOOLEAN, NEW f2 \in BOOLEAN, Recut(h, a, lo, mid, hi, f, f2)
        PROVE  Held(a, (l \ gone) \cup {q}) /\ q \notin l \ gone
    BY <1>1, <1>7, <2>1, <2>2, <2>3, RecutHeldNew
  <2> QED BY <1>2, <2>3 DEF gone
<1>9. a.tree \cup {mid} = Free(a) \ {}
  BY <1>2, <1>5
<1>10. /\ Sound(rb_insert(a, mid), (l \ {p}) \cup {q}, {})
       /\ rb_insert(a, mid).brk = a.brk /\ Seconds(rb_insert(a, mid)) = Seconds(a)
  BY <1>3, <1>4, <1>6, <1>8, <1>9, InsertSound
<1>11. \A c \in Seconds(a) : c \in Seconds(h) \/ (c = hi /\ hi \in Free(h))
  <2>1. \A f, f2 \in BOOLEAN : Recut(h, a, lo, mid, hi, f, f2) =>
           \A c \in Seconds(a) : \/ c \in Seconds(h) \/ (c = hi /\ hi \in Free(h))
                                 \/ f
    BY <1>1, RecutSeconds
  <2>2. \A c \in Seconds(a) : \/ c \in Seconds(h) \/ (c = hi /\ hi \in Free(h))
                              \/ FALSE
    BY <1>2, <2>1, Zenon
  <2> QED BY <2>2
<1> QED BY <1>6, <1>8, <1>10, <1>11 DEF a, q, made

(* The blocks beside a payload's that mm_realloc takes out of the tree.    *)
LEMMA Beside ==
  ASSUME NEW h, NEW l, Sound(h, l, {}), NEW p \in l, NEW b \in Starts(h), Owns(h, p, b),
         NEW previous, previous \in {{}, get_previous_block_if_free(h, b)},
         NEW next, next \in {{}, get_next_block_if_free(h, b)}
  PROVE  LET lo == b - Neighbour(h, previous)
             hi == b + Length(h, b) + Neighbour(h, next)
         IN  /\ Around(h, l, p, b, lo, hi, previous \cup next)
             /\ Region(h, lo, hi, hi) /\ hi <= h.brk
             /\ lo \in Starts(h) /\ lo \in Nat /\ lo % 4 = 0 /\ hi \in Nat /\ hi % 4 = 0
             /\ Neighbour(h, previous) \in Nat /\ Neighbour(h, next) \in Nat
             /\ next = {} => Neighbour(h, next) = 0
             /\ next # {} => Neighbour(h, next) > MINIMAL_BLOCK_SIZE
             /\ previous = {} => Neighbour(h, previous) = 0
             /\ next = get_next_block_if_free(h, b) /\ hi \in Free(h) => hi \in Seconds(h)
             /\ previous # {} => lo < b
<1> DEFINE lo == b - Neighbour(h, previous)
           hi == End(h, b) + Neighbour(h, next)
<1>1. Blocks(h)
  BY DEF Sound
<1>2. /\ lo \in Starts(h) /\ lo <= b /\ b < hi /\ hi \in Nat
      /\ previous = {} => lo = b /\ Neighbour(h, previous) = 0
      /\ previous # {} => Neighbour(h, previous) = Length(h, lo)
      /\ next = {} => hi = End(h, b) /\ Neighbour(h, next) = 0
      /\ next # {} => End(h, b) \in Free(h) /\ Neighbour(h, next) = Length(h, End(h, b))
      /\ \E c \in Starts(h) : b <= c /\ End(h, c) = hi
      /\ \A c \in Starts(h) : lo <= c /\ c < hi <=> c \in {b} \cup previous \cup next
      /\ previous \cup next \subseteq Free(h)
  BY <1>1, Merged
<1> HIDE DEF lo, hi
<1>3. End(h, b) = b + Length(h, b)
  BY <1>1, BlockFacts
<1>4. PICK c \in Starts(h) : b <= c /\ End(h, c) = hi
  BY <1>2
<1>5. /\ lo \in Nat /\ b \in Nat /\ c \in Nat /\ lo % 4 = 0 /\ hi % 4 = 0 /\ hi <= h.brk
      /\ \A d \in Starts(h) : Length(h, d) \in Nat /\ Length(h, d) > MINIMAL_BLOCK_SIZE
  BY <1>1, <1>2, <1>4, BlockFacts
<1>6. Region(h, lo, hi, hi)
  <2>1. lo <= c
    BY <1>2, <1>4, <1>5
  <2> QED BY <1>1, <1>2, <1>4, <2>1, RegionOf
<1>7. Around(h, l, p, b, lo, hi, previous \cup next)
  BY <1>2 DEF Around
<1>8. /\ Neighbour(h, previous) \in Nat /\ Neighbour(h, next) \in Nat
      /\ next # {} => Neighbour(h, next) > MINIMAL_BLOCK_SIZE
  <2>1. next # {} => End(h, b) \in Starts(h)
    BY <1>2 DEF Free
  <2>2. Neighbour(h, previous) \in Nat
    BY <1>2, <1>5
  <2>3. next # {} => Neighbour(h, next) \in Nat /\ Neighbour(h, next) > MINIMAL_BLOCK_SIZE
    BY <1>2, <1>5, <2>1
  <2> QED BY <1>2, <2>2, <2>3
<1>9. next = get_next_block_if_free(h, b) /\ hi \in Free(h) => hi \in Seconds(h)
  <2>1. next = get_next_block_if_free(h, b) /\ next = {} => End(h, b) \notin Free(h)
    BY <1>1, NextIs
  <2>2. next # {} => hi = End(h, End(h, b)) /\ End(h, b) \in Free(h)
    <3>1. next # {} => End(h, b) \in Free(h) /\ hi = End(h, b) + Length(h, End(h, b))
      BY <1>2 DEF hi
    <3> QED BY <3>1 DEF End
  <2> QED BY <1>1, <1>2, <2>1, <2>2, NextTold
<1>10. previous # {} => lo < b
  BY <1>2, <1>5 DEF lo
<1> QED BY <1>2, <1>3, <1>5, <1>6, <1>7, <1>8, <1>9, <1>10 DEF lo, hi

Loose(h, x) == [h EXCEPT !.tree = @ \ x]

LEMMA LooseUnder ==
  ASSUME NEW h, IsHeap(h), NEW x, NEW n \in Nat, h.brk + n \in Nat
  PROVE  LET loose == Loose(h, x)
             k == mem_sbrk(loose, n)
         IN  /\ IsHeap(loose) /\ loose.block = h.block /\ loose.tree = h.tree \ x
             /\ loose.last_is_free = h.last_is_free /\ loose.brk = h.brk
             /\ IsHeap(k) /\ k.block = h.block /\ k.tree = h.tree \ x
             /\ k.last_is_free = h.last_is_free /\ k.brk = h.brk + n
<1> DEFINE loose == Loose(h, x)
           k == mem_sbrk(loose, n)
<1>1. h = [block |-> h.block, tree |-> h.tree, last_is_free |-> h.last_is_free, brk |-> h.brk]
  BY DEF IsHeap
<1>2. loose = [block |-> h.block, tree |-> h.tree \ x, last_is_free |-> h.last_is_free,
               brk |-> h.brk]
  BY ONLY <1>1 DEF Loose
<1>3. k = [block |-> h.block, tree |-> h.tree \ x, last_is_free |-> h.last_is_free,
           brk |-> h.brk + n]
  <2>1. [loose EXCEPT !.brk = @ + n]
          = [block |-> h.block, tree |-> h.tree \ x, last_is_free |-> h.last_is_free,
             brk |-> h.brk + n]
    <3> HIDE DEF loose
    <3> QED BY ONLY <1>2
  <2> QED BY <2>1 DEF mem_sbrk
<1>4. /\ h.block \in [DOMAIN h.block -> header_t] /\ DOMAIN h.block \subseteq Nat
      /\ h.tree \subseteq Nat /\ h.last_is_free \in BOOLEAN /\ h.brk \in Nat
  BY DEF IsHeap, Starts
<1>5. IsHeap(loose) /\ IsHeap(k)
  <2> HIDE DEF k, loose
  <2> QED BY <1>2, <1>3, <1>4 DEF IsHeap, Starts
<1> HIDE DEF k, loose
<1>6. /\ IsHeap(loose) /\ loose.block = h.block /\ loose.tree = h.tree \ x
      /\ loose.last_is_free = h.last_is_free /\ loose.brk = h.brk
  BY <1>2, <1>5
<1>7. /\ IsHeap(k) /\ k.block = h.block /\ k.tree = h.tree \ x
      /\ k.last_is_free = h.last_is_free /\ k.brk = h.brk + n
  BY <1>3, <1>5
<1> QED BY <1>6, <1>7 DEF k, loose

(* What is cut off a block that is longer than needed.                     *)
LEMMA ShrinkSound ==
  ASSUME NEW h, NEW l, Sound(h, l, {}), NEW p \in l, NEW b \in Starts(h), Owns(h, p, b),
         NEW size \in Requests, size < Payload(h, b)
  PROVE  LET g == shrink(h, b, size)
             q == Holds(get_block_payload(b), size)
         IN  /\ Sound(g, (l \ {p}) \cup {q}, {}) /\ q \notin l \ {p}
             /\ h.brk <= g.brk /\ Seconds(g) \subseteq Seconds(h)
<1> DEFINE next == get_next_block_if_free(h, b)
           length == block_length_from_payload_size(size)
           mid == b + length
           hi == b + Length(h, b) + After(h, b)
           rest == Length(h, b) - length + After(h, b)
           loose == Loose(h, next)
           g == shrink(h, b, size)
<1>1. /\ Blocks(h) /\ IsHeap(h) /\ h.tree = Free(h) /\ h.brk <= MAX_HEAP /\ h.brk \in Nat
      /\ Length(h, b) \in Nat /\ Length(h, b) % 4 = 0 /\ b \in Nat /\ b % 4 = 0
      /\ Length(h, b) > MINIMAL_BLOCK_SIZE
  BY BlockFacts DEF Sound, Blocks
<1>2. /\ length \in Nat /\ length % 4 = 0 /\ length > MINIMAL_BLOCK_SIZE
      /\ length <= size + 15 /\ size \in Nat
      /\ size <= payload_size_from_block_length(length)
  BY BlockLength, RequestsAssumption
<1> HIDE DEF length
<1>3. size <= payload_size_from_block_length(Length(h, b)) /\ length <= Length(h, b)
  BY <1>1, <1>2 DEF Payload, payload_size_from_block_length
<1>4. /\ Around(h, l, p, b, b, hi, next) /\ Region(h, b, hi, hi) /\ hi <= h.brk
      /\ hi \in Nat /\ hi % 4 = 0 /\ After(h, b) \in Nat
      /\ next = {} => After(h, b) = 0
      /\ next # {} => After(h, b) > MINIMAL_BLOCK_SIZE
      /\ hi \in Free(h) => hi \in Seconds(h)
  <2> DEFINE previous == {}
             lo == b - Neighbour(h, previous)
             top == b + Length(h, b) + Neighbour(h, next)
  <2>1. previous \in {{}, get_previous_block_if_free(h, b)}
        /\ next \in {{}, get_next_block_if_free(h, b)}
    OBVIOUS
  <2> HIDE DEF previous, next
  <2>2. /\ Around(h, l, p, b, lo, top, previous \cup next)
        /\ Region(h, lo, top, top) /\ top <= h.brk
        /\ top \in Nat /\ top % 4 = 0
        /\ Neighbour(h, previous) \in Nat /\ Neighbour(h, next) \in Nat
        /\ next = {} => Neighbour(h, next) = 0
        /\ next # {} => Neighbour(h, next) > MINIMAL_BLOCK_SIZE
        /\ previous = {} => Neighbour(h, previous) = 0
        /\ next = get_next_block_if_free(h, b) /\ top \in Free(h) => top \in Seconds(h)
    BY <2>1, Beside
  <2>3. lo = b /\ previous \cup next = next
    BY <1>1, <2>2 DEF previous
  <2>4. /\ top = hi /\ After(h, b) = Neighbour(h, next)
        /\ next = get_next_block_if_free(h, b)
    BY DEF After, next
  <2> HIDE DEF lo, top
  <2> QED BY <2>2, <2>3, <2>4
<1>5. CASE After(h, b) = 0 /\ rest < MINIMAL_BLOCK_SIZE
  <2>1. g = h
    BY <1>5 DEF shrink, length
  <2> QED BY <1>1, <1>3, <2>1, KeepSound
<1>6. CASE ~ (After(h, b) = 0 /\ rest < MINIMAL_BLOCK_SIZE)
  <2>1. mid \in Nat /\ mid % 4 = 0 /\ mid + MINIMAL_BLOCK_SIZE < hi /\ mid - b = length
        /\ hi - mid = rest
    <3>1. mid \in Nat /\ mid % 4 = 0 /\ mid - b = length /\ hi - mid = rest
      BY <1>1, <1>2, <1>4
    <3>2. CASE next # {}
      BY <1>1, <1>2, <1>3, <1>4, <3>1, <3>2
    <3>3. CASE next = {}
      <4>1. rest = Length(h, b) - length /\ rest >= MINIMAL_BLOCK_SIZE
        BY <1>1, <1>2, <1>4, <1>6, <3>3
      <4>2. rest % 4 = 0
        BY <1>1, <1>2, <4>1
      <4> HIDE DEF rest, hi, mid
      <4>3. rest \in Nat
        BY <1>1, <1>2, <1>3, <4>1
      <4> QED BY <1>4, <3>1, <4>1, <4>2, <4>3
    <3> QED BY <3>1, <3>2, <3>3
  <2>2. Region(h, b, mid, hi) /\ mid # hi
    <3> HIDE DEF mid, hi
    <3> QED BY <1>1, <1>2, <1>4, <2>1 DEF Region
  <2>3. /\ IsHeap(loose) /\ loose.block = h.block /\ loose.tree = h.tree \ next
        /\ loose.last_is_free = h.last_is_free /\ loose.brk = h.brk
    <3> HIDE DEF next
    <3>1. 0 \in Nat /\ h.brk + 0 \in Nat
      BY <1>1
    <3> QED BY <1>1, <3>1, LooseUnder
  <2> HIDE DEF loose
  <2>4. Under(h, loose, hi)
    <3> HIDE DEF hi
    <3> QED BY <1>1, <1>4, <2>3 DEF Under
  <2>5. ToldAt(h, b) = loose.block[b].previous_is_free
    BY <2>3 DEF ToldAt
  <2>6. g = rb_insert(TellNext(SetTo(SetTo(loose, b, mid - b, FALSE, ToldAt(h, b)),
                                     mid, hi - mid, TRUE, FALSE), mid), mid)
    BY <1>6, <2>1, <2>5 DEF shrink, PRESERVE, length, loose, Loose
  <2>7. size <= payload_size_from_block_length(mid - b) /\ hi <= MAX_HEAP
    <3> HIDE DEF mid, hi
    <3> QED BY <1>1, <1>2, <1>4, <2>1, LimitsAssumption
  <2> HIDE DEF mid, hi, next, g
  <2>8. LET a == rb_insert(TellNext(SetTo(SetTo(loose, b, mid - b, FALSE, ToldAt(h, b)),
                                          mid, hi - mid, TRUE, FALSE), mid), mid)
            q == Holds(get_block_payload(b), size)
        IN  /\ Sound(a, (l \ {p}) \cup {q}, {}) /\ q \notin l \ {p}
            /\ h.brk <= a.brk
            /\ \A c \in Seconds(a) : c \in Seconds(h) \/ (c = hi /\ hi \in Free(h))
    BY <1>4, <2>2, <2>3, <2>4, <2>7, ResizedTwo
  <2> QED BY <1>4, <2>6, <2>8 DEF g
<1> QED BY <1>5, <1>6

(* A block at the end of the heap grows there.                             *)
LEMMA GrowLastSound ==
  ASSUME NEW h, NEW l, Sound(h, l, {}), NEW p \in l, NEW b \in Starts(h), Owns(h, p, b),
         NEW size \in Requests, size > Payload(h, b),
         b + Length(h, b) + After(h, b) = h.brk,
         After(h, b) <= min_grow_size(h, b, size),
         h.brk + (min_grow_size(h, b, size) - After(h, b)) <= MAX_HEAP
  PROVE  LET g == growlast(h, b, size)
             q == Holds(get_block_payload(b), size)
         IN  /\ Sound(g, (l \ {p}) \cup {q}, {}) /\ q \notin l \ {p}
             /\ h.brk <= g.brk /\ Seconds(g) \subseteq Seconds(h)
<1> DEFINE next == get_next_block_if_free(h, b)
           length == block_length_from_payload_size(size)
           grow == min_grow_size(h, b, size)
           hi == b + Length(h, b) + grow
           n == grow - After(h, b)
           loose == Loose(h, next)
           k == mem_sbrk(loose, n)
           g == growlast(h, b, size)
<1>1. /\ Blocks(h) /\ IsHeap(h) /\ h.tree = Free(h) /\ h.brk <= MAX_HEAP /\ h.brk \in Nat
      /\ Length(h, b) \in Nat /\ Length(h, b) % 4 = 0 /\ b \in Nat /\ b % 4 = 0
      /\ Length(h, b) > MINIMAL_BLOCK_SIZE
  BY BlockFacts DEF Sound, Blocks
<1>2. /\ length \in Nat /\ length % 4 = 0
      /\ size <= payload_size_from_block_length(length)
  BY BlockLength, RequestsAssumption
<1>3. grow = length - (Length(h, b) - 12)
  BY DEF min_grow_size, payload_size_from_block_length
<1> HIDE DEF length, grow
<1>4. /\ Around(h, l, p, b, b, h.brk, next) /\ Region(h, b, h.brk, h.brk)
      /\ h.brk % 4 = 0 /\ After(h, b) \in Nat
  <2> DEFINE previous == {}
             lo == b - Neighbour(h, previous)
             top == b + Length(h, b) + Neighbour(h, next)
  <2>1. previous \in {{}, get_previous_block_if_free(h, b)}
        /\ next \in {{}, get_next_block_if_free(h, b)}
    OBVIOUS
  <2> HIDE DEF previous, next
  <2>2. /\ Around(h, l, p, b, lo, top, previous \cup next)
        /\ Region(h, lo, top, top)
        /\ top \in Nat /\ top % 4 = 0
        /\ Neighbour(h, previous) \in Nat /\ Neighbour(h, next) \in Nat
        /\ previous = {} => Neighbour(h, previous) = 0
    BY <2>1, Beside
  <2>3. lo = b /\ previous \cup next = next
    BY <1>1, <2>2 DEF previous
  <2>4. top = h.brk /\ After(h, b) = Neighbour(h, next)
    BY DEF After, next
  <2> HIDE DEF lo, top
  <2> QED BY <2>2, <2>3, <2>4
<1>5. /\ n \in Nat /\ h.brk + n = hi /\ hi \in Nat /\ hi % 4 = 0 /\ hi >= h.brk
      /\ hi - b = length + 12 /\ hi <= MAX_HEAP
  <2>0. After(h, b) <= grow
    BY DEF grow
  <2>1. grow \in Int /\ grow % 4 = 0 /\ After(h, b) <= grow
    BY <1>1, <1>2, <1>3, <2>0
  <2>2. h.brk + n <= MAX_HEAP
    BY DEF grow
  <2>3. n \in Nat /\ h.brk + n = hi
    BY <1>1, <1>4, <2>1
  <2>4. hi \in Nat /\ hi % 4 = 0 /\ hi >= h.brk
    BY <1>1, <1>4, <2>1, <2>3
  <2>5. hi - b = length + 12
    BY <1>1, <1>2, <1>3
  <2> QED BY <2>2, <2>3, <2>4, <2>5
<1>6. Around(h, l, p, b, b, hi, next)
  <2>1. \A c \in Starts(h) : c \in Nat /\ c < h.brk
    BY <1>1, BlockFacts
  <2> HIDE DEF hi, next
  <2> QED BY <1>1, <1>4, <1>5, <2>1 DEF Around
<1>7. Region(h, b, hi, hi)
  <2> HIDE DEF hi, next
  <2> QED BY <1>1, <1>4, <1>5 DEF Region
<1>8. /\ IsHeap(k) /\ k.block = h.block /\ k.tree = h.tree \ next
      /\ k.last_is_free = h.last_is_free /\ k.brk = hi
  <2> HIDE DEF next, n, hi
  <2>1. h.brk + n \in Nat
    BY <1>5
  <2> QED BY <1>1, <1>5, <2>1, LooseUnder
<1> HIDE DEF k, loose
<1>9. Under(h, k, hi)
  <2> HIDE DEF hi
  <2> QED BY <1>1, <1>5, <1>8 DEF Under
<1>10. g = TellNext(SetTo(k, b, hi - b, FALSE, ToldAt(h, b)), b)
  <2>1. ToldAt(h, b) = k.block[b].previous_is_free
    BY <1>8 DEF ToldAt
  <2>2. hi - b = Length(h, b) + grow
    BY <1>1, <1>3, <1>2
  <2> QED BY <2>1, <2>2 DEF growlast, PRESERVE, k, loose, grow, Loose
<1>11. size <= payload_size_from_block_length(hi - b)
  <2> HIDE DEF hi
  <2> QED BY <1>2, <1>5, RequestsAssumption DEF payload_size_from_block_length
<1> HIDE DEF hi, next, g
<1>12. LET a == TellNext(SetTo(k, b, hi - b, FALSE, ToldAt(h, b)), b)
           q == Holds(get_block_payload(b), size)
       IN  /\ Sound(a, (l \ {p}) \cup {q}, {}) /\ q \notin l \ {p}
           /\ h.brk <= a.brk /\ Seconds(a) \subseteq Seconds(h)
  BY <1>5, <1>6, <1>7, <1>8, <1>9, <1>11, ResizedOne
<1> QED BY <1>10, <1>12 DEF g

(* The neighbours that mm_realloc merges are long enough.                  *)
MergedPrevious(h, b, size) ==
  IF MergesPrevious(h, b, size) THEN get_previous_block_if_free(h, b) ELSE {}
MergedNext(h, b, size) ==
  IF MergesNext(h, b, size) THEN get_next_block_if_free(h, b) ELSE {}
MergedTotal(h, b, size) == Length(h, b) + Neighbour(h, MergedPrevious(h, b, size))
                                        + Neighbour(h, MergedNext(h, b, size))

LEMMA MergedEnough ==
  ASSUME NEW h, NEW b, NEW size \in Nat, BothEnough(h, b, size),
         Length(h, b) \in Nat, Before(h, b) \in Nat, After(h, b) \in Nat
  PROVE  MergedTotal(h, b, size) - 12 > size
<1>1. Neighbour(h, {}) = 0
  BY DEF Neighbour
<1>2. Neighbour(h, MergedPrevious(h, b, size))
        = IF MergesPrevious(h, b, size) THEN Before(h, b) ELSE 0
  BY <1>1 DEF MergedPrevious, Before
<1>3. Neighbour(h, MergedNext(h, b, size))
        = IF MergesNext(h, b, size) THEN After(h, b) ELSE 0
  BY <1>1 DEF MergedNext, After
<1>4. Payload(h, b) = Length(h, b) - 12
  BY DEF Payload, payload_size_from_block_length
<1> QED BY <1>2, <1>3, <1>4 DEF MergedTotal, MergesPrevious, MergesNext, BothEnough,
          PreviousEnough, NextEnough

(* The new block's type bit after the next is told, and what is cut off.   *)
LEMMA TypeTold ==
  ASSUME NEW k, IsHeap(k), NEW lo \in Starts(k), Length(k, lo) > 0
  PROVE  TellNext(k, lo).block[lo].type = k.block[lo].type
<1>1. Length(k, lo) \in Nat /\ lo \in Nat
  BY DEF IsHeap, header_t, Length
<1>2. End(k, lo) # lo
  BY <1>1 DEF End
<1> DEFINE g == TellNext(k, lo)
<1>3. \A c \in Starts(k) : c # End(k, lo) \/ c = k.brk => g.block[c] = k.block[c]
  BY TellFields
<1> HIDE DEF g
<1>4. g.block[lo] = k.block[lo]
  BY <1>2, <1>3
<1> QED BY <1>4 DEF g

LEMMA TypeCut ==
  ASSUME NEW k, IsHeap(k), NEW lo \in Starts(k), NEW length \in Nat, length > 0,
         NEW rest \in Nat, rest > 0
  PROVE  rb_insert(TellNext(SetTo(k, lo + length, rest, TRUE, FALSE), lo + length),
                   lo + length).block[lo].type = k.block[lo].type
<1>1. lo \in Nat /\ lo # lo + length
  BY DEF IsHeap
<1> DEFINE mid == lo + length
           made(f, f2) == SetTo(k, mid, rest, f2, f)
           a == made(FALSE, TRUE)
           g == TellNext(a, mid)
<1>2. mid \in Nat /\ lo < mid
  BY <1>1
<1>3. /\ IsHeap(a) /\ Starts(a) = {mid} \cup {c \in Starts(k) : c < mid \/ c >= mid + rest}
      /\ a.block[mid].length = rest
      /\ \A c \in Starts(k) : c < mid \/ c >= mid + rest => a.block[c] = k.block[c]
  <2> HIDE DEF mid
  <2>1. \A f, f2 \in BOOLEAN :
          /\ IsHeap(made(f, f2))
          /\ Starts(made(f, f2)) = {mid} \cup {c \in Starts(k) : c < mid \/ c >= mid + rest}
          /\ made(f, f2).block[mid].length = rest
          /\ \A c \in Starts(k) : c < mid \/ c >= mid + rest => made(f, f2).block[c] = k.block[c]
    <3> TAKE f, f2 \in BOOLEAN
    <3>1. LET m == SetTo(k, mid, rest, f2, f)
          IN  /\ IsHeap(m) /\ m.tree = k.tree /\ m.brk = k.brk
              /\ m.last_is_free = k.last_is_free
              /\ Starts(m) = {mid} \cup {c \in Starts(k) : c < mid \/ c >= mid + rest}
              /\ m.block[mid] = [length |-> rest, is_free |-> f2,
                                 previous_is_free |-> f, type |-> get_block_type(mid)]
              /\ \A c \in Starts(k) : c < mid \/ c >= mid + rest => m.block[c] = k.block[c]
      BY <1>2, SetToFields
    <3>2. made(f, f2).block[mid].length = rest
      BY <3>1
    <3> QED BY <3>1, <3>2
  <2> HIDE DEF made
  <2> QED BY <2>1, Zenon
<1> HIDE DEF mid, made, a
<1>4. /\ Starts(g) = Starts(a) /\ IsHeap(g)
      /\ \A c \in Starts(a) : c # End(a, mid) \/ c = a.brk => g.block[c] = a.block[c]
  <2>1. mid \in Starts(a) /\ Length(a, mid) > 0
    BY <1>3 DEF Length
  <2> QED BY <1>3, <2>1, TellFields
<1>5. End(a, mid) = mid + rest
  BY <1>3 DEF End, Length
<1>6. g.block[lo] = k.block[lo]
  BY <1>1, <1>2, <1>3, <1>4, <1>5
<1> HIDE DEF g
<1>7. rb_insert(g, mid).block = g.block
  <2>1. g = [block |-> g.block, tree |-> g.tree, last_is_free |-> g.last_is_free, brk |-> g.brk]
    BY <1>4 DEF IsHeap
  <2>2. [g EXCEPT !.tree = @ \cup {mid}].block = g.block
    BY ONLY <2>1
  <2> QED BY <2>2 DEF rb_insert
<1>8. rb_insert(g, mid).block[lo] = k.block[lo]
  BY <1>6, <1>7
<1> QED BY <1>8 DEF g, a, made, mid

LEMMA Retyped ==
  ASSUME NEW r, NEW length, NEW free, NEW told, NEW old, NEW type,
         r = [length |-> length, is_free |-> free, previous_is_free |-> told, type |-> old]
  PROVE  [r EXCEPT !.type = type]
           = [length |-> length, is_free |-> free, previous_is_free |-> told, type |-> type]
OBVIOUS

LEMMA MergeSound ==
  ASSUME NEW h, NEW l, Sound(h, l, {}), NEW p \in l, NEW b \in Starts(h), Owns(h, p, b),
         NEW size \in Requests, BothEnough(h, b, size), size > Payload(h, b),
         LET merged == merge(h, b, size)
         IN  merged.heap.block[merged.block].type = get_block_type(merged.block)
  PROVE  LET g == merge(h, b, size).heap
             q == Holds(get_block_payload(merge(h, b, size).block), size)
         IN  /\ Sound(g, (l \ {p}) \cup {q}, {}) /\ q \notin l \ {p}
             /\ h.brk <= g.brk
             /\ Seconds(g) \subseteq Seconds(h) \/ q.ptr < p.ptr
<1> DEFINE previous == MergedPrevious(h, b, size)
           next     == MergedNext(h, b, size)
           lo       == b - Neighbour(h, previous)
           total    == Length(h, b) + Neighbour(h, previous) + Neighbour(h, next)
           needed   == block_length_from_payload_size(size)
           length   == IF total - needed < MINIMAL_BLOCK_SIZE THEN total ELSE needed
           rest     == total - length
           mid      == lo + length
           hi       == b + Length(h, b) + Neighbour(h, next)
           loose    == Loose(h, previous \cup next)
           merged   == PRESERVE(loose, lo, length, FALSE)
           moved    == IF lo # b /\ RestoresTypeBit(b, lo, length)
                       THEN [merged EXCEPT !.block[lo].type = h.block[b].type] ELSE merged
           after(k) == IF rest = 0 THEN TellNext(k, lo)
                       ELSE rb_insert(TellNext(SetTo(k, lo + length, rest, TRUE, FALSE),
                                               lo + length), lo + length)
           q        == Holds(get_block_payload(lo), size)
<1>1. /\ Blocks(h) /\ IsHeap(h) /\ h.tree = Free(h) /\ h.brk <= MAX_HEAP /\ h.brk \in Nat
      /\ Length(h, b) \in Nat /\ Length(h, b) % 4 = 0 /\ b \in Nat /\ b % 4 = 0
      /\ Length(h, b) > MINIMAL_BLOCK_SIZE /\ h.block[b].type \in {0, 1}
  BY BlockFacts DEF Sound, Blocks, header_t
<1>2. /\ needed \in Nat /\ needed % 4 = 0 /\ needed > MINIMAL_BLOCK_SIZE
      /\ needed <= size + 15 /\ size \in Nat
      /\ size <= payload_size_from_block_length(needed)
  BY BlockLength, RequestsAssumption
<1>3. merge(h, b, size) = [heap |-> after(moved), block |-> lo]
  BY DEF merge, MergedPrevious, MergedNext, Loose
<1> HIDE DEF previous, next, needed
<1>4. /\ Around(h, l, p, b, lo, hi, previous \cup next)
      /\ Region(h, lo, hi, hi) /\ hi <= h.brk
      /\ lo \in Starts(h) /\ lo \in Nat /\ lo % 4 = 0 /\ hi \in Nat /\ hi % 4 = 0
      /\ Neighbour(h, previous) \in Nat /\ Neighbour(h, next) \in Nat
      /\ next = {} => Neighbour(h, next) = 0
      /\ previous = {} => Neighbour(h, previous) = 0
      /\ next = get_next_block_if_free(h, b) /\ hi \in Free(h) => hi \in Seconds(h)
      /\ previous # {} => lo < b
  <2>1. previous \in {{}, get_previous_block_if_free(h, b)}
        /\ next \in {{}, get_next_block_if_free(h, b)}
    BY DEF previous, next, MergedPrevious, MergedNext
  <2> QED BY <2>1, Beside
<1>5. Before(h, b) \in Nat /\ After(h, b) \in Nat
  <2> DEFINE left == get_previous_block_if_free(h, b)
             right == get_next_block_if_free(h, b)
  <2>1. left \in {{}, get_previous_block_if_free(h, b)}
        /\ right \in {{}, get_next_block_if_free(h, b)}
    OBVIOUS
  <2> HIDE DEF left, right
  <2>2. Neighbour(h, left) \in Nat /\ Neighbour(h, right) \in Nat
    BY <2>1, Beside
  <2> QED BY <2>2 DEF Before, After, left, right
<1>6. total - 12 > size /\ hi - lo = total /\ total \in Nat
  <2>1. total = MergedTotal(h, b, size)
    BY DEF MergedTotal, previous, next
  <2>2. MergedTotal(h, b, size) - 12 > size
    BY <1>1, <1>2, <1>5, MergedEnough
  <2>3. total - 12 > size
    BY <2>1, <2>2
  <2>4. Neighbour(h, previous) \in Nat /\ Neighbour(h, next) \in Nat
    BY <1>4
  <2>5. Length(h, b) \in Nat /\ b \in Nat
    BY <1>1
  <2> QED BY ONLY <2>3, <2>4, <2>5
<1>7. previous = {} => next = get_next_block_if_free(h, b)
  <2>1. previous = {} => next # {}
    <3>1. Payload(h, b) = Length(h, b) - 12
      BY DEF Payload, payload_size_from_block_length
    <3>2. previous = {} /\ next = {} => total = Length(h, b)
      BY <1>1, <1>4
    <3> HIDE DEF total
    <3> QED BY <1>1, <1>2, <1>6, <3>1, <3>2
  <2> QED BY <2>1 DEF next, MergedNext
<1>8. total % 4 = 0
  <2> HIDE DEF total, hi, lo
  <2> QED BY <1>4, <1>6
<1>9. /\ length \in Nat /\ length % 4 = 0 /\ length > MINIMAL_BLOCK_SIZE
      /\ size <= payload_size_from_block_length(length)
      /\ rest \in Nat /\ (rest = 0 \/ rest > MINIMAL_BLOCK_SIZE)
      /\ rest = 0 <=> length = total
  <2> HIDE DEF total
  <2>1. total - needed >= 0 /\ (total - needed) % 4 = 0
    BY <1>2, <1>6, <1>8
  <2>2. CASE total - needed < MINIMAL_BLOCK_SIZE
    <3>1. length = total /\ rest = 0
      BY <1>6, <2>2
    <3>2. total > MINIMAL_BLOCK_SIZE
      BY <1>2, <1>6, <2>1
    <3> HIDE DEF length, rest
    <3> QED BY <1>2, <1>6, <1>8, <3>1, <3>2 DEF payload_size_from_block_length
  <2>3. CASE ~ (total - needed < MINIMAL_BLOCK_SIZE)
    <3>1. length = needed /\ rest = total - needed
      BY <2>3
    <3> HIDE DEF length, rest
    <3> QED BY <1>2, <1>6, <2>1, <2>3, <3>1
  <2> QED BY <2>2, <2>3
<1>10. /\ mid \in Nat /\ mid % 4 = 0 /\ mid - lo = length /\ hi - mid = rest
       /\ mid = hi <=> rest = 0
       /\ Region(h, lo, mid, hi)
  <2> HIDE DEF length
  <2>1. mid \in Nat /\ mid % 4 = 0 /\ mid - lo = length /\ hi - mid = rest
    <3> HIDE DEF lo, hi, total
    <3> QED BY <1>4, <1>6, <1>9
  <2> HIDE DEF mid, hi, lo, rest
  <2>2. mid = hi <=> rest = 0
    BY <1>4, <2>1
  <2>3. (hi = mid \/ mid + MINIMAL_BLOCK_SIZE < hi) /\ lo + MINIMAL_BLOCK_SIZE < mid
    BY <1>4, <1>9, <2>1
  <2> QED BY <1>4, <2>1, <2>2, <2>3 DEF Region
<1>11. /\ IsHeap(loose) /\ loose.block = h.block
       /\ loose.tree = h.tree \ (previous \cup next)
       /\ loose.last_is_free = h.last_is_free /\ loose.brk = h.brk
  <2> DEFINE x == previous \cup next
  <2> HIDE DEF x
  <2>1. 0 \in Nat /\ h.brk + 0 \in Nat
    BY <1>1
  <2>2. /\ IsHeap(Loose(h, x)) /\ Loose(h, x).block = h.block
        /\ Loose(h, x).tree = h.tree \ x
        /\ Loose(h, x).last_is_free = h.last_is_free /\ Loose(h, x).brk = h.brk
    BY <1>1, <2>1, LooseUnder
  <2> QED BY <2>2 DEF x
<1>12. Under(h, loose, hi)
  <2> HIDE DEF loose, hi
  <2> QED BY <1>1, <1>4, <1>11 DEF Under
<1>13. merged = SetTo(loose, lo, mid - lo, FALSE, ToldAt(h, lo))
  <2>1. loose.block[lo].previous_is_free = ToldAt(h, lo)
    <3> HIDE DEF loose, lo
    <3> QED BY <1>4, <1>11 DEF ToldAt
  <2> HIDE DEF mid, lo, loose
  <2> QED BY <1>10, <2>1 DEF PRESERVE
<1> HIDE DEF loose, lo, mid, hi, total, length, rest
<1>14. /\ IsHeap(merged) /\ lo \in Starts(merged)
       /\ merged.block[lo] = [length |-> length, is_free |-> FALSE,
                              previous_is_free |-> ToldAt(h, lo), type |-> get_block_type(lo)]
  <2> DEFINE made(f) == SetTo(loose, lo, length, f, ToldAt(h, lo))
  <2>1. ToldAt(h, lo) \in BOOLEAN
    BY <1>1, ToldIsBoolean
  <2>2. \A f \in BOOLEAN :
           /\ IsHeap(made(f)) /\ lo \in Starts(made(f))
           /\ made(f).block[lo] = [length |-> length, is_free |-> f,
                                   previous_is_free |-> ToldAt(h, lo), type |-> get_block_type(lo)]
    BY <1>4, <1>9, <1>11, <2>1, SetToFields
  <2>3. merged = made(FALSE)
    BY <1>10, <1>13
  <2> HIDE DEF made, merged
  <2> QED BY <2>2, <2>3, Zenon
<1> HIDE DEF merged
<1>15. moved = merged
  <2>1. CASE ~ (lo # b /\ RestoresTypeBit(b, lo, length))
    BY <2>1
  <2>2. CASE lo # b /\ RestoresTypeBit(b, lo, length)
    <3> DEFINE type == h.block[b].type
               header == [length |-> length, is_free |-> FALSE,
                          previous_is_free |-> ToldAt(h, lo), type |-> type]
    <3>1. /\ merged = [block |-> merged.block, tree |-> merged.tree,
                       last_is_free |-> merged.last_is_free, brk |-> merged.brk]
          /\ merged.block \in [Starts(merged) -> header_t]
      BY <1>14 DEF IsHeap
    <3>2. moved = [merged EXCEPT !.block = [merged.block EXCEPT ![lo] =
                                             [merged.block[lo] EXCEPT !.type = type]]]
      BY <2>2, <3>1
    <3>3. [merged.block[lo] EXCEPT !.type = type] = header
      <4> DEFINE r == merged.block[lo]
                 free == FALSE
                 told == ToldAt(h, lo)
      <4>1. r = [length |-> length, is_free |-> free,
                 previous_is_free |-> told, type |-> get_block_type(lo)]
        BY <1>14
      <4> HIDE DEF r, type, free, told
      <4>2. [r EXCEPT !.type = type] = [length |-> length, is_free |-> free,
                                        previous_is_free |-> told, type |-> type]
        BY ONLY <4>1
      <4> QED BY <4>2 DEF r, free, told
    <3>4. moved = [block |-> [merged.block EXCEPT ![lo] = header], tree |-> merged.tree,
                   last_is_free |-> merged.last_is_free, brk |-> merged.brk]
      BY <3>1, <3>2, <3>3
    <3> HIDE DEF moved
    <3>5. Starts(moved) = Starts(merged) /\ moved.block[lo] = header
      BY <1>14, <3>1, <3>4 DEF Starts
    <3>6. IsHeap(moved)
      <4>1. header \in header_t
        BY <1>1, <1>9, <1>14, ToldIsBoolean DEF header_t
      <4>2. moved.block \in [Starts(merged) -> header_t]
        BY <3>1, <3>4, <4>1
      <4> QED BY <1>14, <3>4, <3>5, <4>2 DEF IsHeap
    <3>7. after(moved).block[lo].type = moved.block[lo].type
      <4>1. Length(moved, lo) = length /\ length > 0 /\ lo \in Starts(moved)
        BY <1>9, <1>14, <3>5 DEF Length
      <4>2. CASE rest = 0
        BY <3>6, <4>1, <4>2, TypeTold
      <4>3. CASE rest # 0
        <5>0. lo \in Starts(moved)
          BY <4>1
        <5>1. rest \in Nat /\ rest > 0 /\ length \in Nat /\ length > 0
          BY <1>9, <4>3
        <5> HIDE DEF moved
        <5>2. rb_insert(TellNext(SetTo(moved, lo + length, rest, TRUE, FALSE), lo + length),
                        lo + length).block[lo].type = moved.block[lo].type
          BY ONLY <3>6, <5>1, <5>0, TypeCut, Zenon
        <5> QED BY <4>3, <5>2
      <4> QED BY <4>2, <4>3
    <3>8. type = get_block_type(lo)
      <4>1. after(moved).block[lo].type = get_block_type(lo)
        <5> HIDE DEF after
        <5> QED BY <1>3
      <4>2. moved.block[lo].type = type
        BY <3>5
      <4> HIDE DEF after, type
      <4> QED BY <3>7, <4>1, <4>2
    <3>9. header = merged.block[lo]
      BY <1>14, <3>8
    <3>10. [merged.block EXCEPT ![lo] = header] = merged.block
      BY <1>14, <3>1, <3>9
    <3> QED BY <3>1, <3>4, <3>10
  <2> QED BY <2>1, <2>2
<1>16. merge(h, b, size) = [heap |-> after(merged), block |-> lo]
  BY <1>3, <1>15
<1>17. hi <= MAX_HEAP /\ size <= payload_size_from_block_length(mid - lo)
  BY <1>1, <1>4, <1>9, <1>10, LimitsAssumption
<1> DEFINE x == previous \cup next
<1> HIDE DEF x
<1>18. Around(h, l, p, b, lo, hi, x) /\ loose.tree = h.tree \ x
  BY <1>4, <1>11 DEF x
<1>19. /\ Sound(after(merged), (l \ {p}) \cup {q}, {}) /\ q \notin l \ {p}
       /\ h.brk <= after(merged).brk
       /\ Seconds(after(merged)) \subseteq Seconds(h) \/ lo < b
  <2>1. CASE rest = 0
    <3>1. mid = hi
      BY <1>10, <2>1
    <3>2. after(merged) = TellNext(SetTo(loose, lo, hi - lo, FALSE, ToldAt(h, lo)), lo)
      BY <1>13, <2>1, <3>1
    <3>3. Region(h, lo, hi, hi) /\ size <= payload_size_from_block_length(hi - lo)
      BY <1>4, <1>17, <3>1
    <3> HIDE DEF after
    <3>4. LET g == TellNext(SetTo(loose, lo, hi - lo, FALSE, ToldAt(h, lo)), lo)
          IN  /\ Sound(g, (l \ {p}) \cup {q}, {}) /\ q \notin l \ {p}
              /\ h.brk <= g.brk /\ Seconds(g) \subseteq Seconds(h)
      BY <1>12, <1>17, <1>18, <3>3, ResizedOne
    <3> QED BY <3>2, <3>4
  <2>2. CASE rest # 0
    <3>1. mid # hi
      BY <1>10, <2>2
    <3>2. after(merged) =
            rb_insert(TellNext(SetTo(SetTo(loose, lo, mid - lo, FALSE, ToldAt(h, lo)),
                                     mid, hi - mid, TRUE, FALSE), mid), mid)
      BY <1>10, <1>13, <2>2 DEF mid
    <3> HIDE DEF after
    <3>3. LET g == rb_insert(TellNext(SetTo(SetTo(loose, lo, mid - lo, FALSE, ToldAt(h, lo)),
                                            mid, hi - mid, TRUE, FALSE), mid), mid)
          IN  /\ Sound(g, (l \ {p}) \cup {q}, {}) /\ q \notin l \ {p}
              /\ h.brk <= g.brk
              /\ \A c \in Seconds(g) : c \in Seconds(h) \/ (c = hi /\ hi \in Free(h))
      BY <1>10, <1>12, <1>17, <1>18, <3>1, ResizedTwo
    <3>4. lo < b \/ (hi \in Free(h) => hi \in Seconds(h))
      BY <1>4, <1>7
    <3> QED BY <3>2, <3>3, <3>4
  <2> QED BY <2>1, <2>2
<1>20. lo < b => q.ptr < p.ptr
  <2>1. lo < b => get_block_payload(lo) < get_block_payload(b)
    BY <1>1, <1>4, PayloadsInOrder
  <2> QED BY <2>1 DEF Owns, Holds
<1> HIDE DEF after, q
<1> QED BY <1>16, <1>19, <1>20 DEF q

(* A payload's block is the same one as long as it is kept.                *)
LEMMA KeptBlock ==
  ASSUME NEW h, NEW g, NEW l, Sound(h, l, {}), Keeps(h, g), NEW p \in l,
         NEW b \in Starts(h), Owns(h, p, b)
  PROVE  b \in Starts(g) /\ Owns(g, p, b)
BY DEF Keeps, Owns

(* mm_malloc, copy, mm_free: the payload's new block is found before the   *)
(* old one is free.                                                        *)
LEMMA MoveSound ==
  ASSUME NEW h, NEW l, Sound(h, l, {}), NEW p \in l, NEW b \in Starts(h), Owns(h, p, b),
         NEW size \in Requests,
         LET length == block_length_from_payload_size(size)
         IN  rb_lower_bound(h, length) = {} => h.brk + ExtendBy(h, length) <= MAX_HEAP,
         NEW found \in Finds(h, block_length_from_payload_size(size))
  PROVE  LET given == allocate(found.heap, found.block, size)
             g == release(given.heap, b)
             q == Holds(get_block_payload(given.block), size)
         IN  /\ Sound(g, (l \ {p}) \cup {q}, {}) /\ q \notin l \ {p}
             /\ h.brk <= g.brk /\ Seconds(g) \subseteq Seconds(h)
<1> DEFINE length == block_length_from_payload_size(size)
           given == allocate(found.heap, found.block, size)
           q == Holds(get_block_payload(given.block), size)
           g == release(given.heap, b)
<1>1. size \in Nat /\ length \in Nat /\ length % 4 = 0 /\ length > MINIMAL_BLOCK_SIZE
  BY RequestsAssumption, BlockLength
<1> HIDE DEF length
<1>2. /\ Sound(found.heap, l, {found.block}) /\ found.block \in Free(found.heap)
      /\ Length(found.heap, found.block) >= length /\ h.brk <= found.heap.brk
      /\ Keeps(h, found.heap) /\ Seconds(found.heap) \subseteq Seconds(h)
  <2>1. rb_lower_bound(h, length) = {} => h.brk + ExtendBy(h, length) <= MAX_HEAP
    BY DEF length
  <2>2. found \in Finds(h, length)
    BY DEF length
  <2> QED BY <1>1, <2>1, <2>2, FindsSound
<1>3. /\ Sound(given.heap, l \cup {q}, {}) /\ q \notin l
      /\ given.heap.brk = found.heap.brk /\ Keeps(found.heap, given.heap)
      /\ Seconds(given.heap) \subseteq Seconds(found.heap)
  BY <1>2, AllocateSound DEF length
<1>4. b \in Starts(given.heap) /\ Owns(given.heap, p, b)
  <2> HIDE DEF given
  <2>1. Keeps(h, given.heap)
    BY <1>2, <1>3 DEF Keeps
  <2> QED BY <2>1, KeptBlock
<1> HIDE DEF given, q
<1> DEFINE l2 == l \cup {q}
<1>5. p \in l2 /\ l2 \ {p} = (l \ {p}) \cup {q}
  BY <1>3
<1> HIDE DEF l2
<1>6. /\ Sound(g, l2 \ {p}, {}) /\ g.brk = given.heap.brk
      /\ Seconds(g) \subseteq Seconds(given.heap)
  <2>1. Sound(given.heap, l2, {})
    BY <1>3 DEF l2
  <2> QED BY <1>4, <1>5, <2>1, ReleaseSound
<1> HIDE DEF g
<1> QED BY <1>2, <1>3, <1>5, <1>6 DEF g, q, given

(* mm_init.                                                                *)
LEMMA FreshSound == Sound(Fresh, {}, {}) /\ Fresh.brk \in Nat /\ Seconds(Fresh) = {}
<1> DEFINE header == [length |-> INIT_HEAP_AVAILABLE_SIZE,
                      is_free |-> TRUE, previous_is_free |-> FALSE,
                      type |-> get_block_type(HEAP_HEADER_SIZE)]
           n == INIT_HEAP_AVAILABLE_SIZE
<1>1. n \in Nat /\ n % 4 = 0 /\ n >= 16 /\ 16 + n <= MAX_HEAP /\ MAX_HEAP \in Nat
  BY LengthsAssumption, LimitsAssumption
<1>2. Fresh = [block |-> [b \in {16} |-> header], tree |-> {16}, last_is_free |-> TRUE,
               brk |-> 16 + n]
  <2>1. [b \in {16} |-> [length |-> INIT_HEAP_AVAILABLE_SIZE,
                        is_free |-> TRUE, previous_is_free |-> FALSE,
                        type |-> get_block_type(b)]] = [b \in {16} |-> header]
    OBVIOUS
  <2> QED BY <2>1 DEF Fresh
<1> HIDE DEF n
<1>3. /\ Starts(Fresh) = {16} /\ Fresh.block[16] = header /\ Fresh.tree = {16}
      /\ Fresh.last_is_free = TRUE /\ Fresh.brk = 16 + n
  BY <1>2 DEF Starts
<1>4. header \in header_t /\ header.length = n /\ header.is_free /\ ~ header.previous_is_free
      /\ header.type = get_block_type(16)
  BY <1>1, TypeBit DEF header_t, n
<1> HIDE DEF header
<1>5. Length(Fresh, 16) = n /\ IsFree(Fresh, 16) /\ End(Fresh, 16) = 16 + n
  BY <1>3, <1>4 DEF Length, IsFree, End
<1>6. IsHeap(Fresh)
  <2>1. Fresh.block \in [Starts(Fresh) -> header_t]
    BY <1>2, <1>3, <1>4
  <2>2. Fresh = [block |-> Fresh.block, tree |-> Fresh.tree,
                 last_is_free |-> Fresh.last_is_free, brk |-> Fresh.brk]
    <3> HIDE DEF n
    <3> QED BY ONLY <1>2
  <2>3. Starts(Fresh) \subseteq Nat /\ Fresh.tree \subseteq Nat /\ Fresh.brk \in Nat
    BY <1>1, <1>3
  <2>4. Fresh.last_is_free \in BOOLEAN
    BY <1>3, Zenon
  <2> QED BY ONLY <2>1, <2>2, <2>3, <2>4 DEF IsHeap
<1>7. WellFormed(Fresh)
  BY <1>1, <1>3, <1>4, <1>5 DEF WellFormed
<1>8. EndToEnd(Fresh)
  BY <1>1, <1>3, <1>5 DEF EndToEnd
<1>9. Told(Fresh)
  BY <1>3, <1>4, <1>5 DEF Told
<1>10. Held(Fresh, {})
  BY <1>3, <1>5, FS_EmptySet DEF Held
<1>11. Fresh.tree = Free(Fresh) \ {}
  BY <1>3, <1>5 DEF Free
<1>12. Seconds(Fresh) = {}
  BY <1>3, <1>4 DEF Seconds, Free
<1> QED BY <1>1, <1>3, <1>6, <1>7, <1>8, <1>9, <1>10, <1>11, <1>12 DEF Sound, Blocks

-----------------------------------------------------------------------------
(* Every call keeps the invariant and does what module Allocator promises. *)

LEMMA Given ==
  ASSUME NEW g, NEW others, NEW q, Sound(g, others \cup {q}, {}), q \notin others
  PROVE  Alloc!Fits(q, others, g.brk)
<1> DEFINE l == others \cup {q}
<1>1. Blocks(g) /\ Held(g, l) /\ q \in l /\ l \ {q} = others
  BY DEF Sound
<1> HIDE DEF l
<1>2. Alloc!Fits(q, l \ {q}, g.brk)
  BY <1>1, HeldFits
<1> QED BY <1>1, <1>2

LEMMA Gives ==
  ASSUME NEW others, NEW q, Sound(heap', others \cup {q}, {}), q \notin others,
         live' = others \cup {q}, heap.brk <= heap'.brk
  PROVE  IInv' /\ Alloc!Gives(others) /\ Alloc!Grows
<1>1. Consistent(heap', live')
  BY ConsistentIsSound
<1>2. Alloc!Fits(q, others, heap'.brk)
  BY Given
<1>3. heap'.brk <= MAX_HEAP
  BY DEF Sound
<1> QED BY <1>1, <1>2, <1>3 DEF IInv, Alloc!Gives, Alloc!Grows

LEMMA InitStep ==
  ASSUME mm_init PROVE IInv' /\ Alloc!init /\ Seconds(heap') \subseteq Seconds(heap)
<1>1. Sound(heap', live', {}) /\ heap'.brk \in Nat /\ Seconds(heap') = {}
  BY FreshSound DEF mm_init
<1>2. Consistent(heap', live')
  BY <1>1, ConsistentIsSound
<1>3. heap'.brk \in 0 .. MAX_HEAP
  BY <1>1, LimitsAssumption DEF Sound
<1> QED BY <1>1, <1>2, <1>3 DEF IInv, mm_init, Alloc!init

LEMMA MallocStep ==
  ASSUME IInv, NEW size \in Requests, mm_malloc(size)
  PROVE  IInv' /\ Alloc!malloc /\ Seconds(heap') \subseteq Seconds(heap)
<1> DEFINE length == block_length_from_payload_size(size)
<1>1. Sound(heap, live, {})
  BY ConsistentIsSound DEF IInv
<1>2. size \in Nat /\ length \in Nat /\ length % 4 = 0 /\ length > MINIMAL_BLOCK_SIZE
  BY RequestsAssumption, BlockLength
<1>3. PICK found \in Finds(heap, length) :
        LET given == allocate(found.heap, found.block, size)
        IN  /\ heap' = given.heap
            /\ live' = live \cup {Holds(get_block_payload(given.block), size)}
  BY DEF mm_malloc
<1>4. rb_lower_bound(heap, length) = {} => heap.brk + ExtendBy(heap, length) <= MAX_HEAP
  BY DEF mm_malloc, MayGrow, GrowsForMalloc
<1> HIDE DEF length
<1>5. /\ Sound(found.heap, live, {found.block}) /\ found.block \in Free(found.heap)
      /\ Length(found.heap, found.block) >= length /\ heap.brk <= found.heap.brk
      /\ Seconds(found.heap) \subseteq Seconds(heap)
  BY <1>1, <1>2, <1>4, FindsSound
<1> DEFINE given == allocate(found.heap, found.block, size)
           q == Holds(get_block_payload(given.block), size)
<1>6. /\ Sound(given.heap, live \cup {q}, {}) /\ q \notin live
      /\ given.heap.brk = found.heap.brk /\ Seconds(given.heap) \subseteq Seconds(found.heap)
  BY <1>5, AllocateSound DEF length
<1>7. heap' = given.heap /\ live' = live \cup {q}
  BY <1>3
<1> HIDE DEF given, q
<1>8. Sound(heap', live \cup {q}, {}) /\ heap.brk <= heap'.brk
  BY <1>5, <1>6, <1>7
<1>9. IInv' /\ Alloc!Gives(live) /\ Alloc!Grows
  BY <1>6, <1>7, <1>8, Gives
<1>10. Seconds(heap') \subseteq Seconds(heap)
  BY <1>5, <1>6, <1>7
<1> QED BY <1>9, <1>10 DEF Alloc!malloc

LEMMA OwnBlock ==
  ASSUME IInv, NEW p \in live
  PROVE  Sound(heap, live, {}) /\ Block(p) \in Starts(heap) /\ Owns(heap, p, Block(p))
<1>1. Sound(heap, live, {})
  BY ConsistentIsSound DEF IInv
<1>2. Blocks(heap) /\ Held(heap, live)
  BY <1>1 DEF Sound
<1> QED BY <1>1, <1>2, BlockOf DEF Block

LEMMA FreeStep ==
  ASSUME IInv, NEW p \in live, mm_free(p)
  PROVE  IInv' /\ Alloc!free /\ Seconds(heap') \subseteq Seconds(heap)
<1>1. Sound(heap, live, {}) /\ Block(p) \in Starts(heap) /\ Owns(heap, p, Block(p))
  BY OwnBlock
<1>2. heap' = release(heap, Block(p)) /\ live' = live \ {p}
  BY DEF mm_free
<1>3. /\ Sound(heap', live \ {p}, {}) /\ heap'.brk = heap.brk
      /\ Seconds(heap') \subseteq Seconds(heap)
  BY <1>1, <1>2, ReleaseSound
<1>4. Consistent(heap', live')
  BY <1>2, <1>3, ConsistentIsSound
<1> QED BY <1>2, <1>3, <1>4 DEF IInv, Alloc!free

LEMMA MovedDown ==
  ASSUME NEW p \in live, NEW q, Held(heap, live), q \notin live \ {p},
         live' = (live \ {p}) \cup {q}, q.ptr < p.ptr
  PROVE  MovesDown
<1>1. IsFiniteSet(live) /\ p.ptr \in Nat
  BY DEF Held
<1>2. p # q
  BY <1>1
<1>3. p \notin live' /\ q \in live' /\ q \notin live
  BY <1>2
<1> DEFINE others == live \ {p}
<1>4. IsFiniteSet(others) /\ Cardinality(others) = Cardinality(live) - 1
  BY <1>1, FS_RemoveElement
<1>5. Cardinality(others \cup {q}) = Cardinality(others) + 1
  <2> HIDE DEF others
  <2>1. q \notin others
    BY DEF others
  <2> QED BY <1>4, <2>1, FS_AddElement
<1>6. Cardinality(live) \in Nat
  BY <1>1, FS_CardinalityType
<1>7. Cardinality(live') = Cardinality(live)
  BY <1>4, <1>5, <1>6
<1> QED BY <1>3, <1>7 DEF MovesDown

LEMMA ReallocStep ==
  ASSUME ~ MayLoseTypeBit, IInv, NEW p \in live, NEW size \in Requests, mm_realloc(p, size)
  PROVE  /\ IInv' /\ Alloc!realloc
         /\ Seconds(heap') \subseteq Seconds(heap) \/ MovesDown
<1> DEFINE b == Block(p)
           length == block_length_from_payload_size(size)
<1>1. Sound(heap, live, {}) /\ b \in Starts(heap) /\ Owns(heap, p, b)
  BY OwnBlock
<1>2. /\ Blocks(heap) /\ heap.brk \in Nat
      /\ Length(heap, b) \in Nat /\ Length(heap, b) > MINIMAL_BLOCK_SIZE /\ b \in Nat
      /\ heap.brk \notin Starts(heap) /\ End(heap, b) = b + Length(heap, b)
  BY <1>1, BlockFacts DEF Sound
<1>3. size \in Nat /\ size > 4 /\ length \in Nat /\ size <= length - 12
  BY RequestsAssumption, BlockLength DEF payload_size_from_block_length
<1>4. Payload(heap, b) = Length(heap, b) - 12
  BY DEF Payload, payload_size_from_block_length
<1> HIDE DEF b, length
<1> SUFFICES \E q : /\ Sound(heap', (live \ {p}) \cup {q}, {}) /\ q \notin live \ {p}
                    /\ live' = (live \ {p}) \cup {q} /\ heap.brk <= heap'.brk
                    /\ Seconds(heap') \subseteq Seconds(heap) \/ q.ptr < p.ptr
  <2>1. PICK q : /\ Sound(heap', (live \ {p}) \cup {q}, {}) /\ q \notin live \ {p}
                 /\ live' = (live \ {p}) \cup {q} /\ heap.brk <= heap'.brk
                 /\ Seconds(heap') \subseteq Seconds(heap) \/ q.ptr < p.ptr
    OBVIOUS
  <2> DEFINE others == live \ {p}
  <2>2. IInv' /\ Alloc!Gives(others) /\ Alloc!Grows
    <3>1. /\ Sound(heap', others \cup {q}, {}) /\ q \notin others
          /\ live' = others \cup {q} /\ heap.brk <= heap'.brk
      BY <2>1
    <3> HIDE DEF others
    <3> QED BY <3>1, Gives
  <2>3. q.ptr < p.ptr => MovesDown
    BY <1>1, <2>1, MovedDown DEF Sound
  <2> QED BY <2>1, <2>2, <2>3 DEF Alloc!realloc
<1>5. CASE ReallocInPlace(p, size)
  <2> DEFINE q == Holds(get_block_payload(b), size)
  <2>1. size = Payload(heap, b) /\ heap' = heap /\ live' = (live \ {p}) \cup {q}
    BY <1>5 DEF ReallocInPlace, Resized, b
  <2>2. size <= payload_size_from_block_length(Length(heap, b))
    BY <1>3, <2>1 DEF Payload
  <2>3. Sound(heap, (live \ {p}) \cup {q}, {}) /\ q \notin live \ {p}
    BY <1>1, <2>2, KeepSound
  <2>4. heap.brk <= heap.brk
    BY <1>2
  <2> QED BY <2>1, <2>3, <2>4
<1>6. CASE ReallocShrinks(p, size)
  <2> DEFINE q == Holds(get_block_payload(b), size)
  <2>1. /\ size < Payload(heap, b) /\ heap' = shrink(heap, b, size)
        /\ live' = (live \ {p}) \cup {q}
    BY <1>6 DEF ReallocShrinks, Resized, b
  <2>2. /\ Sound(heap', (live \ {p}) \cup {q}, {}) /\ q \notin live \ {p}
        /\ heap.brk <= heap'.brk /\ Seconds(heap') \subseteq Seconds(heap)
    BY <1>1, <2>1, ShrinkSound
  <2> QED BY <2>1, <2>2
<1>7. CASE ReallocGrowsAtEnd(p, size)
  <2> DEFINE q == Holds(get_block_payload(b), size)
             grow == min_grow_size(heap, b, size)
  <2>1. /\ size > Payload(heap, b) /\ heap' = growlast(heap, b, size)
        /\ live' = (live \ {p}) \cup {q} /\ AtEnd(b, size)
        /\ heap.brk + (grow - After(heap, b)) <= MAX_HEAP
    BY <1>7 DEF ReallocGrowsAtEnd, Resized, b, Grows, MayGrow
  <2>2. grow = length - (Length(heap, b) - 12)
    BY DEF min_grow_size, payload_size_from_block_length, length
  <2>3. grow >= 0
    BY <1>2, <1>3, <1>4, <2>1, <2>2
  <2> HIDE DEF grow
  <2>4. b + Length(heap, b) + After(heap, b) = heap.brk /\ After(heap, b) <= grow
    <3>1. CASE is_last_block(heap, b)
      <4>1. b + Length(heap, b) = heap.brk
        BY <3>1 DEF is_last_block
      <4>2. get_next_block_if_free(heap, b) = {}
        <5>1. End(heap, b) \notin Free(heap)
          BY <1>2, <4>1 DEF Free
        <5> QED BY <1>1, <1>2, <5>1, NextIs
      <4>3. After(heap, b) = 0
        BY <4>2 DEF After, Neighbour
      <4> QED BY <1>2, <2>3, <4>1, <4>3
    <3>2. CASE ~ is_last_block(heap, b)
      BY <2>1, <3>2 DEF AtEnd, grow
    <3> QED BY <3>1, <3>2
  <2>5. /\ Sound(heap', (live \ {p}) \cup {q}, {}) /\ q \notin live \ {p}
        /\ heap.brk <= heap'.brk /\ Seconds(heap') \subseteq Seconds(heap)
    BY <1>1, <2>1, <2>4, GrowLastSound DEF grow
  <2> QED BY <2>1, <2>5
<1>8. CASE ReallocMerges(p, size)
  <2> DEFINE merged == merge(heap, b, size)
             q == Holds(get_block_payload(merged.block), size)
  <2>1. /\ BothEnough(heap, b, size) /\ size > Payload(heap, b) /\ heap' = merged.heap
        /\ live' = (live \ {p}) \cup {q}
        /\ merged.heap.block[merged.block].type = get_block_type(merged.block)
    BY <1>8 DEF ReallocMerges, Resized, Grows, b
  <2>2. /\ Sound(merged.heap, (live \ {p}) \cup {q}, {}) /\ q \notin live \ {p}
        /\ heap.brk <= merged.heap.brk
        /\ Seconds(merged.heap) \subseteq Seconds(heap) \/ q.ptr < p.ptr
    BY <1>1, <2>1, MergeSound
  <2> HIDE DEF merged, q
  <2> QED BY <2>1, <2>2
<1>9. CASE ReallocMoves(p, size)
  <2>1. PICK found \in Finds(heap, length) :
          LET given == allocate(found.heap, found.block, size)
          IN  heap' = release(given.heap, b) /\ Resized(p, given.block, size)
    BY <1>9 DEF ReallocMoves, b, length
  <2> DEFINE given == allocate(found.heap, found.block, size)
             q == Holds(get_block_payload(given.block), size)
             g == release(given.heap, b)
  <2>2. heap' = g /\ live' = (live \ {p}) \cup {q}
    BY <2>1 DEF Resized
  <2>3. rb_lower_bound(heap, length) = {} => heap.brk + ExtendBy(heap, length) <= MAX_HEAP
    BY <1>9 DEF ReallocMoves, MayGrow, GrowsForMalloc, length
  <2>4. /\ Sound(g, (live \ {p}) \cup {q}, {}) /\ q \notin live \ {p}
        /\ heap.brk <= g.brk /\ Seconds(g) \subseteq Seconds(heap)
    BY <1>1, <2>3, MoveSound DEF length
  <2> HIDE DEF given, q, g
  <2> QED BY <2>2, <2>4
<1>10. size # 0
  BY <1>3
<1> QED BY <1>5, <1>6, <1>7, <1>8, <1>9, <1>10 DEF mm_realloc

(* A call makes no free block follow a free one, unless it moves a payload *)
(* towards the start of the heap.                                          *)
Kept == Seconds(heap') \subseteq Seconds(heap) \/ MovesDown

LEMMA Step ==
  ASSUME ~ MayLoseTypeBit, IInv, Next
  PROVE  IInv' /\ Alloc!Next /\ Kept
<1>1. CASE mm_init
  BY <1>1, InitStep DEF Alloc!Next, Kept
<1>2. ASSUME NEW size \in Requests, mm_malloc(size) PROVE IInv' /\ Alloc!Next /\ Kept
  BY <1>2, MallocStep DEF Alloc!Next, Kept
<1>3. ASSUME NEW p \in live, mm_free(p) PROVE IInv' /\ Alloc!Next /\ Kept
  BY <1>3, FreeStep DEF Alloc!Next, Kept
<1>4. ASSUME NEW p \in live, NEW size \in Requests \cup {0}, mm_realloc(p, size)
      PROVE  IInv' /\ Alloc!Next /\ Kept
  <2>1. CASE size = 0
    <3>1. mm_free(p)
      BY <1>4, <2>1 DEF mm_realloc
    <3> QED BY <1>3, <3>1
  <2>2. CASE size \in Requests
    BY <1>4, <2>2, ReallocStep DEF Alloc!Next, Kept
  <2> QED BY <2>1, <2>2
<1> QED BY <1>1, <1>2, <1>3, <1>4 DEF Next

LEMMA Stutter ==
  ASSUME IInv, UNCHANGED vars
  PROVE  IInv' /\ UNCHANGED Alloc!vars
BY DEF vars, Alloc!vars, IInv, Consistent, IsHeap, WellFormed, EndToEnd, Told, InTree, Held,
       Owns, End, IsFree, Length, Starts

LEMMA InitIInv == Init => IInv /\ Alloc!Init
<1> SUFFICES ASSUME Init PROVE IInv /\ Alloc!Init
  OBVIOUS
<1>1. Sound(heap, live, {}) /\ heap.brk \in Nat
  BY FreshSound DEF Init
<1>2. Consistent(heap, live)
  BY <1>1, ConsistentIsSound
<1>3. heap.brk \in 0 .. MAX_HEAP
  BY <1>1, LimitsAssumption DEF Sound
<1> QED BY <1>2, <1>3 DEF IInv, Init, Alloc!Init

(* The invariant: after any calls of mm_init, mm_malloc, mm_free and       *)
(* mm_realloc, blocks lie end to end, each is told of the one before it,   *)
(* the tree has the free ones, and each of the others is one payload's.    *)
(* mm_realloc may not lose the type bit (mm.c:88) when it moves a payload. *)
THEOREM Invariance == ASSUME ~ MayLoseTypeBit PROVE Spec => []IInv
<1>1. Init => IInv
  BY InitIInv
<1>2. IInv /\ [Next]_vars => IInv'
  BY Step, Stutter
<1> QED BY <1>1, <1>2, PTL DEF Spec

(* What the program sees of the allocator is what module Allocator         *)
(* promises: payloads are aligned, in the heap and apart, a call moves no  *)
(* payload but its own, and the heap grows only, to MAX_HEAP at most.      *)
THEOREM Refinement == ASSUME ~ MayLoseTypeBit PROVE Spec => ImplementsAllocator
<1>1. Init => Alloc!Init
  BY InitIInv
<1>2. IInv /\ [Next]_vars => [Alloc!Next]_(Alloc!vars)
  BY Step, Stutter
<1> QED BY <1>1, <1>2, Invariance, PTL DEF Spec, ImplementsAllocator, Alloc!Spec

-----------------------------------------------------------------------------
(* What the invariant says of the heap, part by part.                      *)

LEMMA EndsCounted ==
  ASSUME NEW h, Blocks(h)
  PROVE  Cardinality({b + Length(h, b) : b \in Starts(h)}) = Cardinality(Starts(h))
<1> DEFINE S == Starts(h)
           T == {b + Length(h, b) : b \in S}
           f == [b \in S |-> b + Length(h, b)]
<1>1. \A b \in S : b \in Nat /\ b <= h.brk /\ b < b + Length(h, b)
  BY BlockFacts
<1>2. \A b, c \in S : b < c => b + Length(h, b) <= c
  BY BlockFacts
<1>3. IsFiniteSet(S)
  <2>1. S \in SUBSET Nat /\ h.brk \in Nat
    BY <1>1, BlockFacts
  <2> HIDE DEF S
  <2> QED BY <1>1, <2>1, FS_BoundedSetOfNaturals
<1>4. \A b, c \in S : b + Length(h, b) = c + Length(h, c) => b = c
  <2> SUFFICES ASSUME NEW b \in S, NEW c \in S, b + Length(h, b) = c + Length(h, c)
               PROVE  b = c
    OBVIOUS
  <2>1. b \in Nat /\ c \in Nat /\ Length(h, b) \in Nat /\ Length(h, c) \in Nat
    BY BlockFacts
  <2> QED BY <1>1, <1>2, <2>1
<1>5. f \in Bijection(S, T)
  <2>1. f \in [S -> T]
    OBVIOUS
  <2>2. \A b, c \in S : f[b] = f[c] => b = c
    BY <1>4
  <2>3. \A t \in T : \E b \in S : f[b] = t
    OBVIOUS
  <2> HIDE DEF f, S, T
  <2> QED BY <2>1, <2>2, <2>3 DEF Bijection, Injection, Surjection, IsInjective
<1> HIDE DEF f, S, T
<1>6. ExistsBijection(S, T)
  BY <1>5 DEF ExistsBijection
<1>7. Cardinality(T) = Cardinality(S)
  BY <1>3, <1>6, FS_Bijection
<1> QED BY <1>7 DEF S, T

LEMMA Tiles == IInv => BlocksTileTheHeap
<1> SUFFICES ASSUME IInv PROVE BlocksTileTheHeap
  OBVIOUS
<1> DEFINE S == Starts(heap)
           ends == {b + Length(heap, b) : b \in S}
<1>1. Blocks(heap)
  BY ConsistentIsSound DEF IInv, Sound
<1>2. \A b \in S : Length(heap, b) >= MINIMAL_BLOCK_SIZE
  BY <1>1, BlockFacts
<1>3. \A b \in S : /\ b \in Nat /\ b < heap.brk /\ b >= HEAP_HEADER_SIZE
                   /\ End(heap, b) = b + Length(heap, b) /\ End(heap, b) > b
                   /\ End(heap, b) \in S \cup {heap.brk}
  <2>1. \A b \in S : b >= HEAP_HEADER_SIZE
    BY <1>1 DEF Blocks, WellFormed
  <2> QED BY <1>1, <2>1, BlockFacts
<1>4. heap.brk \notin S
  BY <1>3
<1>5. HEAP_HEADER_SIZE \notin ends
  BY <1>3
<1>6. HEAP_HEADER_SIZE \in S /\ heap.brk # HEAP_HEADER_SIZE
  BY <1>1, <1>3 DEF Blocks, EndToEnd
<1>7. \A c \in (S \ {HEAP_HEADER_SIZE}) \cup {heap.brk} : c \in ends
  <2> TAKE c \in (S \ {HEAP_HEADER_SIZE}) \cup {heap.brk}
  <2>1. PICK b \in S : End(heap, b) = c
    BY <1>1 DEF Blocks, EndToEnd
  <2> QED BY <1>3, <2>1
<1>8. \A c \in ends : c \in S \cup {heap.brk}
  BY <1>3
<1>9. S \cup {heap.brk} = ends \cup {HEAP_HEADER_SIZE}
  <2> HIDE DEF S, ends
  <2> QED BY <1>6, <1>7, <1>8
<1>10. Cardinality(ends) = Cardinality(S)
  BY <1>1, EndsCounted
<1> QED BY <1>2, <1>4, <1>5, <1>9, <1>10 DEF BlocksTileTheHeap

LEMMA Neighbours == IInv => NeighboursAreTold
<1> SUFFICES ASSUME IInv, NEW b \in Starts(heap)
             PROVE  heap.block[b].is_free =
                      LET n == get_logical_next_block(heap, b)
                      IN  IF n = rbnull THEN heap.last_is_free ELSE heap.block[n].previous_is_free
  BY DEF NeighboursAreTold
<1>1. Blocks(heap)
  BY ConsistentIsSound DEF IInv, Sound
<1>2. /\ End(heap, b) = b + Length(heap, b) /\ End(heap, b) \in Nat /\ End(heap, b) # 0
      /\ IsFree(heap, b) = IF End(heap, b) = heap.brk THEN heap.last_is_free
                           ELSE heap.block[End(heap, b)].previous_is_free
  <2>1. b \in Nat /\ Length(heap, b) \in Nat /\ Length(heap, b) > 0
        /\ End(heap, b) = b + Length(heap, b)
    BY <1>1, BlockFacts
  <2> QED BY <1>1, <2>1 DEF Blocks, Told
<1>3. CASE End(heap, b) = heap.brk
  BY <1>2, <1>3 DEF get_logical_next_block, is_last_block, rbnull, IsFree
<1>4. CASE End(heap, b) # heap.brk
  BY <1>2, <1>4 DEF get_logical_next_block, is_last_block, rbnull, IsFree
<1> QED BY <1>3, <1>4

LEMMA Payloads == IInv => PayloadsAreGood
<1> SUFFICES ASSUME IInv PROVE PayloadsAreGood
  OBVIOUS
<1>1. /\ Blocks(heap) /\ Held(heap, live) /\ heap.tree = Free(heap)
  BY ConsistentIsSound DEF IInv, Sound
<1>2. \A p \in live : /\ Block(p) \in Starts(heap)
                      /\ \A b \in Starts(heap) : Owns(heap, p, b) <=> b = Block(p)
  BY <1>1, BlockOf DEF Block
<1>3. ASSUME NEW p \in live
      PROVE  /\ p.ptr % 8 = 0
             /\ Block(p) \in Starts(heap) \ heap.tree
             /\ Payload(heap, Block(p)) >= p.size
             /\ p.ptr = get_block_payload(Block(p))
  <2>1. Owns(heap, p, Block(p)) /\ Block(p) \in Starts(heap)
    BY <1>2
  <2>2. Block(p) \in Nat /\ Block(p) % 4 = 0 /\ Length(heap, Block(p)) \in Nat
    BY <1>1, <2>1, BlockFacts
  <2>3. p.size \in Nat
    BY <1>1, RequestsAssumption DEF Held
  <2>4. Payload(heap, Block(p)) >= p.size
    BY <2>1, <2>2, <2>3 DEF Owns, Payload, payload_size_from_block_length
  <2>5. p.ptr % 8 = 0 /\ p.ptr = get_block_payload(Block(p))
    BY <2>1, <2>2, PayloadOf DEF Owns
  <2>6. Block(p) \notin heap.tree
    BY <1>1, <2>1 DEF Owns, Free
  <2> QED BY <2>1, <2>4, <2>5, <2>6
<1>4. \A p, q \in live : p # q => Block(p) # Block(q)
  BY <1>1, <1>3 DEF Held
<1>5. \A b \in Starts(heap) : ~ heap.block[b].is_free => \E p \in live : Block(p) = b
  BY <1>1, <1>2 DEF Held, IsFree
<1>6. \A p \in live : Block(p) \in Starts(heap) /\ ~ heap.block[Block(p)].is_free
  BY <1>2 DEF Owns, IsFree
<1>7. {Block(p) : p \in live} = {b \in Starts(heap) : ~ heap.block[b].is_free}
  BY <1>5, <1>6
<1> QED BY <1>3, <1>4, <1>7 DEF PayloadsAreGood

LEMMA Types == IInv => TypeOK
<1> SUFFICES ASSUME IInv PROVE TypeOK
  OBVIOUS
<1>1. /\ Blocks(heap) /\ Held(heap, live) /\ heap.tree = Free(heap) /\ heap.brk <= MAX_HEAP
  BY ConsistentIsSound DEF IInv, Sound
<1>2. heap.brk \in Nat /\ heap.brk >= HEAP_HEADER_SIZE
  <2>1. 16 \in Starts(heap)
    BY <1>1 DEF Blocks, EndToEnd
  <2>2. heap.brk \in Nat /\ \A b \in Starts(heap) : b < heap.brk
    BY <1>1, BlockFacts
  <2> QED BY <2>1, <2>2
<1>3. heap.brk \in HEAP_HEADER_SIZE .. MAX_HEAP
  BY <1>1, <1>2, LimitsAssumption
<1>4. heap.tree \subseteq Starts(heap)
  BY <1>1 DEF Free
<1>5. /\ Starts(heap) \subseteq Nat /\ heap.last_is_free \in BOOLEAN
      /\ \A b \in Starts(heap) : heap.block[b] \in header_t
  BY <1>1 DEF Blocks, IsHeap
<1> QED BY <1>1, <1>3, <1>4, <1>5 DEF TypeOK, Held

(* The heap, its blocks and their headers are of their types, and the heap *)
(* stays within its limit.                                                 *)
THEOREM TypeCorrect == ASSUME ~ MayLoseTypeBit PROVE Spec => []TypeOK
BY Invariance, Types, PTL

(* Whatever is split, merged, moved and grown, blocks follow one another   *)
(* from the heap's header to its end, without a gap or an overlap.         *)
THEOREM BlocksAlwaysTile == ASSUME ~ MayLoseTypeBit PROVE Spec => []BlocksTileTheHeap
BY Invariance, Tiles, PTL

(* Every block, and rbnull for the last one, is told whether the one       *)
(* before it is free (mm.c:1107).                                          *)
THEOREM NeighboursAlwaysTold == ASSUME ~ MayLoseTypeBit PROVE Spec => []NeighboursAreTold
BY Invariance, Neighbours, PTL

(* The tree of mm_malloc holds the free blocks and no others.              *)
THEOREM TreeAlwaysHoldsFree == ASSUME ~ MayLoseTypeBit PROVE Spec => []TreeHoldsFreeBlocks
<1>1. IInv => TreeHoldsFreeBlocks
  BY DEF IInv, Consistent, InTree, TreeHoldsFreeBlocks, IsFree
<1> QED BY <1>1, Invariance, PTL

(* A payload is aligned to 8 and in a block of its own, which is in use,   *)
(* large enough and found from the payload's address alone.                *)
THEOREM PayloadsAlwaysGood == ASSUME ~ MayLoseTypeBit PROVE Spec => []PayloadsAreGood
BY Invariance, Payloads, PTL

-----------------------------------------------------------------------------
(* Pairs of free neighbours, counted by the first and by the second.       *)

LEMMA PairsAreSeconds ==
  ASSUME NEW h, Blocks(h), h.tree = Free(h)
  PROVE  /\ IsFiniteSet(FreePairs(h)) /\ IsFiniteSet(Seconds(h))
         /\ Cardinality(FreePairs(h)) = Cardinality(Seconds(h))
<1> DEFINE S == FreePairs(h)
           T == Seconds(h)
           f == [b \in S |-> End(h, b)]
<1>1. \A b \in Starts(h) : b \in Nat /\ b <= h.brk /\ b < End(h, b) /\ End(h, b) \in Nat
  BY BlockFacts
<1>2. \A b, c \in Starts(h) : b < c => End(h, b) <= c
  BY BlockFacts
<1>3. S = {b \in Free(h) : End(h, b) \in Free(h)}
  <2>1. \A b \in Free(h) : get_next_block_if_free(h, b) # {} <=> End(h, b) \in Free(h)
    <3> TAKE b \in Free(h)
    <3>1. b \in Starts(h)
      BY DEF Free
    <3> QED BY <3>1, NextIs
  <2> QED BY <2>1 DEF FreePairs
<1>4. IsFiniteSet(Starts(h))
  <2> DEFINE D == Starts(h)
  <2>1. D \in SUBSET Nat /\ h.brk \in Nat
    BY <1>1, BlockFacts
  <2>2. \A b \in D : b <= h.brk
    BY <1>1
  <2> HIDE DEF D
  <2>3. IsFiniteSet(D)
    BY <2>1, <2>2, FS_BoundedSetOfNaturals
  <2> QED BY <2>3 DEF D
<1>5. S \subseteq Starts(h) /\ T \subseteq Starts(h)
  BY <1>3 DEF Free, Seconds
<1>6. IsFiniteSet(S) /\ IsFiniteSet(T)
  BY <1>4, <1>5, FS_Subset
<1>7. \A b \in S : End(h, b) \in T
  <2> TAKE b \in S
  <2> HIDE DEF S
  <2>1. b \in Free(h) /\ End(h, b) \in Free(h)
    BY <1>3
  <2> QED BY <2>1, NextTold
<1>8. \A b, c \in S : End(h, b) = End(h, c) => b = c
  <2> SUFFICES ASSUME NEW b \in S, NEW c \in S, End(h, b) = End(h, c) PROVE b = c
    OBVIOUS
  <2> HIDE DEF S
  <2>1. b \in Starts(h) /\ c \in Starts(h)
    BY <1>5
  <2>2. b \in Nat /\ c \in Nat /\ b < End(h, b) /\ c < End(h, c) /\ End(h, b) \in Nat
    BY <1>1, <2>1
  <2>3. (b < c => End(h, b) <= c) /\ (c < b => End(h, c) <= b)
    BY <1>2, <2>1
  <2> QED BY <2>2, <2>3
<1>9. \A c \in T : \E b \in S : End(h, b) = c
  <2> TAKE c \in T
  <2>1. c \in Starts(h) /\ IsFree(h, c) /\ h.block[c].previous_is_free
    BY DEF Seconds, Free
  <2>2. c # HEAP_HEADER_SIZE /\ c # h.brk
    BY <2>1, BlockFacts DEF Blocks, Told
  <2>3. PICK b \in Starts(h) : End(h, b) = c
    BY <2>1, <2>2 DEF Blocks, EndToEnd
  <2>4. IsFree(h, b)
    BY <2>1, <2>2, <2>3 DEF Blocks, Told
  <2> HIDE DEF S
  <2> QED BY <1>3, <2>1, <2>3, <2>4 DEF Free
<1> HIDE DEF S, T
<1>10. f \in Bijection(S, T)
  <2>1. f \in [S -> T]
    BY <1>7
  <2>2. \A b, c \in S : f[b] = f[c] => b = c
    BY <1>8
  <2>3. \A t \in T : \E b \in S : f[b] = t
    BY <1>9
  <2> HIDE DEF f
  <2> QED BY <2>1, <2>2, <2>3 DEF Bijection, Injection, Surjection, IsInjective
<1>11. Cardinality(T) = Cardinality(S)
  <2>1. ExistsBijection(S, T)
    BY <1>10 DEF ExistsBijection
  <2> QED BY <1>6, <2>1, FS_Bijection
<1> QED BY <1>6, <1>11 DEF S, T

(* No call leaves more pairs of free neighbours than it found, but a       *)
(* mm_realloc that moves its payload towards the start of the heap.        *)
THEOREM FreeNeighboursMerged ==
  ASSUME ~ MayLoseTypeBit PROVE Spec => FreeNeighboursAreMerged
<1>1. IInv /\ IInv' /\ Kept /\ Cardinality(FreePairs(heap')) > Cardinality(FreePairs(heap))
        => MovesDown
  <2> SUFFICES ASSUME IInv, IInv', Seconds(heap') \subseteq Seconds(heap)
               PROVE  ~ Cardinality(FreePairs(heap')) > Cardinality(FreePairs(heap))
    BY DEF Kept
  <2>1. Blocks(heap) /\ heap.tree = Free(heap) /\ Blocks(heap') /\ heap'.tree = Free(heap')
    BY DEF IInv, Consistent, Blocks, InTree, Free
  <2>2. /\ IsFiniteSet(Seconds(heap))
        /\ Cardinality(FreePairs(heap)) = Cardinality(Seconds(heap))
        /\ Cardinality(FreePairs(heap')) = Cardinality(Seconds(heap'))
    BY <2>1, PairsAreSeconds
  <2>3. /\ Cardinality(Seconds(heap')) <= Cardinality(Seconds(heap))
        /\ IsFiniteSet(Seconds(heap'))
    BY <2>2, FS_Subset
  <2>4. Cardinality(Seconds(heap')) \in Nat /\ Cardinality(Seconds(heap)) \in Nat
    BY <2>2, <2>3, FS_CardinalityType
  <2> QED BY <2>2, <2>3, <2>4
<1>2. IInv /\ [Next]_vars
        => [Cardinality(FreePairs(heap')) > Cardinality(FreePairs(heap)) => MovesDown]_vars
  BY <1>1, Step
<1> QED BY <1>2, Invariance, PTL DEF Spec, FreeNeighboursAreMerged
=============================================================================

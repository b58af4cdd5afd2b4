---------------------------- MODULE DriverProofs ----------------------------
(***************************************************************************)
(* The driver as a judge of allocators, for traces of any length, heaps    *)
(* and words of any size and every allocator.                              *)
(***************************************************************************)
EXTENDS Driver, BasicFacts

-----------------------------------------------------------------------------
(* Traces.                                                                 *)

Op == [type : {"ALLOC", "REALLOC", "FREE"}, index : Nat, size : Nat]

IsTrace(ops) == ops \in Seq(Op) /\ Orderly(ops)

(* What is read from a trace file of the runs.                             *)
LEMMA TracesAre ==
  ASSUME NEW files \in Runs, NEW n \in DOMAIN files, Readable(files[n].lines)
  PROVE  IsTrace(traceops(files[n].lines))
<1> DEFINE lines == files[n].lines
           ops == traceops(lines)
<1>1. files \in Seq([num_ids : Nat, num_ops : Nat, lines : Seq(Line)])
      /\ Orderly(ops)
  BY RunsAssumption
<1>2. lines \in Seq(Line)
  <2>1. files[n] \in [num_ids : Nat, num_ops : Nat, lines : Seq(Line)]
    BY <1>1, ElementOfSeq, LenProperties
  <2> QED BY <2>1
<1>3. Readable(lines)
  OBVIOUS
<1> HIDE DEF lines
<1>4. Len(lines) \in Nat /\ DOMAIN lines = 1 .. Len(lines)
      /\ \A k \in 1 .. Len(lines) : lines[k] \in Line
  BY <1>2, LenProperties, ElementOfSeq
<1>5. ASSUME NEW k \in 1 .. Len(lines)
      PROVE  [lines[k] EXCEPT !.type = OpTypes[lines[k].type]] \in Op
  <2>1. lines[k] \in Line /\ OpTypes[lines[k].type] \in {"ALLOC", "REALLOC", "FREE"}
    BY <1>3, <1>4 DEF Readable, OpTypes
  <2> DEFINE v == OpTypes[lines[k].type]
             x == lines[k]
  <2> HIDE DEF v, x
  <2>2. ASSUME x \in Line, v \in {"ALLOC", "REALLOC", "FREE"} PROVE [x EXCEPT !.type = v] \in Op
    BY <2>2 DEF Line, Op
  <2> QED BY <2>1, <2>2 DEF v, x
<1>6. ops \in [1 .. Len(lines) -> Op]
  BY <1>4, <1>5 DEF traceops
<1>7. ops \in Seq(Op)
  <2> HIDE DEF ops
  <2> QED BY <1>4, <1>6
<1> QED BY <1>1, <1>7 DEF IsTrace, lines

LEMMA NoTrace == IsTrace(<< >>)
BY DEF IsTrace, Orderly

LEMMA TraceIs ==
  ASSUME NEW ops, IsTrace(ops)
  PROVE  /\ Len(ops) \in Nat /\ DOMAIN ops = 1 .. Len(ops)
         /\ \A n \in 1 .. Len(ops) :
              /\ ops[n].type \in {"ALLOC", "REALLOC", "FREE"} /\ ops[n].index \in Ids
              /\ ops[n].size \in Nat
              /\ ops[n].type # "FREE" => ops[n].size > 0
              /\ ops[n].type = "ALLOC" <=> ops[n].index \notin HeldBefore(ops, n)
<1>1. Len(ops) \in Nat /\ DOMAIN ops = 1 .. Len(ops) /\ \A n \in 1 .. Len(ops) : ops[n] \in Op
  BY LenProperties, ElementOfSeq DEF IsTrace
<1>2. \A n \in 1 .. Len(ops) : ops[n].type \in {"ALLOC", "REALLOC", "FREE"} /\ ops[n].size \in Nat
  BY <1>1 DEF Op
<1> QED BY <1>1, <1>2 DEF IsTrace, Orderly

(* What a request does to the payloads that are held.                      *)
LEMMA HeldGoesOn ==
  ASSUME NEW ops, IsTrace(ops), NEW n \in 1 .. Len(ops)
  PROVE  HeldBefore(ops, n + 1) = IF ops[n].type = "FREE"
                                  THEN HeldBefore(ops, n) \ {ops[n].index}
                                  ELSE HeldBefore(ops, n) \cup {ops[n].index}
<1>1. n \in Nat /\ n >= 1 /\ ops[n].index \in Ids
  BY TraceIs
<1> DEFINE frees(m, id) == ops[m].type = "FREE" /\ ops[m].index = id
           gives(k, id) == ops[k].type # "FREE" /\ ops[k].index = id
           kept(id, k, last) == gives(k, id) /\ \A m \in k + 1 .. last : ~ frees(m, id)
<1>2. /\ HeldBefore(ops, n) = {id \in Ids : \E k \in 1 .. n - 1 : kept(id, k, n - 1)}
      /\ HeldBefore(ops, n + 1) = {id \in Ids : \E k \in 1 .. n : kept(id, k, n)}
  BY <1>1 DEF HeldBefore
<1>3. ASSUME NEW id \in Ids
      PROVE  (\E k \in 1 .. n : kept(id, k, n)) <=>
               \/ gives(n, id)
               \/ ~ frees(n, id) /\ \E k \in 1 .. n - 1 : kept(id, k, n - 1)
  BY <1>1
<1> DEFINE still(id) == \E k \in 1 .. n - 1 : kept(id, k, n - 1)
           now(id) == \E k \in 1 .. n : kept(id, k, n)
<1>4. /\ HeldBefore(ops, n) = {id \in Ids : still(id)}
      /\ HeldBefore(ops, n + 1) = {id \in Ids : now(id)}
      /\ \A id \in Ids : now(id) <=> gives(n, id) \/ (~ frees(n, id) /\ still(id))
  BY <1>2, <1>3
<1> HIDE DEF still, now
<1> QED BY <1>1, <1>4

LEMMA HeldAtFirst ==
  ASSUME NEW ops PROVE HeldBefore(ops, 1) = {}
BY DEF HeldBefore

-----------------------------------------------------------------------------
(* Ranges.  b and z are where payloads are and their sizes, S the ids of   *)
(* those that are held.                                                    *)

Extent == [lo : Int, hi : Int]

(* Payloads kept as promised: aligned, in the heap, and apart.             *)
Placed(b, z, S, top) ==
  /\ \A id \in S : /\ b[id] \in Int /\ z[id] \in Nat \ {0}
                   /\ b[id] % ALIGNMENT = 0 /\ 0 <= b[id] /\ b[id] + z[id] <= top
  /\ \A i, j \in S : i # j => b[i] + z[i] <= b[j] \/ b[j] + z[j] <= b[i]

(* A new payload that may be put beside them.                              *)
FitsIn(b, z, S, ptr, size, top) ==
  /\ ptr % ALIGNMENT = 0 /\ 0 <= ptr /\ ptr + size <= top
  /\ \A id \in S : ptr + size <= b[id] \/ b[id] + z[id] <= ptr

(* The list holds the extents of these payloads, each once.                *)
Listed(rs, b, z, S) ==
  /\ rs \in Seq(Extent)
  /\ \A n \in 1 .. Len(rs) : \E id \in S : rs[n] = range_t(b[id], z[id])
  /\ \A id \in S : \E n \in 1 .. Len(rs) : rs[n] = range_t(b[id], z[id])
  /\ \A m, n \in 1 .. Len(rs) : rs[m].lo = rs[n].lo => m = n

LEMMA KeptIs ==
  ASSUME NEW answer, NEW size, NEW S
  PROVE  Kept(answer, size, Payloads(S)) <=>
           answer.ptr # NULL /\ FitsIn(blocks, block_sizes, S, answer.ptr, size, answer.brk)
<1> DEFINE p == [ptr |-> answer.ptr, size |-> size]
           others == Payloads(S)
<1>1. \A q : q \in others <=> \E id \in S : q = Payload(id)
  BY DEF Payloads
<1>2. /\ p.ptr = answer.ptr /\ p.size = size
      /\ \A id : Payload(id).ptr = blocks[id] /\ Payload(id).size = block_sizes[id]
  BY DEF Payload
<1>3. Kept(answer, size, others) <=> answer.ptr # NULL /\ Alloc!Fits(p, others, answer.brk)
  BY DEF Kept
<1> HIDE DEF p, others
<1>4. (\A q \in others : Alloc!Apart(p, q)) <=> \A id \in S : Alloc!Apart(p, Payload(id))
  BY <1>1
<1>5. \A id \in S : Alloc!Apart(p, Payload(id)) <=>
                      \/ answer.ptr + size <= blocks[id]
                      \/ blocks[id] + block_sizes[id] <= answer.ptr
  BY <1>2 DEF Alloc!Apart
<1> QED BY <1>2, <1>3, <1>4, <1>5 DEF Alloc!Fits, FitsIn, others

LEMMA PlacedAgain ==
  ASSUME NEW b \in [Ids -> Addresses \cup {NULL}], NEW z \in [Ids -> Nat], NEW S \in SUBSET Ids,
         NEW i \in Ids, NEW R, R = S \ {i}, NEW top \in Int, NEW more \in Int, top <= more,
         Placed(b, z, R, top), NEW p \in Int, NEW n \in Nat \ {0}, FitsIn(b, z, R, p, n, more)
  PROVE  Placed([b EXCEPT ![i] = p], [z EXCEPT ![i] = n], S \cup {i}, more)
<1> DEFINE c == [b EXCEPT ![i] = p]
           y == [z EXCEPT ![i] = n]
<1>1. /\ c[i] = p /\ y[i] = n
      /\ \A j \in R : c[j] = b[j] /\ y[j] = z[j]
      /\ \A j \in S \cup {i} : j = i \/ j \in R
  OBVIOUS
<1> HIDE DEF c, y
<1>2. ASSUME NEW j \in S \cup {i}
      PROVE  /\ c[j] \in Int /\ y[j] \in Nat \ {0}
             /\ c[j] % ALIGNMENT = 0 /\ 0 <= c[j] /\ c[j] + y[j] <= more
  <2>1. CASE j = i
    BY <1>1, <2>1 DEF FitsIn
  <2>2. CASE j \in R
    BY <1>1, <2>2 DEF Placed
  <2> QED BY <1>1, <2>1, <2>2
<1>3. ASSUME NEW j \in S \cup {i}, NEW k \in S \cup {i}, j # k
      PROVE  c[j] + y[j] <= c[k] \/ c[k] + y[k] <= c[j]
  <2>1. CASE j = i
    BY <1>1, <1>3, <2>1 DEF FitsIn
  <2>2. CASE k = i
    BY <1>1, <1>3, <2>2 DEF FitsIn
  <2>3. CASE j \in R /\ k \in R
    BY <1>1, <1>3, <2>3 DEF Placed
  <2> QED BY <1>1, <2>1, <2>2, <2>3
<1>4. Placed(c, y, S \cup {i}, more)
  BY <1>2, <1>3 DEF Placed
<1> QED BY <1>4 DEF c, y

LEMMA PlacedLess ==
  ASSUME NEW b, NEW z, NEW S, NEW R \in SUBSET S, NEW top, Placed(b, z, S, top)
  PROVE  Placed(b, z, R, top)
BY DEF Placed

(* What fits is taken.                                                     *)
LEMMA FittingAccepted ==
  ASSUME NEW rs, NEW b, NEW z, NEW S, NEW top \in Int, Listed(rs, b, z, S),
         \A id \in S : b[id] \in Int /\ z[id] \in Nat \ {0},
         NEW p \in Int, NEW n \in Nat \ {0}, FitsIn(b, z, S, p, n, top)
  PROVE  add_range(rs, p, n, top)
<1>1. p % ALIGNMENT = 0 /\ {p, p + n - 1} \subseteq 0 .. top - 1
  BY DEF FitsIn
<1>2. ASSUME NEW k \in 1 .. Len(rs)
      PROVE  /\ ~ (p >= rs[k].lo /\ p <= rs[k].hi)
             /\ ~ (p + n - 1 >= rs[k].lo /\ p + n - 1 <= rs[k].hi)
  <2>1. PICK id \in S : rs[k] = range_t(b[id], z[id])
    BY DEF Listed
  <2>2. rs[k].lo = b[id] /\ rs[k].hi = b[id] + z[id] - 1
    BY <2>1 DEF range_t
  <2>3. p + n <= b[id] \/ b[id] + z[id] <= p
    BY DEF FitsIn
  <2> QED BY <2>2, <2>3
<1>3. DOMAIN rs = 1 .. Len(rs)
  BY LenProperties DEF Listed
<1> QED BY <1>1, <1>2, <1>3 DEF add_range, ToSet

(* A payload's extent is taken out.                                        *)
LEMMA RangeRemoved ==
  ASSUME NEW rs, NEW b, NEW z, NEW S, NEW top, Listed(rs, b, z, S), Placed(b, z, S, top),
         NEW i \in S
  PROVE  Listed(remove_range(rs, b[i]), b, z, S \ {i})
<1> DEFINE n == Len(rs)
<1>1. n \in Nat /\ DOMAIN rs = 1 .. n /\ rs \in Seq(Extent)
  BY LenProperties DEF Listed
<1>2. PICK e \in 1 .. n : rs[e] = range_t(b[i], z[i])
  BY DEF Listed
<1>3. {k \in DOMAIN rs : rs[k].lo = b[i]} = {e}
  BY <1>1, <1>2 DEF Listed, range_t
<1>4. Min({e}) = e
  BY <1>1 DEF Min
<1> DEFINE t == remove_range(rs, b[i])
<1>5. t = RemoveAt(rs, e)
  BY <1>3, <1>4 DEF remove_range
<1>6. /\ t \in Seq(Extent) /\ Len(t) = n - 1
      /\ \A k \in 1 .. (n - 1) : t[k] = IF k < e THEN rs[k] ELSE rs[k + 1]
  BY <1>1, <1>2, <1>5, RemovedAt
<1> HIDE DEF t, n
<1>7. ASSUME NEW k \in 1 .. (n - 1)
      PROVE  \E m \in 1 .. n : m # e /\ t[k] = rs[m] /\ m = IF k < e THEN k ELSE k + 1
  BY <1>1, <1>6
<1>8. ASSUME NEW m \in 1 .. n, m # e
      PROVE  \E k \in 1 .. (n - 1) : t[k] = rs[m]
  <2>1. CASE m < e
    <3>1. m \in 1 .. (n - 1) /\ t[m] = rs[m]
      BY <1>1, <1>2, <1>6, <2>1
    <3> QED BY <3>1
  <2>2. CASE m > e
    <3>1. m - 1 \in 1 .. (n - 1) /\ ~ m - 1 < e /\ (m - 1) + 1 = m
      BY <1>1, <1>2, <2>2
    <3>2. t[m - 1] = rs[m]
      BY <1>6, <3>1
    <3> QED BY <3>1, <3>2
  <2> QED BY <1>8, <2>1, <2>2
<1>9. ASSUME NEW m \in 1 .. n, m # e PROVE rs[m] # range_t(b[i], z[i])
  BY <1>2, <1>9 DEF Listed, n
<1>10. \A j \in S \ {i} : range_t(b[j], z[j]) # range_t(b[i], z[i])
  <2> TAKE j \in S \ {i}
  <2>1. b[j] # b[i]
    BY DEF Placed
  <2> QED BY <2>1 DEF range_t
<1>11. \A k \in 1 .. (n - 1) : \E id \in S \ {i} : t[k] = range_t(b[id], z[id])
  <2> TAKE k \in 1 .. (n - 1)
  <2>1. PICK m \in 1 .. n : m # e /\ t[k] = rs[m]
    BY <1>7
  <2>2. PICK id \in S : rs[m] = range_t(b[id], z[id])
    BY DEF Listed, n
  <2> QED BY <1>9, <2>1, <2>2
<1>12. \A id \in S \ {i} : \E k \in 1 .. (n - 1) : t[k] = range_t(b[id], z[id])
  <2> TAKE id \in S \ {i}
  <2>1. PICK m \in 1 .. n : rs[m] = range_t(b[id], z[id])
    BY DEF Listed, n
  <2>2. m # e
    BY <1>2, <1>10, <2>1
  <2>3. PICK k \in 1 .. (n - 1) : t[k] = rs[m]
    BY <1>8, <2>2
  <2> QED BY <2>1, <2>3
<1>13. ASSUME NEW k \in 1 .. (n - 1), NEW l \in 1 .. (n - 1), t[k].lo = t[l].lo PROVE k = l
  <2>1. PICK m \in 1 .. n : t[k] = rs[m] /\ m = IF k < e THEN k ELSE k + 1
    BY <1>7
  <2>2. PICK o \in 1 .. n : t[l] = rs[o] /\ o = IF l < e THEN l ELSE l + 1
    BY <1>7
  <2>3. m = o
    BY <1>13, <2>1, <2>2 DEF Listed, n
  <2> QED BY <1>1, <1>2, <2>1, <2>2, <2>3
<1>14. Listed(t, b, z, S \ {i})
  BY <1>6, <1>11, <1>12, <1>13 DEF Listed
<1> QED BY <1>14 DEF t

(* A payload's extent is put in front.                                     *)
LEMMA RangeAdded ==
  ASSUME NEW b \in [Ids -> Addresses \cup {NULL}], NEW z \in [Ids -> Nat], NEW S \in SUBSET Ids,
         NEW i \in Ids, NEW R, R = S \ {i}, NEW rs, Listed(rs, b, z, R),
         NEW top \in Int, Placed(b, z, R, top),
         NEW p \in Int, NEW n \in Nat \ {0}, NEW more \in Int, FitsIn(b, z, R, p, n, more)
  PROVE  Listed(<<range_t(p, n)>> \o rs, [b EXCEPT ![i] = p], [z EXCEPT ![i] = n], S \cup {i})
<1> DEFINE c == [b EXCEPT ![i] = p]
           y == [z EXCEPT ![i] = n]
           x == range_t(p, n)
           t == <<x>> \o rs
           m == Len(rs)
<1>1. /\ c[i] = p /\ y[i] = n
      /\ \A j \in R : c[j] = b[j] /\ y[j] = z[j]
      /\ \A j : j \in S \cup {i} <=> j = i \/ j \in R
  OBVIOUS
<1>2. x \in Extent /\ x.lo = p /\ rs \in Seq(Extent) /\ m \in Nat
  BY LenProperties DEF range_t, Extent, Listed
<1> HIDE DEF x
<1>3. t \in Seq(Extent) /\ Len(t) = m + 1 /\ t[1] = x /\ \A k \in 1 .. m : t[k + 1] = rs[k]
  <2> DEFINE o == <<x>>
  <2>1. o \in Seq(Extent) /\ Len(o) = 1 /\ o[1] = x
    BY <1>2
  <2> HIDE DEF o
  <2>2. /\ o \o rs \in Seq(Extent) /\ Len(o \o rs) = Len(o) + Len(rs)
        /\ \A k \in 1 .. (Len(o) + Len(rs)) :
             (o \o rs)[k] = IF k <= Len(o) THEN o[k] ELSE rs[k - Len(o)]
    BY <1>2, <2>1, ConcatProperties
  <2>3. Len(o \o rs) = m + 1 /\ (o \o rs)[1] = x
    BY <1>2, <2>1, <2>2
  <2>4. \A k \in 1 .. m : (o \o rs)[k + 1] = rs[k]
    <3> TAKE k \in 1 .. m
    <3>1. k + 1 \in 1 .. (Len(o) + Len(rs)) /\ ~ k + 1 <= Len(o) /\ (k + 1) - Len(o) = k
      BY <1>2, <2>1
    <3> QED BY <2>2, <3>1
  <2> QED BY <2>2, <2>3, <2>4 DEF o
<1> HIDE DEF t, c, y
<1>4. \A k \in 1 .. m + 1 : k = 1 \/ (k - 1 \in 1 .. m /\ t[k] = rs[k - 1])
  <2> TAKE k \in 1 .. m + 1
  <2>1. k = 1 \/ (k - 1 \in 1 .. m /\ (k - 1) + 1 = k)
    BY <1>2
  <2> QED BY <1>3, <2>1
<1>5. \A k \in 1 .. m : rs[k].lo # p
  <2> TAKE k \in 1 .. m
  <2>1. PICK id \in R : rs[k] = range_t(b[id], z[id])
    BY DEF Listed
  <2>2. rs[k].lo = b[id] /\ b[id] \in Int /\ z[id] \in Nat \ {0}
    BY <2>1 DEF range_t, Placed
  <2> QED BY <2>2 DEF FitsIn
<1>6. \A k \in 1 .. m + 1 : \E id \in S \cup {i} : t[k] = range_t(c[id], y[id])
  <2> TAKE k \in 1 .. m + 1
  <2>1. CASE k = 1
    BY <1>1, <1>3, <2>1 DEF x
  <2>2. CASE k - 1 \in 1 .. m /\ t[k] = rs[k - 1]
    <3>1. PICK id \in R : rs[k - 1] = range_t(b[id], z[id])
      BY <2>2 DEF Listed
    <3> QED BY <1>1, <2>2, <3>1
  <2> QED BY <1>4, <2>1, <2>2
<1>7. \A id \in S \cup {i} : \E k \in 1 .. m + 1 : t[k] = range_t(c[id], y[id])
  <2> TAKE id \in S \cup {i}
  <2>1. CASE id = i
    BY <1>1, <1>2, <1>3, <2>1 DEF x
  <2>2. CASE id \in R
    <3>1. PICK k \in 1 .. m : rs[k] = range_t(b[id], z[id])
      BY <2>2 DEF Listed
    <3>2. k + 1 \in 1 .. m + 1 /\ t[k + 1] = range_t(c[id], y[id])
      BY <1>1, <1>2, <1>3, <2>2, <3>1
    <3> QED BY <3>2
  <2> QED BY <1>1, <2>1, <2>2
<1>8. \A k, l \in 1 .. m + 1 : t[k].lo = t[l].lo => k = l
  <2> SUFFICES ASSUME NEW k \in 1 .. m + 1, NEW l \in 1 .. m + 1, t[k].lo = t[l].lo PROVE k = l
    OBVIOUS
  <2>1. CASE k = 1 \/ l = 1
    BY <1>2, <1>3, <1>4, <1>5, <2>1
  <2>2. CASE k # 1 /\ l # 1
    <3>1. /\ k - 1 \in 1 .. m /\ t[k] = rs[k - 1]
          /\ l - 1 \in 1 .. m /\ t[l] = rs[l - 1]
      BY <1>4, <2>2
    <3>2. k - 1 = l - 1
      BY <3>1 DEF Listed
    <3> QED BY <1>2, <3>2
  <2> QED BY <2>1, <2>2
<1>9. Listed(t, c, y, S \cup {i})
  BY <1>3, <1>6, <1>7, <1>8 DEF Listed
<1> QED BY <1>9 DEF t, c, y, x

-----------------------------------------------------------------------------
(* The invariant.                                                          *)

Passes == {"eval_mm_valid", "eval_mm_util"}

Typed ==
  /\ tracefiles \in Runs /\ tracenum \in Nat \ {0}
  /\ IsTrace(trace)
  /\ mem_brk \in 0 .. MAX_HEAP /\ held \in SUBSET Ids /\ honest \in BOOLEAN /\ errors \in Nat
  /\ blocks \in [Ids -> Addresses \cup {NULL}] /\ block_sizes \in [Ids -> Nat]
  /\ bytes \in [Ids -> 0 .. CHARS - 1]

(* In a pass the driver remembers the payloads that the trace holds, with  *)
(* sizes that the trace asked for.                                         *)
Working ==
  pc \in Passes =>
    /\ opnum \in 1 .. Len(trace) + 1
    /\ held = HeldBefore(trace, opnum)
    /\ \A id \in held : /\ block_sizes[id] \in Nat \ {0}
                        /\ \E k \in 1 .. Len(trace) : /\ trace[k].type # "FREE"
                                                      /\ trace[k].size = block_sizes[id]

(* They are where they may be as long as the allocator keeps its promise.  *)
Promised == pc \in Passes /\ honest => Placed(blocks, block_sizes, held, mem_brk)

(* The judge's list and its memory of what payloads were filled with.      *)
Ranged ==
  pc = "eval_mm_valid" /\ honest =>
    /\ Listed(ranges, blocks, block_sizes, held)
    /\ \A id \in held : bytes[id] = id % CHARS

IInv == Typed /\ Working /\ Promised /\ Ranged

LEMMA GrownIs ==
  ASSUME NEW brk \in 0 .. MAX_HEAP, NEW top \in Grown(brk)
  PROVE  top \in 0 .. MAX_HEAP /\ brk <= top
<1>1. PICK incr \in Increments : top = mem_sbrk(brk, incr)
  BY DEF Grown
<1>2. incr \in Int
  BY HeapAssumption
<1> QED BY <1>1, <1>2, HeapAssumption DEF mem_sbrk

LEMMA OutOfPass ==
  ASSUME Typed', pc' \notin Passes
  PROVE  IInv'
BY DEF IInv, Working, Promised, Ranged, Passes

LEMMA Emptied ==
  /\ [id \in Ids |-> NULL] \in [Ids -> Addresses \cup {NULL}]
  /\ [id \in Ids |-> 0] \in [Ids -> Nat] /\ [id \in Ids |-> 0] \in [Ids -> 0 .. CHARS - 1]
BY BytesAssumption

(* The trace is left, with an error or without.                            *)
LEMMA Leaves ==
  ASSUME IInv, NextTrace, UNCHANGED tracefiles, mem_brk' \in 0 .. MAX_HEAP,
         honest' \in BOOLEAN, errors' \in Nat
  PROVE  IInv'
<1>1. Typed'
  BY NoTrace, Emptied DEF IInv, Typed, NextTrace
<1>2. pc' \notin Passes
  BY DEF NextTrace, Passes
<1> QED BY <1>1, <1>2, OutOfPass

LEMMA Quits ==
  ASSUME IInv, app_error
  PROVE  IInv'
<1>1. Typed'
  BY DEF IInv, Typed, app_error, traceVars, judgeVars, fixedVars
<1>2. pc' \notin Passes
  BY DEF app_error, Passes
<1> QED BY <1>1, <1>2, OutOfPass

(* A step from one part of main to the next.                               *)
LEMMA Moves ==
  ASSUME IInv, pc' \notin Passes, mem_brk' \in 0 .. MAX_HEAP, tracenum' \in Nat \ {0},
         UNCHANGED <<tracefiles, trace, held, honest, errors, blocks, block_sizes, bytes>>
  PROVE  IInv'
<1>1. Typed'
  BY DEF IInv, Typed
<1> QED BY <1>1, OutOfPass

(* A pass begins.                                                          *)
LEMMA Begins ==
  ASSUME IInv, mm_init_ok, pc' \in Passes, pc' = "eval_mm_valid" => ranges' = << >>,
         UNCHANGED <<tracefiles, tracenum, trace, blocks, block_sizes, bytes, errors>>
  PROVE  IInv'
<1>1. mem_brk' \in 0 .. MAX_HEAP
  BY GrownIs, HeapAssumption DEF mm_init_ok
<1>2. Typed'
  BY <1>1 DEF IInv, Typed, mm_init_ok
<1>3. opnum' = 1 /\ held' = {} /\ HeldBefore(trace', 1) = {} /\ Len(trace') \in Nat
  BY <1>2, HeldAtFirst, TraceIs DEF mm_init_ok, Typed
<1>4. Working' /\ Promised'
  BY <1>3 DEF Working, Promised, Placed
<1>5. Ranged'
  <2> DEFINE e == << >>
  <2>1. e \in Seq(Extent) /\ Len(e) = 0
    OBVIOUS
  <2> HIDE DEF e
  <2>2. Listed(e, blocks', block_sizes', {})
    BY <2>1 DEF Listed
  <2>3. pc' = "eval_mm_valid" => ranges' = e
    BY DEF e
  <2> QED BY <1>3, <2>2, <2>3 DEF Ranged
<1> QED BY <1>2, <1>4, <1>5 DEF IInv

(* The next request of a pass.                                             *)
LEMMA Asked ==
  ASSUME IInv, pc \in Passes, opnum <= Len(trace)
  PROVE  /\ opnum \in 1 .. Len(trace) /\ opnum + 1 \in 1 .. Len(trace) + 1
         /\ Request = trace[opnum] /\ Request.index \in Ids /\ Request.size \in Nat
         /\ Request.type # "FREE" => Request.size \in Nat \ {0}
         /\ Request.type = "ALLOC" <=> Request.index \notin held
         /\ HeldBefore(trace, opnum + 1) = IF Request.type = "FREE" THEN held \ {Request.index}
                                           ELSE held \cup {Request.index}
<1>1. IsTrace(trace) /\ opnum \in 1 .. Len(trace) + 1 /\ held = HeldBefore(trace, opnum)
  BY DEF IInv, Typed, Working
<1>2. Len(trace) \in Nat
  BY <1>1, TraceIs
<1>3. opnum \in 1 .. Len(trace) /\ opnum + 1 \in 1 .. Len(trace) + 1
  BY <1>1, <1>2
<1>4. /\ trace[opnum].index \in Ids /\ trace[opnum].size \in Nat
      /\ trace[opnum].type # "FREE" => trace[opnum].size > 0
      /\ trace[opnum].type = "ALLOC" <=> trace[opnum].index \notin HeldBefore(trace, opnum)
  BY <1>1, <1>3, TraceIs
<1>5. HeldBefore(trace, opnum + 1) = IF trace[opnum].type = "FREE"
                                     THEN HeldBefore(trace, opnum) \ {trace[opnum].index}
                                     ELSE HeldBefore(trace, opnum) \cup {trace[opnum].index}
  BY <1>1, <1>3, HeldGoesOn
<1> QED BY <1>1, <1>3, <1>4, <1>5 DEF Request

(* An answer that the driver remembers.                                    *)
LEMMA Remembers ==
  ASSUME IInv, pc \in Passes, opnum <= Len(trace), Request.type # "FREE",
         NEW answer \in Answers, answer.ptr # NULL, mem_brk' = answer.brk,
         Remember(answer.ptr, Request.size), pc' = pc, honest' \in BOOLEAN,
         bytes' \in [Ids -> 0 .. CHARS - 1],
         honest' => honest /\ FitsIn(blocks, block_sizes, held \ {Request.index},
                                     answer.ptr, Request.size, answer.brk),
         UNCHANGED <<tracefiles, tracenum, trace, errors>>
  PROVE  /\ Typed' /\ Working' /\ Promised'
         /\ blocks' = [blocks EXCEPT ![Request.index] = answer.ptr]
         /\ block_sizes' = [block_sizes EXCEPT ![Request.index] = Request.size]
         /\ held' = held \cup {Request.index} /\ answer.ptr \in Int /\ answer.brk \in Int
<1> DEFINE i == Request.index
           n == Request.size
<1>1. /\ opnum \in 1 .. Len(trace) /\ opnum + 1 \in 1 .. Len(trace) + 1
      /\ Request = trace[opnum] /\ i \in Ids /\ n \in Nat \ {0}
      /\ HeldBefore(trace, opnum + 1) = held \cup {i}
  BY Asked
<1>2. answer.ptr \in Addresses /\ answer.ptr \in Int /\ answer.brk \in Grown(mem_brk)
  BY AddressesAssumption DEF Answers
<1>3. /\ blocks \in [Ids -> Addresses \cup {NULL}] /\ block_sizes \in [Ids -> Nat]
      /\ mem_brk \in 0 .. MAX_HEAP /\ held \in SUBSET Ids
  BY DEF IInv, Typed
<1>4. answer.brk \in 0 .. MAX_HEAP /\ mem_brk <= answer.brk
  BY <1>2, <1>3, GrownIs
<1>5. /\ blocks' = [blocks EXCEPT ![i] = answer.ptr]
      /\ block_sizes' = [block_sizes EXCEPT ![i] = n]
      /\ held' = held \cup {i} /\ opnum' = opnum + 1
  BY DEF Remember
<1>6. /\ blocks' \in [Ids -> Addresses \cup {NULL}] /\ block_sizes' \in [Ids -> Nat]
      /\ held' \in SUBSET Ids
  BY <1>1, <1>2, <1>3, <1>5
<1>7. Typed'
  BY <1>4, <1>6 DEF IInv, Typed
<1>8. /\ block_sizes'[i] = n
      /\ \A id \in held \ {i} : block_sizes'[id] = block_sizes[id]
  BY <1>1, <1>3, <1>5
<1>9. Working'
  <2>1. ASSUME NEW id \in held'
        PROVE  /\ block_sizes'[id] \in Nat \ {0}
               /\ \E k \in 1 .. Len(trace) : /\ trace[k].type # "FREE"
                                             /\ trace[k].size = block_sizes'[id]
    <3>1. CASE id = i
      BY <1>1, <1>8, <3>1
    <3>2. CASE id \in held \ {i}
      BY <1>8, <3>2 DEF IInv, Working
    <3> QED BY <1>5, <3>1, <3>2
  <2> QED BY <1>1, <1>5, <2>1 DEF Working
<1>10. Promised'
  <2> SUFFICES ASSUME honest' PROVE Placed(blocks', block_sizes', held', mem_brk')
    BY DEF Promised
  <2> DEFINE R == held \ {i}
  <2>1. Placed(blocks, block_sizes, held, mem_brk)
        /\ FitsIn(blocks, block_sizes, R, answer.ptr, n, answer.brk)
    BY DEF IInv, Promised
  <2>2. Placed(blocks, block_sizes, R, mem_brk)
    BY <2>1, PlacedLess
  <2>3. R = held \ {i} /\ mem_brk \in Int /\ answer.brk \in Int
    BY <1>3, <1>4
  <2> HIDE DEF i, n, R
  <2> QED BY <1>1, <1>2, <1>3, <1>4, <1>5, <2>1, <2>2, <2>3, PlacedAgain
<1> QED BY <1>2, <1>4, <1>5, <1>7, <1>9, <1>10

(* A payload that the trace frees.                                         *)
LEMMA Forgets ==
  ASSUME IInv, pc \in Passes, opnum <= Len(trace), Request.type = "FREE", Forget, pc' = pc,
         UNCHANGED <<tracefiles, tracenum, trace, errors, honest, mem_brk, bytes>>
  PROVE  /\ Typed' /\ Working' /\ Promised'
         /\ blocks' = blocks /\ block_sizes' = block_sizes /\ held' = held \ {Request.index}
<1>1. /\ opnum + 1 \in 1 .. Len(trace) + 1
      /\ HeldBefore(trace, opnum + 1) = held \ {Request.index}
  BY Asked
<1>2. /\ blocks' = blocks /\ block_sizes' = block_sizes /\ opnum' = opnum + 1
      /\ held' = held \ {Request.index}
  BY DEF Forget
<1>3. Typed'
  BY <1>2 DEF IInv, Typed
<1>4. Working'
  BY <1>1, <1>2 DEF IInv, Working
<1>5. Promised'
  BY <1>2, PlacedLess DEF IInv, Promised
<1> QED BY <1>2, <1>3, <1>4, <1>5

-----------------------------------------------------------------------------
(* The steps.                                                              *)

LEMMA InitIInv == Init => IInv
<1> SUFFICES ASSUME Init PROVE IInv
  OBVIOUS
<1>1. Typed
  BY NoTrace, Emptied, HeapAssumption DEF Init, Typed
<1>2. pc \notin Passes
  BY DEF Init, Passes
<1> QED BY <1>1, <1>2 DEF IInv, Working, Promised, Ranged, Passes

LEMMA ReadStep ==
  ASSUME IInv, ReadTrace
  PROVE  IInv'
<1> DEFINE file == tracefiles[tracenum]
<1>1. /\ tracefiles \in Runs /\ tracenum \in Nat \ {0} /\ tracenum <= Len(tracefiles)
      /\ read_trace(file)
      /\ UNCHANGED <<tracefiles, tracenum, mem_brk, errors>> /\ honest' = TRUE
  BY DEF IInv, Typed, ReadTrace, fixedVars, judgeVars
<1>2. tracenum \in DOMAIN tracefiles
  <2>1. tracefiles \in Seq([num_ids : Nat, num_ops : Nat, lines : Seq(Line)])
    BY <1>1, RunsAssumption
  <2>2. Len(tracefiles) \in Nat /\ DOMAIN tracefiles = 1 .. Len(tracefiles)
    BY <2>1, LenProperties
  <2> QED BY <1>1, <2>2
<1>3. pc' \notin Passes
  BY <1>1 DEF read_trace, Passes
<1>4. CASE UNCHANGED traceVars
  <2>1. Typed'
    BY <1>1, <1>4 DEF IInv, Typed, traceVars
  <2> QED BY <1>3, <2>1, OutOfPass
<1>5. CASE /\ Readable(file.lines) /\ trace' = traceops(file.lines)
           /\ blocks' = [id \in Ids |-> NULL] /\ block_sizes' = [id \in Ids |-> 0]
           /\ bytes' = [id \in Ids |-> 0] /\ held' = {}
  <2>1. IsTrace(trace')
    BY <1>1, <1>2, <1>5, TracesAre
  <2>2. Typed'
    BY <1>1, <1>5, <2>1, Emptied DEF IInv, Typed
  <2> QED BY <1>3, <2>2, OutOfPass
<1> QED BY <1>1, <1>4, <1>5 DEF read_trace

LEMMA ValidInitStep ==
  ASSUME IInv, ValidInit
  PROVE  IInv' /\ (errors' > errors => ~ honest')
<1>1. ranges' = << >> /\ tracefiles' = tracefiles /\ errors \in Nat
  BY DEF ValidInit, clear_ranges, fixedVars, IInv, Typed
<1>2. CASE /\ mm_init_ok /\ pc' = "eval_mm_valid"
           /\ UNCHANGED <<tracenum, trace, blocks, block_sizes, bytes, valid, errors>>
  <2>1. IInv'
    BY <1>1, <1>2, Begins DEF Passes
  <2> QED BY <1>1, <1>2, <2>1
<1>3. CASE mem_brk' = 0 /\ honest' = FALSE /\ malloc_error
  <2>1. NextTrace /\ errors' = errors + 1 /\ mem_brk' \in 0 .. MAX_HEAP
    BY <1>3, HeapAssumption DEF malloc_error
  <2>2. errors' \in Nat /\ UNCHANGED tracefiles
    BY <1>1, <2>1
  <2>a. honest' \in BOOLEAN /\ ~ honest'
    BY <1>3, Zenon
  <2>3. IInv'
    BY <2>1, <2>2, <2>a, Leaves
  <2> QED BY <2>a, <2>3
<1> QED BY <1>2, <1>3 DEF ValidInit

(* What is taken is a range more, which is the payload's if the allocator  *)
(* kept its promise; and what it then answers is taken.                    *)
LEMMA ValidAllocStep ==
  ASSUME IInv, ValidAlloc
  PROVE  IInv' /\ (errors' > errors => ~ honest')
<1> DEFINE i == Request.index
           n == Request.size
<1>1. /\ pc = "eval_mm_valid" /\ opnum <= Len(trace) /\ Request.type = "ALLOC"
      /\ tracefiles' = tracefiles
  BY DEF ValidAlloc, HasMore, fixedVars
<1>2. /\ i \in Ids /\ n \in Nat \ {0} /\ i \notin held /\ pc \in Passes
  BY <1>1, Asked DEF Passes
<1>3. /\ held \in SUBSET Ids /\ honest \in BOOLEAN /\ errors \in Nat /\ mem_brk \in 0 .. MAX_HEAP
      /\ blocks \in [Ids -> Addresses \cup {NULL}] /\ block_sizes \in [Ids -> Nat]
      /\ bytes \in [Ids -> 0 .. CHARS - 1]
  BY DEF IInv, Typed
<1>4. held \ {i} = held
  BY <1>2
<1>5. PICK answer \in Answers :
        /\ mem_brk' = answer.brk
        /\ honest' = (honest /\ Kept(answer, n, Payloads(held)))
        /\ IF answer.ptr # NULL /\ add_range(ranges, answer.ptr, n, answer.brk)
           THEN /\ ranges' = <<range_t(answer.ptr, n)>> \o ranges
                /\ bytes' = [bytes EXCEPT ![i] = i % CHARS]
                /\ Remember(answer.ptr, n)
                /\ UNCHANGED <<pc, tracenum, trace, valid, errors>>
           ELSE malloc_error /\ UNCHANGED ranges
  BY DEF ValidAlloc
<1>6. answer.brk \in 0 .. MAX_HEAP
  BY <1>3, GrownIs DEF Answers
<1>7. /\ honest' \in BOOLEAN
      /\ honest' => /\ honest /\ answer.ptr # NULL
                    /\ FitsIn(blocks, block_sizes, held, answer.ptr, n, answer.brk)
  BY <1>3, <1>5, KeptIs
<1>8. honest => Placed(blocks, block_sizes, held, mem_brk) /\ Listed(ranges, blocks, block_sizes, held)
  BY <1>1 DEF IInv, Promised, Ranged, Passes
<1>9. CASE answer.ptr # NULL /\ add_range(ranges, answer.ptr, n, answer.brk)
  <2>1. bytes' = [bytes EXCEPT ![i] = i % CHARS] /\ bytes' \in [Ids -> 0 .. CHARS - 1]
    <3>1. i % CHARS \in 0 .. CHARS - 1
      BY <1>2, BytesAssumption, Division DEF Ids
    <3> QED BY <1>2, <1>3, <1>5, <1>9, <3>1
  <2>2. /\ Typed' /\ Working' /\ Promised'
        /\ blocks' = [blocks EXCEPT ![i] = answer.ptr]
        /\ block_sizes' = [block_sizes EXCEPT ![i] = n]
        /\ held' = held \cup {i} /\ answer.ptr \in Int /\ answer.brk \in Int
    BY <1>1, <1>2, <1>4, <1>5, <1>7, <1>9, <2>1, Remembers
  <2>3. Ranged'
    <3> SUFFICES ASSUME honest'
                 PROVE  /\ Listed(ranges', blocks', block_sizes', held')
                        /\ \A id \in held' : bytes'[id] = id % CHARS
      BY DEF Ranged
    <3>1. Listed(<<range_t(answer.ptr, n)>> \o ranges, [blocks EXCEPT ![i] = answer.ptr],
                 [block_sizes EXCEPT ![i] = n], held \cup {i})
      <4>1. /\ FitsIn(blocks, block_sizes, held, answer.ptr, n, answer.brk)
            /\ Placed(blocks, block_sizes, held, mem_brk)
            /\ Listed(ranges, blocks, block_sizes, held) /\ mem_brk \in Int
        BY <1>3, <1>7, <1>8
      <4> HIDE DEF i, n
      <4> QED BY <1>2, <1>3, <1>4, <2>2, <4>1, RangeAdded
    <3>2. \A id \in held : bytes[id] = id % CHARS
      BY <1>1, <1>7 DEF IInv, Ranged
    <3> QED BY <1>2, <1>3, <1>5, <1>9, <2>1, <2>2, <3>1, <3>2
  <2>4. errors' = errors
    BY <1>5, <1>9
  <2> QED BY <1>3, <2>2, <2>3, <2>4 DEF IInv
<1>10. CASE ~ (answer.ptr # NULL /\ add_range(ranges, answer.ptr, n, answer.brk))
  <2>1. malloc_error
    BY <1>5, <1>10
  <2>2. NextTrace /\ errors' = errors + 1
    BY <2>1 DEF malloc_error
  <2>3. IInv'
    BY <1>1, <1>3, <1>5, <1>6, <1>7, <2>2, Leaves
  <2>4. ~ honest'
    <3> SUFFICES ASSUME honest' PROVE FALSE
      OBVIOUS
    <3>1. /\ FitsIn(blocks, block_sizes, held, answer.ptr, n, answer.brk) /\ answer.ptr \in Int
          /\ Listed(ranges, blocks, block_sizes, held)
          /\ \A id \in held : blocks[id] \in Int /\ block_sizes[id] \in Nat \ {0}
      BY <1>7, <1>8, AddressesAssumption DEF Answers, Placed
    <3>2. add_range(ranges, answer.ptr, n, answer.brk)
      BY <1>2, <1>6, <3>1, FittingAccepted
    <3> QED BY <1>7, <1>10, <3>2
  <2> QED BY <2>3, <2>4
<1> QED BY <1>9, <1>10

(* Bytes of payloads are read as the compiler's char: what is kept of the  *)
(* fillings is told only of indexes whose low bytes are not negative.      *)
PlainChars == \A id \in Ids : id % CHARS < CHARS \div 2

LEMMA ValidReallocStep ==
  ASSUME IInv, ValidRealloc
  PROVE  IInv' /\ (PlainChars /\ errors' > errors => ~ honest')
<1> DEFINE i == Request.index
           n == Request.size
           rest == remove_range(ranges, blocks[i])
           R == held \ {i}
<1>1. /\ pc = "eval_mm_valid" /\ opnum <= Len(trace) /\ Request.type = "REALLOC"
      /\ tracefiles' = tracefiles
  BY DEF ValidRealloc, HasMore, fixedVars
<1>2. /\ i \in Ids /\ n \in Nat \ {0} /\ i \in held /\ pc \in Passes
  BY <1>1, Asked DEF Passes
<1>3. /\ held \in SUBSET Ids /\ honest \in BOOLEAN /\ errors \in Nat /\ mem_brk \in 0 .. MAX_HEAP
      /\ blocks \in [Ids -> Addresses \cup {NULL}] /\ block_sizes \in [Ids -> Nat]
      /\ bytes \in [Ids -> 0 .. CHARS - 1]
  BY DEF IInv, Typed
<1>4. PICK answer \in Answers, byte \in 0 .. CHARS - 1 :
        /\ mem_brk' = answer.brk
        /\ honest' = (honest /\ Kept(answer, n, Payloads(R)) /\ byte = bytes[i])
        /\ ranges' = IF answer.ptr = NULL THEN ranges
                     ELSE IF ~ add_range(rest, answer.ptr, n, answer.brk) THEN rest
                     ELSE <<range_t(answer.ptr, n)>> \o rest
        /\ IF answer.ptr # NULL /\ add_range(rest, answer.ptr, n, answer.brk) /\ SameData(byte, i)
           THEN /\ bytes' = [bytes EXCEPT ![i] = i % CHARS]
                /\ Remember(answer.ptr, n)
                /\ UNCHANGED <<pc, tracenum, trace, valid, errors>>
           ELSE malloc_error
  BY DEF ValidRealloc
<1>5. answer.brk \in 0 .. MAX_HEAP
  BY <1>3, GrownIs DEF Answers
<1>6. /\ honest' \in BOOLEAN
      /\ honest' => /\ honest /\ answer.ptr # NULL /\ byte = bytes[i]
                    /\ FitsIn(blocks, block_sizes, R, answer.ptr, n, answer.brk)
  BY <1>3, <1>4, KeptIs
<1>7. honest => /\ Placed(blocks, block_sizes, R, mem_brk) /\ Listed(rest, blocks, block_sizes, R)
                /\ \A id \in held : bytes[id] = id % CHARS
  <2> SUFFICES ASSUME honest
               PROVE  /\ Placed(blocks, block_sizes, R, mem_brk)
                      /\ Listed(rest, blocks, block_sizes, R)
                      /\ \A id \in held : bytes[id] = id % CHARS
    OBVIOUS
  <2>1. /\ Placed(blocks, block_sizes, held, mem_brk)
        /\ Listed(ranges, blocks, block_sizes, held)
        /\ \A id \in held : bytes[id] = id % CHARS
    BY <1>1 DEF IInv, Promised, Ranged, Passes
  <2>2. Placed(blocks, block_sizes, R, mem_brk)
    BY <2>1, PlacedLess
  <2>3. Listed(rest, blocks, block_sizes, R)
    <3> HIDE DEF i
    <3> QED BY <1>2, <2>1, RangeRemoved
  <2> QED BY <2>1, <2>2, <2>3
<1> HIDE DEF rest
<1>8. CASE answer.ptr # NULL /\ add_range(rest, answer.ptr, n, answer.brk) /\ SameData(byte, i)
  <2>1. bytes' = [bytes EXCEPT ![i] = i % CHARS] /\ bytes' \in [Ids -> 0 .. CHARS - 1]
    <3>1. i % CHARS \in 0 .. CHARS - 1
      BY <1>2, BytesAssumption, Division DEF Ids
    <3> QED BY <1>2, <1>3, <1>4, <1>8, <3>1
  <2>2. /\ Typed' /\ Working' /\ Promised'
        /\ blocks' = [blocks EXCEPT ![i] = answer.ptr]
        /\ block_sizes' = [block_sizes EXCEPT ![i] = n]
        /\ held' = held \cup {i} /\ answer.ptr \in Int /\ answer.brk \in Int
    BY <1>1, <1>2, <1>4, <1>6, <1>8, <2>1, Remembers
  <2>3. Ranged'
    <3> SUFFICES ASSUME honest'
                 PROVE  /\ Listed(ranges', blocks', block_sizes', held')
                        /\ \A id \in held' : bytes'[id] = id % CHARS
      BY DEF Ranged
    <3>1. Listed(<<range_t(answer.ptr, n)>> \o rest, [blocks EXCEPT ![i] = answer.ptr],
                 [block_sizes EXCEPT ![i] = n], held \cup {i})
      <4>1. /\ FitsIn(blocks, block_sizes, R, answer.ptr, n, answer.brk)
            /\ Placed(blocks, block_sizes, R, mem_brk)
            /\ Listed(rest, blocks, block_sizes, R) /\ mem_brk \in Int /\ R = held \ {i}
        BY <1>3, <1>6, <1>7
      <4> HIDE DEF i, n, R
      <4> QED BY <1>2, <1>3, <2>2, <4>1, RangeAdded
    <3>2. \A id \in held : bytes[id] = id % CHARS
      BY <1>6, <1>7
    <3> QED BY <1>2, <1>3, <1>4, <1>8, <2>1, <2>2, <3>1, <3>2
  <2>4. errors' = errors
    BY <1>4, <1>8
  <2> QED BY <1>3, <2>2, <2>3, <2>4 DEF IInv
<1>9. CASE ~ (/\ answer.ptr # NULL /\ add_range(rest, answer.ptr, n, answer.brk)
              /\ SameData(byte, i))
  <2>1. malloc_error
    BY <1>4, <1>9
  <2>2. NextTrace /\ errors' = errors + 1
    BY <2>1 DEF malloc_error
  <2>3. IInv'
    BY <1>1, <1>3, <1>4, <1>5, <1>6, <2>2, Leaves
  <2>4. PlainChars => ~ honest'
    <3> SUFFICES ASSUME PlainChars, honest' PROVE FALSE
      OBVIOUS
    <3>1. /\ FitsIn(blocks, block_sizes, R, answer.ptr, n, answer.brk) /\ answer.ptr \in Int
          /\ Listed(rest, blocks, block_sizes, R)
          /\ \A id \in R : blocks[id] \in Int /\ block_sizes[id] \in Nat \ {0}
      BY <1>6, <1>7, AddressesAssumption DEF Answers, Placed
    <3>2. add_range(rest, answer.ptr, n, answer.brk)
      BY <1>2, <1>5, <3>1, FittingAccepted
    <3>3. SameData(byte, i)
      <4>1. byte = i % CHARS /\ i % CHARS < CHARS \div 2
        BY <1>2, <1>6, <1>7 DEF PlainChars
      <4>2. i % CHARS \in Nat /\ CHARS \div 2 \in Nat
        BY <1>2, BytesAssumption, Division DEF Ids
      <4> QED BY <4>1, <4>2 DEF SameData, as_char
    <3> QED BY <1>6, <1>9, <3>2, <3>3
  <2> QED BY <2>3, <2>4
<1> QED BY <1>8, <1>9

LEMMA ValidFreeStep ==
  ASSUME IInv, ValidFree
  PROVE  IInv'
<1> DEFINE i == Request.index
<1>1. /\ pc = "eval_mm_valid" /\ opnum <= Len(trace) /\ Request.type = "FREE" /\ Forget
      /\ ranges' = remove_range(ranges, blocks[i])
      /\ UNCHANGED <<tracefiles, tracenum, trace, errors, honest, mem_brk, bytes, pc>>
  BY DEF ValidFree, HasMore, fixedVars
<1>2. i \in held
  BY <1>1, Asked DEF Passes
<1>3. /\ Typed' /\ Working' /\ Promised'
      /\ blocks' = blocks /\ block_sizes' = block_sizes /\ held' = held \ {i}
  BY <1>1, Forgets DEF Passes
<1>4. Ranged'
  <2> SUFFICES ASSUME honest
               PROVE  /\ Listed(ranges', blocks, block_sizes, held \ {i})
                      /\ \A id \in held \ {i} : bytes[id] = id % CHARS
    BY <1>1, <1>3 DEF Ranged
  <2>1. /\ Placed(blocks, block_sizes, held, mem_brk)
        /\ Listed(ranges, blocks, block_sizes, held)
        /\ \A id \in held : bytes[id] = id % CHARS
    BY <1>1 DEF IInv, Promised, Ranged, Passes
  <2> HIDE DEF i
  <2>2. Listed(remove_range(ranges, blocks[i]), blocks, block_sizes, held \ {i})
    BY <1>2, <2>1, RangeRemoved
  <2> QED BY <1>1, <2>1, <2>2
<1> QED BY <1>3, <1>4 DEF IInv

LEMMA UtilInitStep ==
  ASSUME IInv, UtilInit
  PROVE  IInv'
<1>1. CASE app_error
  BY <1>1, Quits
<1>2. CASE /\ mm_init_ok /\ pc' = "eval_mm_util"
           /\ UNCHANGED <<tracefiles, tracenum, trace, blocks, block_sizes, bytes, errors>>
  BY <1>2, Begins DEF Passes
<1> QED BY <1>1, <1>2 DEF UtilInit, fixedVars, judgeVars

LEMMA UtilAllocStep ==
  ASSUME IInv, UtilAlloc
  PROVE  IInv'
<1> DEFINE i == Request.index
           n == Request.size
<1>1. /\ pc = "eval_mm_util" /\ pc \in Passes /\ opnum <= Len(trace)
      /\ Request.type # "FREE"
  BY DEF UtilAlloc, HasMore, Passes
<1>2. CASE app_error
  BY <1>2, Quits
<1>3. ASSUME NEW answer \in Answers, answer.ptr # NULL, mem_brk' = answer.brk,
             honest' = (honest /\ Kept(answer, n, Payloads(held \ {i}))),
             Remember(answer.ptr, n),
             UNCHANGED <<pc, package, tracenum, trace, bytes, judgeVars, clockVars, fixedVars>>
      PROVE  IInv'
  <2>1. /\ honest' \in BOOLEAN
        /\ honest' => /\ honest
                      /\ FitsIn(blocks, block_sizes, held \ {i}, answer.ptr, n, answer.brk)
        /\ bytes' \in [Ids -> 0 .. CHARS - 1]
        /\ UNCHANGED <<tracefiles, tracenum, trace, errors>> /\ pc' = pc
    BY <1>3, KeptIs DEF IInv, Typed, judgeVars, fixedVars
  <2>2. Typed' /\ Working' /\ Promised'
    BY <1>1, <1>3, <2>1, Remembers
  <2>3. Ranged'
    BY <1>1, <2>1 DEF Ranged
  <2> QED BY <2>2, <2>3 DEF IInv
<1> QED BY <1>2, <1>3 DEF UtilAlloc

LEMMA UtilFreeStep ==
  ASSUME IInv, UtilFree
  PROVE  IInv'
<1>1. /\ pc = "eval_mm_util" /\ opnum <= Len(trace) /\ Request.type = "FREE" /\ Forget
      /\ UNCHANGED <<tracefiles, tracenum, trace, errors, honest, mem_brk, bytes, pc>>
  BY DEF UtilFree, HasMore, fixedVars, judgeVars
<1>2. Typed' /\ Working' /\ Promised'
  BY <1>1, Forgets DEF Passes
<1> QED BY <1>1, <1>2 DEF IInv, Ranged

(* A trace that has been timed, or not.                                    *)
LEMMA SpeedStep ==
  ASSUME IInv, pc = "fsecs", NEW result, SpeedDone(result) \/ GoOn,
         UNCHANGED <<tracefiles, mem_brk, honest, judgeVars>>
  PROVE  IInv'
<1>1. mem_brk' \in 0 .. MAX_HEAP /\ honest' \in BOOLEAN /\ errors' \in Nat
      /\ tracenum \in Nat \ {0} /\ UNCHANGED <<tracefiles, mem_brk, honest, errors>>
  BY DEF IInv, Typed, judgeVars
<1>2. CASE SpeedDone(result)
  BY <1>1, <1>2, Leaves DEF SpeedDone
<1>3. CASE GoOn
  <2>1. /\ UNCHANGED <<tracenum, trace, held, blocks, block_sizes, bytes>>
        /\ pc' \notin Passes
    BY <1>3 DEF GoOn, traceVars, Passes
  <2> QED BY <1>1, <2>1, Moves
<1> QED BY <1>2, <1>3

LEMMA FsecsStep ==
  ASSUME IInv, Fsecs
  PROVE  IInv'
<1>1. CASE SpeedFails
  BY <1>1, Quits DEF SpeedFails
<1>2. ASSUME NEW duration \in Durations, TimedRun(duration) PROVE IInv'
  <2>1. /\ pc = "fsecs"
        /\ SpeedDone(Measured) \/ GoOn
        /\ UNCHANGED <<tracefiles, mem_brk, honest, judgeVars>>
    BY <1>2 DEF TimedRun, RunsAgain, fixedVars
  <2> QED BY <2>1, SpeedStep
<1>3. ASSUME NEW duration \in Durations, NEW ticks \in 0 .. 1, Sample(duration, ticks)
      PROVE  IInv'
  <2>1. /\ pc = "fsecs" /\ UNCHANGED <<tracefiles, mem_brk, honest, judgeVars>>
        /\ \E result : SpeedDone(result) \/ GoOn
    BY <1>3 DEF Sample, RunsAgain, fixedVars
  <2> QED BY <2>1, SpeedStep
<1> QED BY <1>1, <1>2, <1>3 DEF Fsecs

(* The steps between the passes.                                           *)
LEMMA MainStep ==
  ASSUME IInv, LibcDone \/ Report \/ ValidDone \/ UtilDone \/ EvalLibcValid
  PROVE  IInv'
<1>1. tracenum \in Nat \ {0} /\ mem_brk \in 0 .. MAX_HEAP /\ 0 \in 0 .. MAX_HEAP
  BY HeapAssumption DEF IInv, Typed
<1>2. CASE LibcDone
  <2>1. /\ pc' \notin Passes /\ mem_brk' = 0 /\ tracenum' = 1
        /\ UNCHANGED <<tracefiles, trace, held, honest, errors, blocks, block_sizes, bytes>>
    BY <1>2 DEF LibcDone, traceVars, judgeVars, fixedVars, Passes
  <2> QED BY <1>1, <2>1, Moves
<1>3. CASE Report \/ ValidDone \/ UtilDone
  <2>1. /\ pc' \notin Passes /\ mem_brk' = mem_brk /\ tracenum' = tracenum
        /\ UNCHANGED <<tracefiles, trace, held, honest, errors, blocks, block_sizes, bytes>>
    BY <1>3 DEF Report, ValidDone, UtilDone, StartMeasuring, traceVars, judgeVars, fixedVars, Passes
  <2> QED BY <1>1, <2>1, Moves
<1>4. CASE EvalLibcValid
  <2>1. CASE app_error
    BY <2>1, Quits
  <2>2. CASE ~ app_error
    <3>1. /\ pc' \notin Passes /\ mem_brk' = mem_brk /\ tracenum' = tracenum
          /\ UNCHANGED <<tracefiles, trace, held, honest, errors, blocks, block_sizes, bytes>>
      BY <1>4, <2>2 DEF EvalLibcValid, StartMeasuring, traceVars, judgeVars, fixedVars, Passes
    <3> QED BY <1>1, <3>1, Moves
  <2> QED BY <2>1, <2>2
<1> QED BY <1>2, <1>3, <1>4

LEMMA Step ==
  ASSUME IInv, [Next]_vars
  PROVE  IInv'
<1>1. CASE UNCHANGED vars
  BY <1>1 DEF IInv, Typed, Working, Promised, Ranged, vars, traceVars, judgeVars, fixedVars
<1>2. CASE Next
  <2>1. CASE LibcDone \/ Report \/ ValidDone \/ UtilDone \/ EvalLibcValid
    BY <2>1, MainStep
  <2>2. CASE ReadTrace
    BY <2>2, ReadStep
  <2>3. CASE ValidInit
    BY <2>3, ValidInitStep
  <2>4. CASE ValidAlloc
    BY <2>4, ValidAllocStep
  <2>5. CASE ValidRealloc
    BY <2>5, ValidReallocStep
  <2>6. CASE ValidFree
    BY <2>6, ValidFreeStep
  <2>7. CASE UtilInit
    BY <2>7, UtilInitStep
  <2>8. CASE UtilAlloc
    BY <2>8, UtilAllocStep
  <2>9. CASE UtilFree
    BY <2>9, UtilFreeStep
  <2>10. CASE Fsecs
    BY <2>10, FsecsStep
  <2> QED BY <1>2, <2>1, <2>2, <2>3, <2>4, <2>5, <2>6, <2>7, <2>8, <2>9, <2>10 DEF Next
<1> QED BY <1>1, <1>2

(* What the driver remembers of the payloads agrees with the trace, and as *)
(* long as the allocator keeps its promise, the list of ranges holds the   *)
(* extents of these payloads, each once.                                   *)
THEOREM Invariance == Spec => []IInv
<1>1. Init => IInv
  BY InitIInv
<1>2. IInv /\ [Next]_vars => IInv'
  BY Step
<1> QED BY <1>1, <1>2, PTL DEF Spec

(* A step that reports an error, or ends the driver, has met an answer     *)
(* that broke the promise.                                                 *)
LEMMA BlameStep ==
  ASSUME PlainChars, IInv, Next, errors' > errors \/ (pc # "main" /\ pc' = "exit1")
  PROVE  ~ honest'
<1>1. errors \in Nat
  BY DEF IInv, Typed
<1>2. CASE ValidInit \/ ValidAlloc \/ ValidRealloc
  <2>1. errors' > errors => ~ honest'
    BY <1>2, ValidInitStep, ValidAllocStep, ValidReallocStep
  <2>2. pc' # "exit1"
    BY <1>2 DEF ValidInit, ValidAlloc, ValidRealloc, malloc_error, NextTrace, HasMore
  <2> QED BY <2>1, <2>2
<1>3. CASE app_error
  BY <1>3 DEF app_error
<1>4. CASE LibcDone \/ Report \/ ValidFree \/ ValidDone \/ UtilFree \/ UtilDone
  <2>1. errors' = errors /\ (pc # "main" => pc' # "exit1")
    BY <1>4 DEF LibcDone, Report, ValidFree, ValidDone, UtilFree, UtilDone, StartMeasuring, HasMore,
                judgeVars
  <2> QED BY <1>1, <2>1
<1>5. CASE ReadTrace
  <2>1. errors' = errors /\ pc = "main"
    BY <1>5 DEF ReadTrace, judgeVars
  <2> QED BY <1>1, <2>1
<1>6. CASE (UtilInit \/ UtilAlloc \/ EvalLibcValid) /\ ~ app_error
  <2>1. errors' = errors /\ pc' # "exit1"
    BY <1>6 DEF UtilInit, UtilAlloc, EvalLibcValid, StartMeasuring, HasMore, judgeVars
  <2> QED BY <1>1, <2>1
<1>7. CASE Fsecs /\ ~ app_error
  <2>1. errors' = errors /\ pc' # "exit1"
    <3>1. ASSUME NEW duration \in Durations, TimedRun(duration)
          PROVE  errors' = errors /\ pc' # "exit1"
      BY <3>1 DEF TimedRun, RunsAgain, SpeedDone, NextTrace, GoOn, judgeVars
    <3>2. ASSUME NEW duration \in Durations, NEW ticks \in 0 .. 1, Sample(duration, ticks)
          PROVE  errors' = errors /\ pc' # "exit1"
      BY <3>2 DEF Sample, RunsAgain, SpeedDone, NextTrace, GoOn, judgeVars
    <3> QED BY <1>7, <3>1, <3>2 DEF Fsecs, SpeedFails
  <2> QED BY <1>1, <2>1
<1> QED BY <1>2, <1>3, <1>4, <1>5, <1>6, <1>7 DEF Next

(* An allocator that keeps its promise is not blamed, whatever the traces  *)
(* are: the judge's list has forgotten what was freed, resized, or left by *)
(* an earlier trace, and nothing else.                                     *)
THEOREM GoodNeverBlamed ==
  ASSUME PlainChars PROVE Spec => GoodAllocatorIsNotBlamed
<1>1. IInv /\ [Next]_vars =>
        [errors' > errors \/ (pc # "main" /\ pc' = "exit1") => ~ honest']_vars
  BY BlameStep
<1> QED BY <1>1, Invariance, PTL DEF Spec, GoodAllocatorIsNotBlamed

-----------------------------------------------------------------------------
(* What the judge misses.                                                  *)

(* What is taken fits beside the payloads that are held, unless it         *)
(* encloses one of them: only a payload's two ends are looked at.          *)
LEMMA TakenFits ==
  ASSUME NEW rs, NEW b, NEW z, NEW S, NEW top, Listed(rs, b, z, S), Placed(b, z, S, top),
         NEW p \in Int, NEW n \in Nat \ {0}, NEW more \in Int, add_range(rs, p, n, more),
         \A id \in S : ~ (p < b[id] /\ b[id] + z[id] < p + n)
  PROVE  FitsIn(b, z, S, p, n, more)
<1>1. DOMAIN rs = 1 .. Len(rs)
  BY LenProperties DEF Listed
<1>2. p % ALIGNMENT = 0 /\ 0 <= p /\ p + n <= more
  BY DEF add_range
<1>3. ASSUME NEW id \in S PROVE p + n <= b[id] \/ b[id] + z[id] <= p
  <2>1. PICK k \in 1 .. Len(rs) : rs[k] = range_t(b[id], z[id])
    BY DEF Listed
  <2>2. rs[k].lo = b[id] /\ rs[k].hi = b[id] + z[id] - 1
    BY <2>1 DEF range_t
  <2>3. ~ (p >= rs[k].lo /\ p <= rs[k].hi) /\ ~ (p + n - 1 >= rs[k].lo /\ p + n - 1 <= rs[k].hi)
    BY <1>1 DEF add_range, ToSet
  <2>4. b[id] \in Int /\ z[id] \in Nat
    BY DEF Placed
  <2> QED BY <2>2, <2>3, <2>4
<1> QED BY <1>2, <1>3 DEF FitsIn

(* A promise that is broken and not noticed: the new payload encloses one  *)
(* that is held.                                                           *)
Escapes ==
  \E id \in held \ {Request.index} :
    /\ blocks'[Request.index] < blocks[id]
    /\ blocks[id] + block_sizes[id] < blocks'[Request.index] + block_sizes'[Request.index]

LEMMA AllocJudged ==
  ASSUME IInv, ValidAlloc, pc' = "eval_mm_valid"
  PROVE  honest => honest' \/ Escapes
<1> DEFINE i == Request.index
           n == Request.size
<1>1. /\ pc = "eval_mm_valid" /\ opnum <= Len(trace) /\ Request.type = "ALLOC" /\ pc \in Passes
  BY DEF ValidAlloc, HasMore, Passes
<1>2. i \in Ids /\ n \in Nat \ {0} /\ i \notin held
  BY <1>1, Asked
<1>3. /\ blocks \in [Ids -> Addresses \cup {NULL}] /\ block_sizes \in [Ids -> Nat]
      /\ mem_brk \in 0 .. MAX_HEAP
  BY DEF IInv, Typed
<1>4. honest => /\ Placed(blocks, block_sizes, held, mem_brk)
                /\ Listed(ranges, blocks, block_sizes, held)
  BY <1>1 DEF IInv, Promised, Ranged
<1>5. PICK answer \in Answers :
        /\ honest' = (honest /\ Kept(answer, n, Payloads(held)))
        /\ answer.ptr # NULL /\ add_range(ranges, answer.ptr, n, answer.brk)
        /\ Remember(answer.ptr, n)
  <2>1. ~ malloc_error
    BY DEF malloc_error, NextTrace
  <2> QED BY <2>1 DEF ValidAlloc
<1>6. answer.ptr \in Int /\ answer.brk \in Int
  <2>1. answer.ptr \in Addresses \cup {NULL} /\ answer.brk \in Grown(mem_brk)
    BY DEF Answers
  <2>2. answer.brk \in 0 .. MAX_HEAP
    BY <1>3, <2>1, GrownIs
  <2>3. answer.ptr \in Addresses
    BY <1>5, <2>1
  <2>4. answer.brk \in Int
    BY <2>2, HeapAssumption
  <2>5. answer.ptr \in Int
    BY <2>3, AddressesAssumption
  <2> QED BY <2>4, <2>5
<1>7. blocks'[i] = answer.ptr /\ block_sizes'[i] = n
  BY <1>2, <1>3, <1>5 DEF Remember
<1>8. CASE \A id \in held : ~ (/\ answer.ptr < blocks[id]
                               /\ blocks[id] + block_sizes[id] < answer.ptr + n)
  <2>1. honest => FitsIn(blocks, block_sizes, held, answer.ptr, n, answer.brk)
    BY <1>2, <1>4, <1>5, <1>6, <1>8, TakenFits
  <2> QED BY <1>5, <2>1, KeptIs
<1> QED BY <1>2, <1>7, <1>8 DEF Escapes

LEMMA ReallocJudged ==
  ASSUME IInv, ValidRealloc, pc' = "eval_mm_valid"
  PROVE  honest => honest' \/ Escapes
<1> DEFINE i == Request.index
           n == Request.size
           R == held \ {i}
           rest == remove_range(ranges, blocks[i])
<1>1. /\ pc = "eval_mm_valid" /\ opnum <= Len(trace) /\ Request.type = "REALLOC" /\ pc \in Passes
  BY DEF ValidRealloc, HasMore, Passes
<1>2. i \in Ids /\ n \in Nat \ {0} /\ i \in held
  BY <1>1, Asked
<1>3. /\ blocks \in [Ids -> Addresses \cup {NULL}] /\ block_sizes \in [Ids -> Nat]
      /\ mem_brk \in 0 .. MAX_HEAP
  BY DEF IInv, Typed
<1>4. honest => /\ Placed(blocks, block_sizes, held, mem_brk)
                /\ Listed(ranges, blocks, block_sizes, held)
                /\ bytes[i] = i % CHARS
  BY <1>1, <1>2 DEF IInv, Promised, Ranged
<1>5. honest => Placed(blocks, block_sizes, R, mem_brk) /\ Listed(rest, blocks, block_sizes, R)
  <2> SUFFICES ASSUME honest
               PROVE  /\ Placed(blocks, block_sizes, R, mem_brk)
                      /\ Listed(rest, blocks, block_sizes, R)
    OBVIOUS
  <2>1. Placed(blocks, block_sizes, R, mem_brk)
    BY <1>4, PlacedLess
  <2>2. Listed(rest, blocks, block_sizes, R)
    <3> HIDE DEF i
    <3> QED BY <1>2, <1>4, RangeRemoved
  <2> QED BY <2>1, <2>2
<1>6. PICK answer \in Answers, byte \in 0 .. CHARS - 1 :
        /\ honest' = (honest /\ Kept(answer, n, Payloads(R)) /\ byte = bytes[i])
        /\ answer.ptr # NULL /\ add_range(rest, answer.ptr, n, answer.brk) /\ SameData(byte, i)
        /\ Remember(answer.ptr, n)
  <2>1. ~ malloc_error
    BY DEF malloc_error, NextTrace
  <2> QED BY <2>1 DEF ValidRealloc
<1>7. answer.ptr \in Int /\ answer.brk \in Int
  <2>1. answer.ptr \in Addresses \cup {NULL} /\ answer.brk \in Grown(mem_brk)
    BY DEF Answers
  <2>2. answer.brk \in 0 .. MAX_HEAP
    BY <1>3, <2>1, GrownIs
  <2>3. answer.ptr \in Addresses
    BY <1>6, <2>1
  <2>4. answer.brk \in Int
    BY <2>2, HeapAssumption
  <2>5. answer.ptr \in Int
    BY <2>3, AddressesAssumption
  <2> QED BY <2>4, <2>5
<1>8. blocks'[i] = answer.ptr /\ block_sizes'[i] = n
  BY <1>2, <1>3, <1>6 DEF Remember
<1>9. honest => byte = bytes[i]
  <2>1. i % CHARS \in 0 .. CHARS - 1
    BY <1>2, BytesAssumption, Division DEF Ids
  <2>2. CHARS \in Nat /\ CHARS \div 2 \in Nat
    BY BytesAssumption
  <2> QED BY <1>4, <1>6, <2>1, <2>2 DEF SameData, as_char
<1>10. CASE \A id \in R : ~ (/\ answer.ptr < blocks[id]
                             /\ blocks[id] + block_sizes[id] < answer.ptr + n)
  <2>1. honest => FitsIn(blocks, block_sizes, R, answer.ptr, n, answer.brk)
    <3> HIDE DEF rest, i, n, R
    <3> QED BY <1>2, <1>5, <1>6, <1>7, <1>10, TakenFits
  <2> QED BY <1>6, <1>9, <2>1, KeptIs
<1> QED BY <1>8, <1>10 DEF Escapes

(* Nothing else begins, or goes on with, eval_mm_valid.                    *)
LEMMA JudgingStep ==
  ASSUME IInv, Next, pc' = "eval_mm_valid"
  PROVE  \/ honest'
         \/ pc = "eval_mm_valid" /\ ~ honest
         \/ pc = "eval_mm_valid" /\ Escapes /\ (ValidAlloc \/ ValidRealloc)
<1>1. CASE ValidAlloc \/ ValidRealloc
  <2>1. pc = "eval_mm_valid" /\ honest \in BOOLEAN
    BY <1>1 DEF ValidAlloc, ValidRealloc, HasMore, IInv, Typed
  <2> QED BY <1>1, <2>1, AllocJudged, ReallocJudged
<1>2. CASE ValidInit
  BY <1>2 DEF ValidInit, mm_init_ok, malloc_error, NextTrace
<1>3. CASE ValidFree
  <2>1. pc = "eval_mm_valid" /\ honest' = honest
    BY <1>3 DEF ValidFree, HasMore
  <2> QED BY <2>1
<1>4. CASE LibcDone \/ Report \/ ValidDone \/ UtilFree \/ UtilDone
  BY <1>4 DEF LibcDone, Report, ValidDone, UtilFree, UtilDone, StartMeasuring, HasMore
<1>5. CASE ReadTrace
  BY <1>5 DEF ReadTrace, read_trace
<1>6. CASE UtilInit \/ UtilAlloc \/ EvalLibcValid
  BY <1>6 DEF UtilInit, UtilAlloc, EvalLibcValid, StartMeasuring, HasMore, app_error
<1>7. CASE Fsecs
  <2>1. ASSUME NEW duration \in Durations, TimedRun(duration) PROVE FALSE
    BY <2>1 DEF TimedRun, RunsAgain, SpeedDone, NextTrace, GoOn
  <2>2. ASSUME NEW duration \in Durations, NEW ticks \in 0 .. 1, Sample(duration, ticks)
        PROVE  FALSE
    BY <2>2 DEF Sample, RunsAgain, SpeedDone, NextTrace, GoOn
  <2>3. ~ SpeedFails
    BY DEF SpeedFails, app_error
  <2> QED BY <1>7, <2>1, <2>2, <2>3 DEF Fsecs
<1> QED BY <1>1, <1>2, <1>3, <1>4, <1>5, <1>6, <1>7 DEF Next

(* Whatever the traces, the only answers that eval_mm_valid takes although *)
(* they break the promise are payloads around another one.                 *)
OnlyEnclosuresEscape ==
  [][pc' = "eval_mm_valid" /\ honest /\ ~ honest' => Escapes]_vars

THEOREM WhatEscapes == Spec => OnlyEnclosuresEscape
<1>1. IInv /\ [Next]_vars => [pc' = "eval_mm_valid" /\ honest /\ ~ honest' => Escapes]_vars
  BY JudgingStep
<1> QED BY <1>1, Invariance, PTL DEF Spec, OnlyEnclosuresEscape

LEMMA Multiples ==
  ASSUME NEW B \in Nat \ {0}, NEW a \in Nat, NEW b \in Nat, a % B = 0, b % B = 0, a < b
  PROVE  a + B <= b
<1> DEFINE q == a \div B
           r == b \div B
<1>1. q \in Nat /\ a = q * B + 0
  BY Division
<1>2. r \in Nat /\ b = r * B + 0
  BY Division
<1> HIDE DEF q, r
<1>3. CASE q < r
  BY <1>1, <1>2, <1>3, Products
<1>4. CASE r < q
  BY <1>1, <1>2, <1>4, Products
<1> QED BY <1>1, <1>2, <1>3, <1>4

(* A payload around another one is larger by more than the alignment.      *)
Alike(ops) ==
  \A m, n \in DOMAIN ops : ops[m].type # "FREE" /\ ops[n].type # "FREE" =>
                             ops[n].size <= ops[m].size + ALIGNMENT

AlikeSizes ==
  \A files \in Runs : \A n \in DOMAIN files :
    Readable(files[n].lines) => Alike(traceops(files[n].lines))

LEMMA TraceStep ==
  ASSUME AlikeSizes, IInv, Alike(trace), [Next]_vars
  PROVE  Alike(trace')
<1>1. Alike(<< >>)
  BY DEF Alike
<1>2. CASE trace' = trace \/ trace' = << >>
  BY <1>1, <1>2
<1>3. CASE ReadTrace
  <2>1. tracefiles \in Runs /\ tracenum \in DOMAIN tracefiles
    <3>1. tracefiles \in Seq([num_ids : Nat, num_ops : Nat, lines : Seq(Line)])
          /\ tracenum \in Nat \ {0} /\ tracenum <= Len(tracefiles) /\ tracefiles \in Runs
      BY <1>3, RunsAssumption DEF IInv, Typed, ReadTrace
    <3>2. Len(tracefiles) \in Nat /\ DOMAIN tracefiles = 1 .. Len(tracefiles)
      BY <3>1, LenProperties
    <3> QED BY <3>1, <3>2
  <2>2. \/ trace' = trace
        \/ /\ Readable(tracefiles[tracenum].lines)
           /\ trace' = traceops(tracefiles[tracenum].lines)
    BY <1>3 DEF ReadTrace, read_trace, traceVars
  <2> QED BY <2>1, <2>2 DEF AlikeSizes
<1>4. CASE UNCHANGED vars
  BY <1>2, <1>4 DEF vars, traceVars
<1>5. CASE LibcDone \/ Report \/ ValidInit \/ ValidDone \/ UtilInit \/ UtilFree \/ UtilDone
           \/ EvalLibcValid
  BY <1>2, <1>5 DEF LibcDone, Report, ValidInit, ValidDone, UtilInit, UtilFree, UtilDone,
        EvalLibcValid, malloc_error, NextTrace, app_error, traceVars
<1>6. CASE ValidAlloc \/ ValidRealloc \/ ValidFree \/ UtilAlloc
  BY <1>2, <1>6 DEF ValidAlloc, ValidRealloc, ValidFree, UtilAlloc, malloc_error, NextTrace,
        app_error, traceVars
<1>7. CASE Fsecs
  BY <1>2, <1>7 DEF Fsecs, SpeedFails, TimedRun, Sample, SpeedDone, GoOn, NextTrace, app_error,
        traceVars
<1> QED BY <1>3, <1>4, <1>5, <1>6, <1>7 DEF Next

LEMMA NoneEscapes ==
  ASSUME IInv, Alike(trace), pc = "eval_mm_valid", honest, ValidAlloc \/ ValidRealloc,
         pc' = "eval_mm_valid"
  PROVE  ~ Escapes
<1> DEFINE i == Request.index
           n == Request.size
<1>1. opnum <= Len(trace) /\ Request.type # "FREE" /\ pc \in Passes
  BY DEF ValidAlloc, ValidRealloc, HasMore, Passes
<1>2. /\ i \in Ids /\ n \in Nat \ {0} /\ opnum \in 1 .. Len(trace) /\ Request = trace[opnum]
      /\ DOMAIN trace = 1 .. Len(trace)
  BY <1>1, Asked, TraceIs DEF IInv, Typed
<1>3. /\ blocks \in [Ids -> Addresses \cup {NULL}] /\ block_sizes \in [Ids -> Nat]
  BY DEF IInv, Typed
<1>4. Placed(blocks, block_sizes, held, mem_brk)
  BY <1>1 DEF IInv, Promised
<1>5. PICK p : blocks'[i] = p /\ block_sizes'[i] = n /\ p \in Nat /\ p % ALIGNMENT = 0
  <2>1. ~ malloc_error
    BY DEF malloc_error, NextTrace
  <2>2. PICK answer \in Answers, rs \in {ranges, remove_range(ranges, blocks[i])} :
          answer.ptr # NULL /\ add_range(rs, answer.ptr, n, answer.brk) /\ Remember(answer.ptr, n)
    BY <2>1 DEF ValidAlloc, ValidRealloc
  <2>3. answer.ptr \in Nat /\ answer.ptr % ALIGNMENT = 0
    BY <2>2 DEF add_range
  <2>4. blocks'[i] = answer.ptr /\ block_sizes'[i] = n
    BY <1>2, <1>3, <2>2 DEF Remember
  <2> QED BY <2>3, <2>4
<1>6. ASSUME NEW id \in held, p < blocks[id], blocks[id] + block_sizes[id] < p + n
      PROVE  FALSE
  <2>1. PICK k \in 1 .. Len(trace) : trace[k].type # "FREE" /\ trace[k].size = block_sizes[id]
    BY <1>1 DEF IInv, Working
  <2>2. n <= block_sizes[id] + ALIGNMENT
    BY <1>1, <1>2, <2>1 DEF Alike
  <2>3. blocks[id] \in Nat /\ blocks[id] % ALIGNMENT = 0 /\ block_sizes[id] \in Nat
    BY <1>4 DEF Placed
  <2>4. p + ALIGNMENT <= blocks[id]
    BY <1>5, <1>6, <2>3, HeapAssumption, Multiples
  <2> QED BY <1>2, <1>5, <1>6, <2>2, <2>3, <2>4, HeapAssumption
<1> QED BY <1>5, <1>6 DEF Escapes

(* As long as eval_mm_valid goes on, the allocator has kept its promise,   *)
(* if the sizes of a trace differ by no more than the alignment.           *)
THEOREM BadIsCaught ==
  ASSUME AlikeSizes PROVE Spec => []BadAllocatorIsCaught
<1> DEFINE Both == Alike(trace) /\ BadAllocatorIsCaught
<1>1. Init => Both
  BY DEF Init, Alike, BadAllocatorIsCaught
<1>2. IInv /\ Both /\ [Next]_vars => Both'
  <2> SUFFICES ASSUME IInv, Both, [Next]_vars PROVE Both'
    OBVIOUS
  <2>1. Alike(trace)'
    BY TraceStep
  <2>2. CASE UNCHANGED vars
    BY <2>1, <2>2 DEF vars, BadAllocatorIsCaught
  <2>3. CASE Next
    <3>1. ASSUME pc' = "eval_mm_valid", ~ honest' PROVE FALSE
      <4>1. pc = "eval_mm_valid" /\ honest /\ Escapes /\ (ValidAlloc \/ ValidRealloc)
        BY <2>3, <3>1, JudgingStep DEF BadAllocatorIsCaught
      <4> QED BY <3>1, <4>1, NoneEscapes
    <3> QED BY <2>1, <3>1 DEF BadAllocatorIsCaught
  <2> QED BY <2>2, <2>3
<1>3. Both => BadAllocatorIsCaught
  OBVIOUS
<1> HIDE DEF Both
<1> QED BY <1>1, <1>2, <1>3, Invariance, PTL DEF Spec

-----------------------------------------------------------------------------
(* The utilization.                                                        *)

LEMMA IdsFinite ==
  ASSUME NEW S \in SUBSET Ids, NEW z \in [Ids -> Nat]
  PROVE  IsFiniteSet(S) /\ Weight(z, S) \in Nat /\ SumFunctionOnSet(z, S) = Weight(z, S)
<1>1. IsFiniteSet(Ids)
  <2>1. MaxIndex \in Int /\ 0 \in Int
    BY BytesAssumption
  <2> QED BY <2>1, FS_Interval DEF Ids
<1>2. IsFiniteSet(S)
  BY <1>1, FS_Subset
<1>3. \A x \in S : z[x] \in Nat
  OBVIOUS
<1> QED BY <1>2, <1>3, UnitsFinite, SumIsWeight

(* Payloads that are apart have no more bytes than the heap.               *)
LEMMA PlacedWeight ==
  ASSUME NEW b, NEW z \in [Ids -> Nat], NEW S \in SUBSET Ids, NEW top \in Nat, Placed(b, z, S, top)
  PROVE  Weight(z, S) <= top
<1> DEFINE U == Units(z, S)
           F == [u \in U |-> b[u[1]] + u[2] - 1]
<1>1. ASSUME NEW u \in U
      PROVE  /\ u[1] \in S /\ u[2] \in Nat \ {0} /\ u[2] <= z[u[1]] /\ u = <<u[1], u[2]>>
             /\ b[u[1]] \in Int /\ z[u[1]] \in Nat /\ 0 <= b[u[1]] /\ b[u[1]] + z[u[1]] <= top
  <2>1. u \in S \X Nat /\ u[2] \in 1 .. z[u[1]]
    BY DEF Units
  <2>2. u[1] \in S /\ u[2] \in Nat /\ u = <<u[1], u[2]>> /\ z[u[1]] \in Nat
    BY <2>1
  <2> QED BY <2>1, <2>2 DEF Placed
<1> HIDE DEF U
<1>2. \A u \in U : F[u] \in 0 .. top - 1
  <2> TAKE u \in U
  <2>1. F[u] = b[u[1]] + u[2] - 1
    OBVIOUS
  <2> HIDE DEF F
  <2> QED BY <1>1, <2>1
<1>3. \A u, v \in U : F[u] = F[v] => u = v
  <2> SUFFICES ASSUME NEW u \in U, NEW v \in U, F[u] = F[v] PROVE u = v
    OBVIOUS
  <2> DEFINE p == b[u[1]]
             q == b[v[1]]
             k == u[2]
             l == v[2]
             m == z[u[1]]
             n == z[v[1]]
  <2>1. p + k - 1 = q + l - 1
    OBVIOUS
  <2> HIDE DEF F
  <2>a. p \in Int /\ q \in Int /\ m \in Nat /\ n \in Nat
    BY <1>1
  <2>b. k \in Nat \ {0} /\ k <= m /\ l \in Nat \ {0} /\ l <= n
    BY <1>1
  <2>2. CASE u[1] = v[1]
    <3>1. p = q
      BY <2>2
    <3> HIDE DEF p, q, k, l
    <3>2. k = l
      BY <2>1, <2>a, <2>b, <3>1
    <3> QED BY <1>1, <2>2, <3>2 DEF k, l
  <2>3. CASE u[1] # v[1]
    <3>1. p + m <= q \/ q + n <= p
      BY <1>1, <2>3 DEF Placed
    <3> HIDE DEF p, q, k, l, m, n
    <3> QED BY <2>1, <2>a, <2>b, <3>1
  <2> QED BY <2>2, <2>3
<1>4. F \in Injection(U, 0 .. top - 1)
  BY <1>2, <1>3 DEF Injection, IsInjective
<1>5. IsFiniteSet(0 .. top - 1) /\ Cardinality(0 .. top - 1) = top
  <2>1. 0 \in Int /\ top - 1 \in Int
    OBVIOUS
  <2>2. /\ IsFiniteSet(0 .. top - 1)
        /\ Cardinality(0 .. top - 1) = IF 0 > top - 1 THEN 0 ELSE (top - 1) - 0 + 1
    BY <2>1, FS_Interval
  <2> QED BY <2>2
<1>6. Cardinality(U) <= top
  <2> HIDE DEF F
  <2> QED BY <1>4, <1>5, FS_Injection
<1> QED BY <1>6 DEF Weight, U

Put(y, z, i, n) == y = [z EXCEPT ![i] = n]

LEMMA WeightOfPut ==
  ASSUME NEW S \in SUBSET Ids, NEW z \in [Ids -> Nat], NEW i \in Ids, NEW n \in Nat,
         NEW R, R = S \ {i}, NEW T, T = S \cup {i}, NEW y, Put(y, z, i, n)
  PROVE  /\ Weight(z, S) = (IF i \in S THEN z[i] ELSE 0) + Weight(z, R)
         /\ Weight(y, T) = n + Weight(z, R)
<1>1. Weight(z, R) \in Nat
  BY IdsFinite
<1>2. Weight(z, S) = (IF i \in S THEN z[i] ELSE 0) + Weight(z, R)
  <2>1. CASE i \in S
    <3>1. IsFiniteSet(S) /\ \A x \in S : z[x] \in Nat
      BY IdsFinite
    <3> QED BY <2>1, <3>1, WeightOfMore
  <2>2. CASE i \notin S
    <3>1. R = S
      BY <2>2
    <3> QED BY <1>1, <2>2, <3>1
  <2> QED BY <2>1, <2>2
<1>3. Weight(y, T) = n + Weight(z, R)
  <2>1. y \in [Ids -> Nat] /\ T \in SUBSET Ids /\ i \in T /\ T \ {i} = R /\ y[i] = n
    BY DEF Put
  <2>2. \A x \in R : y[x] = z[x]
    BY DEF Put
  <2>3. IsFiniteSet(T) /\ \A x \in T : y[x] \in Nat
    BY <2>1, IdsFinite
  <2>4. Weight(y, T) = y[i] + Weight(y, T \ {i})
    BY <2>1, <2>3, WeightOfMore
  <2>5. Weight(y, R) = Weight(z, R)
    BY <2>2, WeightSame
  <2> QED BY <2>1, <2>4, <2>5
<1> QED BY <1>2, <1>3

LEMMA LargerOfTwo ==
  ASSUME NEW a \in Int, NEW b \in Int
  PROVE  Max({a, b}) = IF a >= b THEN a ELSE b
BY DEF Max

(* While the utilization is measured.                                      *)
Counted ==
  pc = "eval_mm_util" =>
    /\ total_size = Weight(block_sizes, held)
    /\ max_total_size \in Nat /\ total_size <= max_total_size
    /\ honest => max_total_size <= mem_brk

LEMMA UtilAllocCounts ==
  ASSUME IInv, Counted, UtilAlloc, IInv', pc' = "eval_mm_util"
  PROVE  Counted'
<1> DEFINE i == Request.index
           n == Request.size
<1>1. /\ pc = "eval_mm_util" /\ opnum <= Len(trace) /\ Request.type \in {"ALLOC", "REALLOC"}
      /\ pc \in Passes
  BY DEF UtilAlloc, HasMore, Passes
<1>2. i \in Ids /\ n \in Nat /\ (Request.type = "ALLOC" <=> i \notin held)
  BY <1>1, Asked
<1>3. /\ block_sizes \in [Ids -> Nat] /\ held \in SUBSET Ids /\ mem_brk \in 0 .. MAX_HEAP
  BY DEF IInv, Typed
<1>4. /\ total_size = Weight(block_sizes, held) /\ max_total_size \in Nat
      /\ honest => max_total_size <= mem_brk
  BY <1>1 DEF Counted
<1>5. PICK answer \in Answers :
        /\ mem_brk' = answer.brk
        /\ honest' = (honest /\ Kept(answer, n, Payloads(held \ {i})))
        /\ Remember(answer.ptr, n)
        /\ Total(n - (IF Request.type = "REALLOC" THEN block_sizes[i] ELSE 0))
  <2>1. ~ app_error
    BY DEF app_error
  <2> QED BY <2>1 DEF UtilAlloc
<1> HIDE DEF i, n
<1>6. /\ block_sizes' = [block_sizes EXCEPT ![i] = n] /\ held' = held \cup {i}
  BY <1>5 DEF Remember, i, n
<1>7. /\ total_size' = total_size + (n - (IF Request.type = "REALLOC" THEN block_sizes[i] ELSE 0))
      /\ max_total_size' = Max({max_total_size, total_size'})
  BY <1>5 DEF Total
<1> DEFINE rest == Weight(block_sizes, held \ {i})
<1>8. /\ Weight(block_sizes, held) = (IF i \in held THEN block_sizes[i] ELSE 0) + rest
      /\ Weight(block_sizes', held') = n + rest
      /\ rest \in Nat
  <2>1. i \in Ids /\ n \in Nat
    BY <1>2 DEF i, n
  <2>2. held \ {i} \in SUBSET Ids
    BY <1>3
  <2>3. rest \in Nat
    BY <1>3, <2>2, IdsFinite
  <2>4. /\ Weight(block_sizes, held) = (IF i \in held THEN block_sizes[i] ELSE 0) + rest
        /\ Weight(block_sizes', held') = n + rest
    <3>1. Put(block_sizes', block_sizes, i, n) /\ held' = held \cup {i}
      BY <1>6 DEF Put
    <3> QED BY <1>3, <2>1, <3>1, WeightOfPut
  <2> QED BY <2>3, <2>4
<1> HIDE DEF rest
<1>9. total_size' = n + rest /\ total_size' = Weight(block_sizes', held')
  <2>1. block_sizes[i] \in Nat
    BY <1>2, <1>3 DEF i
  <2>2. Request.type = "REALLOC" <=> i \in held
    BY <1>1, <1>2 DEF i
  <2>3. total_size' = n + rest
    BY <1>2, <1>4, <1>7, <1>8, <2>1, <2>2 DEF n
  <2> QED BY <1>6, <1>8, <2>3
<1>10. total_size' \in Nat
  BY <1>2, <1>8, <1>9 DEF n
<1>11. /\ max_total_size' \in Nat /\ total_size' <= max_total_size'
       /\ max_total_size' = max_total_size \/ max_total_size' = total_size'
  BY <1>4, <1>7, <1>10, LargerOfTwo
<1>12. ASSUME honest' PROVE max_total_size' <= mem_brk'
  <2>1. Placed(blocks', block_sizes', held', mem_brk')
    BY <1>12 DEF IInv, Promised, Passes
  <2>2. block_sizes' \in [Ids -> Nat] /\ held' \in SUBSET Ids /\ mem_brk' \in Nat
    <3>1. mem_brk' \in 0 .. MAX_HEAP
      BY DEF IInv, Typed
    <3> QED BY <3>1, HeapAssumption DEF IInv, Typed
  <2>3. total_size' <= mem_brk'
    BY <1>9, <2>1, <2>2, PlacedWeight
  <2>4. mem_brk <= mem_brk'
    BY <1>3, <1>5, GrownIs DEF Answers
  <2>5. honest
    BY <1>5, <1>12
  <2>6. max_total_size <= mem_brk /\ mem_brk \in Int
    BY <1>3, <1>4, <2>5, HeapAssumption
  <2> QED BY <1>4, <1>10, <1>11, <2>2, <2>3, <2>4, <2>6
<1> QED BY <1>9, <1>11, <1>12 DEF Counted

LEMMA UtilFreeCounts ==
  ASSUME IInv, Counted, UtilFree
  PROVE  Counted'
<1> DEFINE i == Request.index
<1>1. /\ pc = "eval_mm_util" /\ opnum <= Len(trace) /\ Request.type = "FREE" /\ pc \in Passes
      /\ total_size' = total_size - block_sizes[i] /\ held' = held \ {i}
      /\ UNCHANGED <<pc, mem_brk, honest, max_total_size, block_sizes>>
  BY DEF UtilFree, HasMore, Forget, Passes
<1>2. i \in Ids /\ i \in held
  BY <1>1, Asked
<1>3. block_sizes \in [Ids -> Nat] /\ held \in SUBSET Ids
  BY DEF IInv, Typed
<1>4. /\ total_size = Weight(block_sizes, held)
      /\ max_total_size \in Nat /\ total_size <= max_total_size
      /\ honest => max_total_size <= mem_brk
  BY <1>1 DEF Counted
<1> HIDE DEF i
<1> DEFINE rest == Weight(block_sizes, held \ {i})
<1>5. Weight(block_sizes, held) = block_sizes[i] + rest /\ rest \in Nat
  <2>1. IsFiniteSet(held) /\ \A x \in held : block_sizes[x] \in Nat
    BY <1>3, IdsFinite
  <2> QED BY <1>2, <2>1, WeightOfMore
<1> HIDE DEF rest
<1>6. block_sizes[i] \in Nat
  BY <1>2, <1>3
<1>7. total_size' = rest /\ rest <= max_total_size
  BY <1>1, <1>4, <1>5, <1>6
<1> QED BY <1>1, <1>4, <1>7 DEF Counted, rest

LEMMA CountedStep ==
  ASSUME IInv, Counted, Next, IInv'
  PROVE  Counted'
<1>1. CASE pc' # "eval_mm_util"
  BY <1>1 DEF Counted
<1>2. CASE UtilAlloc /\ pc' = "eval_mm_util"
  BY <1>2, UtilAllocCounts
<1>3. CASE UtilFree
  BY <1>3, UtilFreeCounts
<1>4. CASE UtilInit /\ pc' = "eval_mm_util"
  <2>1. total_size' = 0 /\ max_total_size' = 0 /\ held' = {}
    BY <1>4 DEF UtilInit, mm_init_ok, app_error
  <2>2. mem_brk' \in 0 .. MAX_HEAP
    BY DEF IInv, Typed
  <2>3. mem_brk' >= 0
    BY <2>2, HeapAssumption
  <2> QED BY <2>1, <2>3, WeightOfNone DEF Counted
<1>5. CASE LibcDone \/ Report \/ ValidInit \/ ValidDone \/ UtilDone \/ EvalLibcValid
  <2>1. pc' # "eval_mm_util"
    BY <1>5 DEF LibcDone, Report, ValidInit, ValidDone, UtilDone, EvalLibcValid, StartMeasuring,
          malloc_error, NextTrace, app_error
  <2> QED BY <1>1, <2>1
<1>6. CASE ValidAlloc \/ ValidRealloc \/ ValidFree
  <2>1. pc' # "eval_mm_util"
    BY <1>6 DEF ValidAlloc, ValidRealloc, ValidFree, HasMore, malloc_error, NextTrace
  <2> QED BY <1>1, <2>1
<1>7. CASE ReadTrace
  <2>1. pc' # "eval_mm_util"
    BY <1>7 DEF ReadTrace, read_trace
  <2> QED BY <1>1, <2>1
<1>8. CASE Fsecs
  <2>1. pc' # "eval_mm_util"
    <3>1. ASSUME NEW duration \in Durations, TimedRun(duration) PROVE pc' # "eval_mm_util"
      BY <3>1 DEF TimedRun, RunsAgain, SpeedDone, NextTrace, GoOn
    <3>2. ASSUME NEW duration \in Durations, NEW ticks \in 0 .. 1, Sample(duration, ticks)
          PROVE  pc' # "eval_mm_util"
      BY <3>2 DEF Sample, RunsAgain, SpeedDone, NextTrace, GoOn
    <3>3. SpeedFails => pc' # "eval_mm_util"
      BY DEF SpeedFails, app_error
    <3> QED BY <1>8, <3>1, <3>2, <3>3 DEF Fsecs
  <2> QED BY <1>1, <2>1
<1> QED BY <1>1, <1>2, <1>3, <1>4, <1>5, <1>6, <1>7, <1>8 DEF Next

(* What eval_mm_util adds up is the sum of the sizes that are held, and if *)
(* the allocator keeps its promise the largest sum is no more than the     *)
(* heap: the payloads' bytes are all different ones of it.                 *)
THEOREM UtilizationRight == Spec => []UtilizationIsRight
<1>1. Init => Counted
  BY DEF Init, Counted
<1>2. IInv /\ Counted /\ [Next]_vars /\ IInv' => Counted'
  <2> SUFFICES ASSUME IInv, Counted, [Next]_vars, IInv' PROVE Counted'
    OBVIOUS
  <2>1. CASE UNCHANGED vars
    BY <2>1 DEF vars, Counted, traceVars, utilVars
  <2> QED BY <2>1, CountedStep
<1>3. IInv /\ Counted => UtilizationIsRight
  <2> SUFFICES ASSUME IInv, Counted, pc = "eval_mm_util"
               PROVE  /\ total_size = SumFunctionOnSet(block_sizes, held)
                      /\ honest => total_size <= max_total_size /\ max_total_size <= mem_brk
    BY DEF UtilizationIsRight
  <2>1. block_sizes \in [Ids -> Nat] /\ held \in SUBSET Ids
    BY DEF IInv, Typed
  <2> QED BY <2>1, IdsFinite DEF Counted
<1> QED BY <1>1, <1>2, <1>3, Invariance, PTL DEF Spec

-----------------------------------------------------------------------------
(* The clocks.                                                             *)

(* The cycle counter's words give the time between two readings, wherever  *)
(* they wrap around, if it is less than the counter's period.              *)
LEMMA CounterRight ==
  ASSUME NEW c \in Nat, NEW d \in 0 .. WORD * WORD - 1
  PROVE  get_counter(access_counter(c), access_counter(c + d)) = d
<1> DEFINE q == c \div WORD
           r == c % WORD
           p == (c + d) \div WORD
           u == (c + d) % WORD
           a == d \div WORD
           s == d % WORD
<1>1. WORD \in Nat \ {0} /\ d \in Nat /\ d < WORD * WORD /\ WORD * WORD \in Nat
  BY WordAssumption
<1>2. q \in Nat /\ r \in 0 .. WORD - 1 /\ c = q * WORD + r /\ q * WORD \in Nat
  <2>1. q \in Nat /\ r \in 0 .. WORD - 1 /\ c = q * WORD + r
    BY <1>1, Division
  <2> HIDE DEF q, r
  <2> QED BY <1>1, <2>1
<1>3. p \in Nat /\ u \in 0 .. WORD - 1 /\ c + d = p * WORD + u /\ p * WORD \in Nat
  <2>0. c + d \in Nat
    BY <1>1
  <2>1. p \in Nat /\ u \in 0 .. WORD - 1 /\ c + d = p * WORD + u
    BY <1>1, <2>0, Division
  <2> HIDE DEF p, u
  <2> QED BY <1>1, <2>1
<1>4. a \in Nat /\ s \in 0 .. WORD - 1 /\ d = a * WORD + s /\ a * WORD \in Nat
  <2>1. a \in Nat /\ s \in 0 .. WORD - 1 /\ d = a * WORD + s
    BY <1>1, Division
  <2> HIDE DEF a, s
  <2> QED BY <1>1, <2>1
<1>5. a \in 0 .. WORD - 1
  <2>1. ASSUME WORD <= a PROVE FALSE
    <3> HIDE DEF a, s
    <3>1. WORD = a \/ WORD < a
      BY <1>1, <1>4, <2>1
    <3>2. WORD * WORD <= a * WORD
      BY <1>1, <1>4, <3>1, Products
    <3> QED BY <1>1, <1>4, <3>2
  <2> HIDE DEF a, s
  <2> QED BY <1>1, <1>4, <2>1
<1> DEFINE carry == IF r + s >= WORD THEN 1 ELSE 0
<1>6. carry \in {0, 1} /\ r + s - carry * WORD \in 0 .. WORD - 1
  <2> HIDE DEF r, s
  <2> QED BY <1>1, <1>2, <1>4
<1>7. p = q + a + carry /\ u = r + s - carry * WORD
  <2> HIDE DEF q, r, a, s, carry
  <2>1. q + a + carry \in Nat
    BY <1>2, <1>4, <1>6
  <2>2. carry * WORD \in Nat
    BY <1>1, <1>6
  <2>3. (q + a + carry) * WORD = q * WORD + a * WORD + carry * WORD
    BY <1>1, <1>2, <1>4, <1>6
  <2>4. c + d = (q + a + carry) * WORD + (r + s - carry * WORD)
    BY <1>1, <1>2, <1>4, <2>2, <2>3
  <2> DEFINE k == q + a + carry
             w == r + s - carry * WORD
  <2>5. k \in Nat /\ w \in 0 .. WORD - 1 /\ c + d = k * WORD + w
    BY <1>6, <2>1, <2>4
  <2> HIDE DEF k, w
  <2>6. (k * WORD + w) \div WORD = k /\ (k * WORD + w) % WORD = w
    BY <1>1, <2>5, Quotient
  <2> QED BY <2>5, <2>6 DEF k, w
<1> DEFINE lo == (u - r) % WORD
           borrow == IF lo > u THEN 1 ELSE 0
<1>8. lo = s /\ borrow = carry
  <2> HIDE DEF r, s, u
  <2>1. u - r = (0 - carry) * WORD + s
    BY <1>1, <1>2, <1>4, <1>6, <1>7
  <2>2. lo = s
    <3>1. 0 - carry \in Int
      BY <1>6
    <3> HIDE DEF carry
    <3> QED BY <1>1, <1>4, <2>1, <3>1, QuotientInt
  <2> HIDE DEF lo
  <2> QED BY <1>1, <1>2, <1>4, <1>7, <2>2
<1> HIDE DEF lo, borrow, carry
<1> DEFINE hi == ((p % WORD) - (q % WORD) - borrow) % WORD
<1>9. hi = a
  <2> DEFINE x == p \div WORD
             v == p % WORD
             y == q \div WORD
             w == q % WORD
  <2>1. x \in Int /\ v \in Int /\ p = x * WORD + v /\ x * WORD \in Int
    BY <1>1, <1>3, DivisionInt
  <2>2. y \in Int /\ w \in Int /\ q = y * WORD + w /\ y * WORD \in Int
    BY <1>1, <1>2, DivisionInt
  <2> HIDE DEF p, q, x, v, y, w, a
  <2>3. v - w - borrow = p - q - carry - (x * WORD - y * WORD)
    BY <1>2, <1>3, <1>6, <1>8, <2>1, <2>2
  <2>4. p - q - carry = a
    BY <1>2, <1>3, <1>4, <1>6, <1>7
  <2>5. y - x \in Int /\ (y - x) * WORD = y * WORD - x * WORD
    BY <1>1, <2>1, <2>2
  <2>6. v - w - borrow = (y - x) * WORD + a
    BY <1>4, <2>1, <2>2, <2>3, <2>4, <2>5
  <2>7. ((y - x) * WORD + a) % WORD = a
    BY <1>1, <1>5, <2>5, QuotientInt
  <2> QED BY <2>6, <2>7 DEF v, w
<1>10. get_counter(access_counter(c), access_counter(c + d)) = (hi * WORD) + lo
  BY DEF get_counter, access_counter, lo, borrow
<1> QED BY <1>4, <1>8, <1>9, <1>10

(* So do the seconds and microseconds of the timers.                       *)
LEMMA DifferenceRight ==
  ASSUME NEW a \in Int, NEW b \in Int
  PROVE  difference(timeval(a), timeval(b)) = b - a
<1> DEFINE p == a \div USEC
           r == a % USEC
           q == b \div USEC
           s == b % USEC
<1>1. USEC \in Nat \ {0}
  BY WordAssumption
<1>2. p \in Int /\ r \in Int /\ a = p * USEC + r /\ p * USEC \in Int
  BY <1>1, DivisionInt
<1>3. q \in Int /\ s \in Int /\ b = q * USEC + s /\ q * USEC \in Int
  BY <1>1, DivisionInt
<1>4. difference(timeval(a), timeval(b)) = USEC * (q - p) + (s - r)
  BY DEF difference, timeval
<1> HIDE DEF p, r, q, s
<1>5. USEC * (q - p) = q * USEC - p * USEC
  BY <1>1, <1>2, <1>3
<1> QED BY <1>2, <1>3, <1>4, <1>5

LEMMA EtimeRight ==
  ASSUME NEW t \in Int PROVE get_etime(t) = t
<1> DEFINE m == USEC * MAX_ETIME
<1>1. m \in Int
  BY WordAssumption
<1>2. get_etime(t) = difference(timeval(m - t), timeval(m))
  BY DEF get_etime
<1> HIDE DEF m
<1>3. difference(timeval(m - t), timeval(m)) = m - (m - t)
  BY <1>1, DifferenceRight
<1> QED BY <1>1, <1>2, <1>3

(* What callibrate may find a tick to cost.                                *)
LEMMA CallibrateIs ==
  ASSUME NEW events \in SUBSET Events PROVE callibrate(events) \in Nat
<1> DEFINE ratios == {e.cycles \div e.ticks : e \in events}
           ticks == {cpt \in ratios : cpt > RECORDTHRESH}
<1>1. \A e \in events : e.cycles \div e.ticks \in Nat
  <2> TAKE e \in events
  <2>1. e.cycles \in Nat /\ e.ticks \in Nat \ {0}
    BY ClocksAssumption
  <2> QED BY <2>1, Division
<1>2. ticks \in SUBSET Nat
  BY <1>1
<1>3. callibrate(events) = IF ticks = {} THEN 0 ELSE Min(ticks)
  BY DEF callibrate
<1> HIDE DEF ticks
<1>4. ASSUME ticks # {} PROVE Min(ticks) \in Nat
  <2>1. PICK m \in ticks : \A k \in ticks : m <= k
    BY <1>2, <1>4, LeastNatural
  <2>2. Min(ticks) \in ticks
    BY <2>1, Zenon DEF Min
  <2> QED BY <1>2, <2>2
<1> QED BY <1>3, <1>4

LEMMA LeastIs ==
  ASSUME NEW S \in SUBSET Int, NEW m \in S, \A k \in S : m <= k
  PROVE  Min(S) = m
<1>1. Min(S) \in S /\ \A k \in S : Min(S) <= k
  BY Zenon DEF Min
<1>2. Min(S) \in Int /\ m \in Int /\ Min(S) <= m /\ m <= Min(S)
  BY <1>1
<1> QED BY <1>2

-----------------------------------------------------------------------------
(* The sampler keeps the smallest values, the least one first.             *)

LeastFirst(v) == \A j \in 1 .. Len(v) : v[1] <= v[j]
First(v, val) == IF Len(v) > 0 /\ v[1] <= val THEN v[1] ELSE val

LEMMA InsertLeast ==
  ASSUME NEW v \in Seq(Int), LeastFirst(v), NEW val \in Int
  PROVE  /\ insert(v, val) \in Seq(Int) /\ Len(insert(v, val)) = Len(v) + 1
         /\ LeastFirst(insert(v, val)) /\ insert(v, val)[1] = First(v, val)
<1> DEFINE n == Len(v)
           below == {0} \cup {j \in DOMAIN v : v[j] <= val}
           m == Max(below)
           t == insert(v, val)
<1>1. n \in Nat /\ DOMAIN v = 1 .. n /\ \A j \in 1 .. n : v[j] \in Int
  BY LenProperties, ElementOfSeq
<1>2. m \in 0 .. n /\ m \in below /\ \A j \in below : j <= m
  <2>1. below \in SUBSET (0 .. n) /\ below # {}
    BY <1>1
  <2> HIDE DEF below, n
  <2>2. PICK i \in below : \A j \in below : j <= i
    BY <1>1, <2>1, GreatestNatural
  <2>3. \A j \in below : i >= j
    BY <1>1, <2>1, <2>2
  <2>4. m \in below /\ \A j \in below : m >= j
    BY <2>3, Zenon DEF Max
  <2> QED BY <1>1, <2>1, <2>4
<1>3. m > 0 <=> n > 0 /\ v[1] <= val
  <2>1. ASSUME m > 0 PROVE n > 0 /\ v[1] <= val
    <3>1. m \in 1 .. n /\ v[m] <= val
      BY <1>1, <1>2, <2>1
    <3>2. v[1] <= v[m] /\ v[1] \in Int /\ v[m] \in Int
      BY <1>1, <3>1 DEF LeastFirst
    <3> QED BY <1>1, <3>1, <3>2
  <2>2. ASSUME n > 0, v[1] <= val PROVE m > 0
    <3>1. 1 \in below
      BY <1>1, <2>2
    <3> HIDE DEF below, m
    <3> QED BY <1>2, <3>1
  <2> QED BY <2>1, <2>2
<1>4. t = InsertAt(v, 1 + m, val)
  BY DEF insert
<1> HIDE DEF m, t
<1>5. /\ t \in Seq(Int) /\ Len(t) = n + 1
      /\ \A k \in 1 .. (n + 1) : t[k] = IF k < 1 + m THEN v[k] ELSE IF k = 1 + m THEN val ELSE v[k - 1]
  <2>1. 1 + m \in 1 .. Len(v) + 1
    BY <1>1, <1>2
  <2> DEFINE i == 1 + m
             x == InsertAt(v, i, val)
  <2>a. i \in 1 .. Len(v) + 1
    BY <2>1
  <2> HIDE DEF i
  <2>2. /\ x \in Seq(Int) /\ Len(x) = Len(v) + 1
        /\ \A k \in 1 .. (Len(v) + 1) : x[k] = IF k < i THEN v[k] ELSE IF k = i THEN val ELSE v[k - 1]
    BY <2>a, InsertedAt
  <2> QED BY <1>4, <2>2 DEF i
<1> HIDE DEF n
<1>6. t[1] = First(v, val)
  <2>1. 1 \in 1 .. (n + 1) /\ (1 < 1 + m <=> m > 0) /\ (m > 0 \/ 1 = 1 + m)
    BY <1>1, <1>2
  <2>2. t[1] = IF m > 0 THEN v[1] ELSE val
    BY <1>5, <2>1
  <2> QED BY <1>3, <2>2 DEF First, n
<1>7. First(v, val) \in Int /\ First(v, val) <= val /\ \A j \in 1 .. n : First(v, val) <= v[j]
  <2>1. CASE n > 0 /\ v[1] <= val
    <3>1. First(v, val) = v[1] /\ v[1] \in Int
      BY <1>1, <2>1 DEF First, n
    <3> QED BY <2>1, <3>1 DEF LeastFirst, n
  <2>2. CASE ~ (n > 0 /\ v[1] <= val)
    <3>1. First(v, val) = val
      BY <2>2 DEF First, n
    <3>2. ASSUME NEW j \in 1 .. n PROVE val <= v[j]
      <4>1. n > 0 /\ 1 \in 1 .. n
        BY <1>1
      <4>2. v[1] \in Int /\ v[j] \in Int /\ v[1] <= v[j] /\ ~ v[1] <= val
        BY <1>1, <2>2, <4>1 DEF LeastFirst, n
      <4> QED BY <4>2
    <3> QED BY <3>1, <3>2
  <2> QED BY <2>1, <2>2
<1>8. ASSUME NEW k \in 1 .. (n + 1) PROVE t[1] <= t[k]
  <2>1. k < 1 + m \/ k = 1 + m \/ k > 1 + m
    BY <1>1, <1>2
  <2>2. CASE k < 1 + m
    <3>1. k \in 1 .. n /\ t[k] = v[k]
      BY <1>1, <1>2, <1>5, <2>2
    <3> QED BY <1>6, <1>7, <3>1
  <2>3. CASE k = 1 + m
    <3>1. t[k] = val
      BY <1>1, <1>2, <1>5, <2>3
    <3> QED BY <1>6, <1>7, <3>1
  <2>4. CASE k > 1 + m
    <3>1. k - 1 \in 1 .. n /\ ~ k < 1 + m /\ k # 1 + m
      BY <1>1, <1>2, <2>4
    <3>2. t[k] = v[k - 1]
      BY <1>5, <3>1
    <3> QED BY <1>6, <1>7, <3>1, <3>2
  <2> QED BY <2>1, <2>2, <2>3, <2>4
<1>9. LeastFirst(t)
  BY <1>5, <1>8 DEF LeastFirst
<1> QED BY <1>5, <1>6, <1>9 DEF t, n

LEMMA AddLeast ==
  ASSUME NEW v \in Seq(Int), LeastFirst(v), Len(v) <= kbest, NEW val \in Int
  PROVE  /\ add_sample(v, val) \in Seq(Int)
         /\ Len(add_sample(v, val)) > 0 /\ Len(add_sample(v, val)) <= kbest
         /\ LeastFirst(add_sample(v, val)) /\ add_sample(v, val)[1] = First(v, val)
<1> DEFINE n == Len(v)
           t == add_sample(v, val)
<1>1. /\ n \in Nat /\ kbest \in Nat \ {0} /\ n <= kbest
      /\ \A j \in 1 .. n : v[j] \in Int
  BY KbestAssumption, LenProperties, ElementOfSeq
<1>2. CASE n < kbest
  <2>1. t = insert(v, val)
    BY <1>2 DEF add_sample
  <2> HIDE DEF t
  <2>2. /\ t \in Seq(Int) /\ Len(t) = n + 1 /\ LeastFirst(t) /\ t[1] = First(v, val)
    BY <2>1, InsertLeast
  <2> HIDE DEF n
  <2>3. Len(t) > 0 /\ Len(t) <= kbest
    BY <1>1, <1>2, <2>2
  <2> QED BY <2>2, <2>3 DEF t
<1>3. CASE n = kbest /\ val < v[kbest]
  <2> DEFINE w == SubSeq(v, 1, kbest - 1)
  <2>1. t = insert(w, val)
    BY <1>1, <1>3 DEF add_sample
  <2>2. w \in Seq(Int) /\ Len(w) = kbest - 1 /\ \A j \in 1 .. (kbest - 1) : w[j] = v[j]
    <3> DEFINE k == kbest - 1
    <3>1. k \in Nat /\ \A j \in 1 .. k : v[j] \in Int
      BY <1>1, <1>3
    <3> HIDE DEF k
    <3> DEFINE x == SubSeq(v, 1, k)
    <3>2. /\ x \in Seq(Int) /\ Len(x) = IF 1 <= k THEN k - 1 + 1 ELSE 0
          /\ \A j \in 1 .. (k - 1 + 1) : x[j] = v[1 + j - 1]
      BY <3>1, SubSeqProperties
    <3> HIDE DEF x
    <3>3. Len(x) = k /\ k - 1 + 1 = k /\ \A j \in 1 .. k : 1 + j - 1 = j
      BY <3>1, <3>2
    <3>4. x \in Seq(Int) /\ Len(x) = k /\ \A j \in 1 .. k : x[j] = v[j]
      BY <3>2, <3>3
    <3> QED BY <3>4 DEF x, k
  <2> HIDE DEF w, t, n
  <2>3. LeastFirst(w) /\ First(w, val) = First(v, val)
    <3>1. CASE kbest = 1
      <4>1. Len(w) = 0
        BY <2>2, <3>1
      <4>2. First(w, val) = val
        BY <4>1 DEF First
      <4>3. v[1] \in Int /\ val < v[1]
        BY <1>1, <1>3, <3>1
      <4>4. First(v, val) = val
        BY <4>3 DEF First
      <4> QED BY <4>1, <4>2, <4>4 DEF LeastFirst
    <3>2. CASE kbest # 1
      <4>1. kbest - 1 > 0 /\ 1 \in 1 .. (kbest - 1) /\ n > 0
        BY <1>1, <1>3, <3>2
      <4>2. w[1] = v[1] /\ Len(w) > 0
        BY <2>2, <4>1
      <4>3. ASSUME NEW j \in 1 .. Len(w) PROVE w[1] <= w[j]
        <5>1. j \in 1 .. n /\ w[j] = v[j]
          BY <1>1, <1>3, <2>2
        <5> QED BY <4>2, <5>1 DEF LeastFirst, n
      <4>4. First(w, val) = First(v, val)
        BY <4>1, <4>2 DEF First, n
      <4> QED BY <4>3, <4>4 DEF LeastFirst
    <3> QED BY <3>1, <3>2
  <2>4. /\ t \in Seq(Int) /\ Len(t) = Len(w) + 1 /\ LeastFirst(t) /\ t[1] = First(w, val)
    BY <2>1, <2>2, <2>3, InsertLeast
  <2>5. Len(t) > 0 /\ Len(t) <= kbest
    BY <1>1, <2>2, <2>4
  <2> QED BY <2>3, <2>4, <2>5 DEF t
<1>4. CASE n = kbest /\ ~ val < v[kbest]
  <2>1. t = v
    BY <1>1, <1>4 DEF add_sample
  <2>2. kbest \in 1 .. n /\ 1 \in 1 .. n
    BY <1>1, <1>4
  <2>3. v[1] \in Int /\ v[kbest] \in Int /\ v[1] <= v[kbest]
    BY <1>1, <2>2 DEF LeastFirst
  <2>4. First(v, val) = v[1]
    BY <1>1, <1>4, <2>2, <2>3 DEF First
  <2> QED BY <1>1, <1>4, <2>1, <2>4
<1>5. n < kbest \/ n = kbest
  BY <1>1
<1> QED BY <1>2, <1>3, <1>4, <1>5

(* What the sampler has seen, and what it has kept of it.                  *)
Sampled(e, v) ==
  /\ e \in Seq(Int) /\ v \in Seq(Int) /\ Len(v) <= kbest /\ LeastFirst(v)
  /\ Len(e) = 0 <=> Len(v) = 0
  /\ Len(v) > 0 => /\ \E j \in 1 .. Len(e) : e[j] = v[1]
                   /\ \A j \in 1 .. Len(e) : v[1] <= e[j]

LEMMA SampledNone ==
  Sampled(<< >>, << >>)
<1> DEFINE e == << >>
<1>1. e \in Seq(Int) /\ Len(e) = 0
  OBVIOUS
<1> HIDE DEF e
<1>2. Sampled(e, e)
  BY <1>1, KbestAssumption DEF Sampled, LeastFirst
<1> QED BY <1>2 DEF e

LEMMA SampledMore ==
  ASSUME NEW e, NEW v, Sampled(e, v), NEW x \in Int
  PROVE  /\ Sampled(Append(e, x), add_sample(v, x))
         /\ Len(add_sample(v, x)) > 0
<1> DEFINE f == Append(e, x)
           w == add_sample(v, x)
           n == Len(e)
<1>1. /\ e \in Seq(Int) /\ v \in Seq(Int) /\ Len(v) <= kbest /\ LeastFirst(v)
      /\ n \in Nat /\ Len(v) \in Nat /\ (n = 0 <=> Len(v) = 0)
      /\ \A j \in 1 .. Len(v) : v[j] \in Int
      /\ \A j \in 1 .. n : e[j] \in Int
  BY LenProperties, ElementOfSeq DEF Sampled
<1>2. f \in Seq(Int) /\ Len(f) = n + 1 /\ (\A j \in 1 .. n : f[j] = e[j]) /\ f[n + 1] = x
  BY <1>1, AppendProperties
<1>3. /\ w \in Seq(Int) /\ Len(w) > 0 /\ Len(w) <= kbest /\ LeastFirst(w) /\ w[1] = First(v, x)
  BY <1>1, AddLeast
<1> HIDE DEF f, w, n
<1>4. /\ w[1] <= x /\ \E j \in 1 .. (n + 1) : f[j] = w[1]
      /\ \A j \in 1 .. n : w[1] <= e[j]
  <2>1. CASE Len(v) > 0 /\ v[1] <= x
    <3>1. w[1] = v[1]
      BY <1>3, <2>1 DEF First
    <3>2. PICK j \in 1 .. n : e[j] = v[1]
      BY <2>1 DEF Sampled, n
    <3>3. j \in 1 .. (n + 1) /\ f[j] = w[1]
      BY <1>1, <1>2, <3>1, <3>2
    <3>4. \A k \in 1 .. n : v[1] <= e[k]
      BY <2>1 DEF Sampled, n
    <3> QED BY <2>1, <3>1, <3>3, <3>4
  <2>2. CASE ~ (Len(v) > 0 /\ v[1] <= x)
    <3>1. w[1] = x
      BY <1>3, <2>2 DEF First
    <3>2. n + 1 \in 1 .. (n + 1) /\ f[n + 1] = w[1]
      BY <1>1, <1>2, <3>1
    <3>3. ASSUME NEW k \in 1 .. n PROVE x <= e[k]
      <4>1. Len(v) > 0 /\ 1 \in 1 .. Len(v)
        BY <1>1
      <4>2. v[1] \in Int /\ e[k] \in Int /\ v[1] <= e[k] /\ ~ v[1] <= x
        BY <1>1, <2>2, <4>1 DEF Sampled, n
      <4> QED BY <4>2
    <3> QED BY <3>1, <3>2, <3>3
  <2> QED BY <2>1, <2>2
<1>5. \A j \in 1 .. (n + 1) : w[1] <= f[j]
  <2> TAKE j \in 1 .. (n + 1)
  <2>1. j \in 1 .. n \/ j = n + 1
    BY <1>1
  <2> QED BY <1>2, <1>4, <2>1
<1>6. Len(f) # 0 /\ Len(w) # 0
  BY <1>1, <1>2, <1>3
<1>7. Sampled(f, w)
  BY <1>2, <1>3, <1>4, <1>5, <1>6 DEF Sampled
<1> QED BY <1>3, <1>7 DEF f, w

LEMMA SampledLeast ==
  ASSUME NEW e, NEW v, Sampled(e, v), Len(v) > 0
  PROVE  v[1] = Min(ToSet(e))
<1>1. Len(e) \in Nat /\ DOMAIN e = 1 .. Len(e) /\ \A j \in 1 .. Len(e) : e[j] \in Int
  BY LenProperties, ElementOfSeq DEF Sampled
<1>2. ToSet(e) = {e[j] : j \in 1 .. Len(e)}
  BY <1>1 DEF ToSet
<1>3. v[1] \in ToSet(e) /\ (\A k \in ToSet(e) : v[1] <= k) /\ ToSet(e) \in SUBSET Int
  BY <1>1, <1>2 DEF Sampled
<1> HIDE DEF ToSet
<1> QED BY <1>3, LeastIs

-----------------------------------------------------------------------------
(* The results of fsecs.                                                   *)

Timed ==
  /\ cyc_per_tick \in Nat /\ clock \in Nat
  /\ pc = "fsecs" => IF timer = "fcyc" THEN Sampled(elapsed, values) ELSE elapsed \in Seq(Nat)

Right ==
  pc = "fsecs" /\ pc' = "main" =>
    secs' = IF timer = "fcyc" THEN Min(ToSet(elapsed'))
            ELSE FoldLeft(LAMBDA sum, e : sum + e, 0, elapsed')

LEMMA SampleRight ==
  ASSUME Timed, NEW duration \in Durations, NEW ticks \in 0 .. 1, Sample(duration, ticks)
  PROVE  Timed' /\ Right
<1>1. /\ pc = "fsecs" /\ timer = "fcyc" /\ timer' = timer /\ clock' = clock
      /\ cyc_per_tick' \in CycPerTick
      /\ elapsed' = Append(elapsed, duration - ticks * cyc_per_tick')
  BY DEF Sample, RunsAgain, fixedVars
<1>2. cyc_per_tick' \in Nat
  BY <1>1, CallibrateIs DEF CycPerTick, Timed
<1>3. duration \in 0 .. WORD * WORD - 1 /\ duration \in Int
  <2>1. duration \in 0 .. WORD * WORD - 1
    BY ClocksAssumption
  <2>2. WORD * WORD - 1 \in Int
    BY WordAssumption
  <2> QED BY <2>1, <2>2
<1> DEFINE x == duration - ticks * cyc_per_tick'
           vs == add_sample(values, x)
<1>4. x \in Int
  <2>1. ticks = 0 \/ ticks = 1
    OBVIOUS
  <2> QED BY <1>2, <1>3, <2>1
<1>5. IF GivesUp(vs) THEN SpeedDone(vs[1]) /\ values' = << >> ELSE GoOn /\ values' = vs
  <2>1. PICK count \in Counts :
          LET cyc == get_comp_counter(access_counter(count), access_counter(count + duration),
                                      ticks, cyc_per_tick')
              us  == add_sample(values, cyc)
          IN  IF GivesUp(us) THEN SpeedDone(us[1]) /\ values' = << >>
              ELSE GoOn /\ values' = us
    BY DEF Sample
  <2>2. count \in Nat
    BY ClocksAssumption
  <2>3. get_counter(access_counter(count), access_counter(count + duration)) = duration
    BY <1>3, <2>2, CounterRight
  <2>4. get_comp_counter(access_counter(count), access_counter(count + duration), ticks, cyc_per_tick') = x
    BY <2>3 DEF get_comp_counter
  <2> HIDE DEF x
  <2> QED BY <2>1, <2>4
<1>6. Sampled(elapsed, values)
  BY <1>1 DEF Timed
<1>7. Sampled(elapsed', vs) /\ Len(vs) > 0
  <2>1. elapsed' = Append(elapsed, x)
    BY <1>1
  <2> HIDE DEF x
  <2> QED BY <1>4, <1>6, <2>1, SampledMore
<1>8. vs[1] = Min(ToSet(elapsed'))
  BY <1>7, SampledLeast
<1> HIDE DEF vs
<1>9. CASE GivesUp(vs)
  <2>1. pc' = "main" /\ secs' = vs[1]
    BY <1>5, <1>9 DEF SpeedDone, NextTrace
  <2> QED BY <1>1, <1>2, <1>8, <2>1 DEF Timed, Right
<1>10. CASE ~ GivesUp(vs)
  <2>1. pc' = "fsecs" /\ values' = vs
    BY <1>1, <1>5, <1>10 DEF GoOn
  <2> QED BY <1>1, <1>2, <1>7, <2>1 DEF Timed, Right
<1> QED BY <1>9, <1>10

LEMMA RunRight ==
  ASSUME Timed, NEW duration \in Durations, TimedRun(duration)
  PROVE  Timed' /\ Right
<1>1. /\ pc = "fsecs" /\ timer # "fcyc" /\ timer' = timer /\ clock' = clock
      /\ cyc_per_tick' = cyc_per_tick /\ elapsed' = Append(elapsed, duration)
      /\ IF Len(elapsed') = TimedRuns THEN SpeedDone(Measured) ELSE GoOn
  BY DEF TimedRun, RunsAgain, fixedVars
<1>2. duration \in Nat
  <2>1. duration \in 0 .. WORD * WORD - 1
    BY ClocksAssumption
  <2>2. WORD * WORD - 1 \in Int
    BY WordAssumption
  <2> QED BY <2>1, <2>2
<1>3. elapsed' \in Seq(Nat)
  BY <1>1, <1>2, AppendProperties DEF Timed
<1> DEFINE sum == FoldLeft(LAMBDA sum, e : sum + e, 0, elapsed')
<1>4. sum \in Nat
  <2>1. sum = Weight(elapsed', DOMAIN elapsed')
    BY <1>3, FoldLeftIsWeight
  <2>2. /\ IsFiniteSet(DOMAIN elapsed') /\ \A k \in DOMAIN elapsed' : elapsed'[k] \in Nat
    <3>1. Len(elapsed') \in Nat /\ DOMAIN elapsed' = 1 .. Len(elapsed')
      BY <1>3, LenProperties
    <3>2. IsFiniteSet(1 .. Len(elapsed'))
      BY <3>1, FS_Interval
    <3> QED BY <1>3, <3>1, <3>2, ElementOfSeq
  <2> HIDE DEF sum
  <2> QED BY <2>1, <2>2, UnitsFinite
<1>5. Now = clock + sum
  BY DEF Now
<1> HIDE DEF sum
<1>6. clock \in Nat /\ Now \in Int /\ Now - clock = sum
  BY <1>4, <1>5 DEF Timed
<1>7. Measured = sum
  <2>1. difference(timeval(clock), timeval(Now)) = Now - clock
    BY <1>6, DifferenceRight
  <2>2. get_etime(Now) = Now /\ get_etime(clock) = clock
    BY <1>6, EtimeRight
  <2> QED BY <1>6, <2>1, <2>2 DEF Measured
<1>8. CASE Len(elapsed') = TimedRuns
  <2>1. pc' = "main" /\ secs' = sum
    BY <1>1, <1>7, <1>8 DEF SpeedDone, NextTrace
  <2>2. Timed'
    BY <1>1, <2>1 DEF Timed
  <2>3. Right
    BY <1>1, <2>1 DEF Right, sum
  <2> QED BY <2>2, <2>3
<1>9. CASE Len(elapsed') # TimedRuns
  <2>1. pc' = "fsecs"
    BY <1>1, <1>9 DEF GoOn
  <2> QED BY <1>1, <1>3, <2>1 DEF Timed, Right
<1> QED BY <1>8, <1>9

LEMMA TimeStep ==
  ASSUME Timed, Next
  PROVE  Timed' /\ Right
<1>1. CASE UtilDone \/ (EvalLibcValid /\ ~ app_error)
  <2>1. /\ elapsed' = << >> /\ values' = << >> /\ cyc_per_tick' = cyc_per_tick /\ pc' # "main"
        /\ clock' \in IF timer = "fcyc" THEN {0} ELSE Counts
    BY <1>1 DEF UtilDone, EvalLibcValid, StartMeasuring
  <2>2. clock' \in Nat
    BY <2>1, ClocksAssumption
  <2>3. << >> \in Seq(Nat)
    OBVIOUS
  <2> QED BY <2>1, <2>2, <2>3, SampledNone DEF Timed, Right
<1>2. CASE ReadTrace
  <2>1. pc' # "fsecs" /\ pc # "fsecs" /\ clock' = 0 /\ cyc_per_tick' = cyc_per_tick
    BY <1>2 DEF ReadTrace, read_trace
  <2> QED BY <2>1 DEF Timed, Right
<1>3. CASE app_error
  <2>1. pc' = "exit1" /\ UNCHANGED <<clock, cyc_per_tick>>
    BY <1>3 DEF app_error, clockVars
  <2> QED BY <2>1 DEF Timed, Right
<1>4. ASSUME pc' # "fsecs", pc # "fsecs", UNCHANGED <<clock, cyc_per_tick>> PROVE Timed' /\ Right
  BY <1>4 DEF Timed, Right
<1>5. CASE LibcDone \/ Report \/ ValidInit \/ ValidDone \/ (UtilInit /\ ~ app_error) \/ UtilFree
  <2>1. pc' # "fsecs" /\ pc # "fsecs" /\ UNCHANGED <<clock, cyc_per_tick>>
    BY <1>5 DEF LibcDone, Report, ValidInit, ValidDone, UtilInit, UtilFree, HasMore, malloc_error,
          NextTrace, clockVars
  <2> QED BY <1>4, <2>1
<1>6. CASE ValidAlloc \/ ValidRealloc \/ ValidFree \/ (UtilAlloc /\ ~ app_error)
  <2>1. pc' # "fsecs" /\ pc # "fsecs" /\ UNCHANGED <<clock, cyc_per_tick>>
    BY <1>6 DEF ValidAlloc, ValidRealloc, ValidFree, UtilAlloc, HasMore, malloc_error, NextTrace,
          clockVars
  <2> QED BY <1>4, <2>1
<1>7. CASE Fsecs
  BY <1>3, <1>7, SampleRight, RunRight DEF Fsecs, SpeedFails
<1> QED BY <1>1, <1>2, <1>3, <1>5, <1>6, <1>7 DEF Next

(* What fsecs returns: the shortest run, or the sum of the runs.           *)
THEOREM TimeRight == Spec => TimeIsRight
<1>1. Init => Timed
  BY DEF Init, Timed
<1>2. Timed /\ [Next]_vars => Timed' /\ [Right]_vars
  <2>1. CASE UNCHANGED vars
    BY <2>1 DEF vars, Timed, Right, clockVars, fixedVars
  <2> QED BY <2>1, TimeStep
<1>3. Spec => [][Right]_vars
  BY <1>1, <1>2, PTL DEF Spec
<1> QED BY <1>3 DEF TimeIsRight, Right

=============================================================================

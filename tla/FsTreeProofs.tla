----------------------------- MODULE FsTreeProofs -----------------------------
(***************************************************************************)
(* Fs implements FileTree: every handler that succeeds changes the tree    *)
(* that paths, inodes and blocks make up as the call promises, and one     *)
(* that fails leaves it alone.                                             *)
(***************************************************************************)
EXTENDS FsTree, FsProofs

-----------------------------------------------------------------------------
(* What a file holds.                                                      *)

(* Word n of the file of inode i.                                          *)
WordIn(d, i, n) ==
  LET b == At(d, i, n \div BlockSize)
  IN  IF b = 0 THEN Hole ELSE d.block[b][n % BlockSize]

LEMMA SequenceOf ==
  ASSUME NEW n \in Nat, NEW f, f = [k \in 1 .. n |-> f[k]]
  PROVE  /\ Len(f) = n /\ DOMAIN f = 1 .. n
         /\ n = 0 => f = << >>
<1> DEFINE S == {f[k] : k \in 1 .. n}
<1>1. f \in [1 .. n -> S]
  OBVIOUS
<1> HIDE DEF S
<1>2. f \in Seq(S) /\ Len(f) = n
  BY <1>1
<1>3. n = 0 => f = << >>
  BY <1>2, EmptySeq
<1> QED BY <1>1, <1>2, <1>3

LEMMA ContentIs ==
  ASSUME NEW d, Consistent(d), NEW i \in Used(d), NEW n, n = d.inode[i].size,
         NEW c, c = Content(d, d.inode[i])
  PROVE  /\ n \in Nat /\ c = [k \in 1 .. n |-> c[k]] /\ DOMAIN c = 1 .. n /\ Len(c) = n
         /\ n = 0 => c = << >>
         /\ \A k \in 1 .. n : c[k] = WordIn(d, i, k - 1)
<1> DEFINE in == d.inode[i]
<1>1. /\ n \in Nat /\ n <= BlockSize * BlockSize /\ block_count_from_size(n) <= BlockSize
      /\ block_count_from_size(n) \in Nat
      /\ \A k \in Nat : k < BlockSize => k \in Offsets
      /\ \A k \in Offsets : Pointers(d, in)[k] = At(d, i, k)
  BY FileAt
<1>2. c = [k \in 1 .. n |-> IF InHole(d, in, k - 1) THEN Hole ELSE WordAt(d, in, k - 1)]
  BY DEF Content
<1>3. c = [k \in 1 .. n |-> c[k]] /\ DOMAIN c = 1 .. n
  BY <1>2
<1>4. Len(c) = n /\ (n = 0 => c = << >>)
  BY <1>1, <1>3, SequenceOf
<1>5. ASSUME NEW k \in 1 .. n PROVE c[k] = WordIn(d, i, k - 1)
  <2> DEFINE q == (k - 1) \div BlockSize
             w == (k - 1) % BlockSize
  <2>1. k - 1 \in Nat /\ k - 1 < n
    BY <1>1
  <2>2. q \in Nat /\ q < block_count_from_size(n)
    BY <1>1, <2>1, PlaceOf
  <2>3. q \in Offsets
    BY <1>1, <2>2, BlockSizeAssumption
  <2>4. Pointers(d, in)[q] = At(d, i, q)
    BY <1>1, <2>3
  <2>5. c[k] = IF Pointers(d, in)[q] = 0 THEN Hole ELSE block_read(d, Pointers(d, in)[q])[w]
    BY <1>2 DEF InHole, WordAt
  <2> HIDE DEF q, w
  <2>6. WordIn(d, i, k - 1) = IF At(d, i, q) = 0 THEN Hole ELSE d.block[At(d, i, q)][w]
    BY DEF WordIn, q, w
  <2> QED BY <2>4, <2>5, <2>6 DEF block_read
<1> QED BY <1>1, <1>3, <1>4, <1>5

(* The blocks of a file hold zeroes behind its end: what a file that grows *)
(* shows of them.                                                          *)
TailedAt(d, i) ==
  \A k, w \in Offsets : At(d, i, k) # 0 /\ d.inode[i].size <= k * BlockSize + w =>
                          d.block[At(d, i, k)][w] = 0

Tailed(d) == \A i \in Used(d) : ~ d.inode[i].is_directory => TailedAt(d, i)

(* A file that is the same holds the same.                                 *)
LEMMA NodeSpared ==
  ASSUME NEW d, Consistent(d), NEW g, Consistent(g), NEW i \in Used(d), i \in Used(g),
         g.inode[i].is_directory = d.inode[i].is_directory,
         ~ d.inode[i].is_directory => Same(d, g, i)
  PROVE  NodeOf(g, g.inode[i]) = NodeOf(d, d.inode[i])
<1>1. CASE d.inode[i].is_directory
  BY <1>1 DEF NodeOf
<1>2. CASE ~ d.inode[i].is_directory
  <2> DEFINE c == Content(d, d.inode[i])
             e == Content(g, g.inode[i])
             n == d.inode[i].size
  <2>1. g.inode[i].size = n
    BY <1>2 DEF Same
  <2>2. /\ n \in Nat /\ c = [k \in 1 .. n |-> c[k]]
        /\ \A k \in 1 .. n : c[k] = WordIn(d, i, k - 1)
    BY ContentIs
  <2>3. /\ e = [k \in 1 .. n |-> e[k]]
        /\ \A k \in 1 .. n : e[k] = WordIn(g, i, k - 1)
    BY <2>1, ContentIs
  <2> HIDE DEF c, e
  <2>4. ASSUME NEW k \in 1 .. n PROVE WordIn(d, i, k - 1) = WordIn(g, i, k - 1)
    <3> DEFINE q == (k - 1) \div BlockSize
    <3>1. q \in Offsets
      <4>1. k - 1 \in Nat /\ k - 1 < n
        BY <2>2
      <4>2. q \in Nat /\ q < block_count_from_size(n)
        BY <2>2, <4>1, PlaceOf
      <4>3. block_count_from_size(n) <= BlockSize /\ block_count_from_size(n) \in Nat
            /\ \A j \in Nat : j < BlockSize => j \in Offsets
        BY FileAt
      <4> HIDE DEF q
      <4> QED BY <4>2, <4>3, BlockSizeAssumption
    <3>2. /\ At(g, i, q) = At(d, i, q)
          /\ At(d, i, q) # 0 => g.block[At(d, i, q)] = d.block[At(d, i, q)]
      BY <1>2, <3>1 DEF Same, Places
    <3> QED BY <3>2 DEF WordIn
  <2>5. c = e
    BY <2>2, <2>3, <2>4
  <2> QED BY <1>2, <2>5 DEF NodeOf, c, e
<1> QED BY <1>1, <1>2

LEMMA TailSpared ==
  ASSUME NEW d, NEW g, NEW i, Same(d, g, i), TailedAt(d, i)
  PROVE  TailedAt(g, i)
<1>1. g.inode[i] = d.inode[i]
  BY DEF Same
<1>2. \A k \in Offsets : /\ At(g, i, k) = At(d, i, k)
                         /\ At(d, i, k) # 0 => g.block[At(d, i, k)] = d.block[At(d, i, k)]
  BY DEF Same, Places
<1> QED BY <1>1, <1>2 DEF TailedAt

(* Inodes that are not touched keep their tails.                           *)
LEMMA TailsSpared ==
  ASSUME NEW d, Tailed(d), NEW g, NEW S, S \subseteq Used(d), Spares(d, g, S),
         \A i \in Used(g) \ S : ~ g.inode[i].is_directory => TailedAt(g, i)
  PROVE  Tailed(g)
<1> SUFFICES ASSUME NEW i \in Used(g), ~ g.inode[i].is_directory PROVE TailedAt(g, i)
  BY DEF Tailed
<1>1. CASE i \in S
  <2>1. ~ d.inode[i].is_directory /\ Same(d, g, i)
    BY <1>1 DEF Spares
  <2>2. TailedAt(d, i)
    BY <1>1, <2>1 DEF Tailed
  <2> QED BY <2>1, <2>2, TailSpared
<1> QED BY <1>1

-----------------------------------------------------------------------------
(* What a file that is written, grown or cut holds then.                   *)

(* The words of the old content stay, but words of holes may be zeroes.    *)
StaysIn(old, new, k) == new[k] = old[k] \/ (old[k] = Hole /\ new[k] = 0)

(* Behind the old end there are zeroes, or holes.                          *)
LEMMA WordGoesOn ==
  ASSUME NEW d, Consistent(d), NEW i \in Used(d), NEW g, NEW n \in Nat,
         n < BlockSize * BlockSize,
         Stays(d, g, i, n \div BlockSize, n % BlockSize)
  PROVE  /\ WordIn(g, i, n) = WordIn(d, i, n) \/ (WordIn(d, i, n) = Hole /\ WordIn(g, i, n) = 0)
         /\ TailedAt(d, i) /\ d.inode[i].size <= n => WordIn(g, i, n) \in {0, Hole}
         /\ TailedAt(d, i) /\ d.inode[i].size <= n /\ At(g, i, n \div BlockSize) # 0 =>
              WordIn(g, i, n) = 0
<1> DEFINE q == n \div BlockSize
           w == n % BlockSize
<1>1. q \in Nat /\ w \in Offsets /\ n = q * BlockSize + w
  BY PlaceOf
<1>2. q \in Offsets
  <2>1. BlockSize * BlockSize \in Nat
    BY BlockSizeAssumption
  <2>2. q < block_count_from_size(BlockSize * BlockSize)
    BY <2>1, PlaceOf
  <2>3. /\ block_count_from_size(BlockSize * BlockSize) <= BlockSize
        /\ block_count_from_size(BlockSize * BlockSize) \in Nat
    BY <2>1, CountFits, Count
  <2> HIDE DEF q
  <2> QED BY <1>1, <2>2, <2>3, BlockSizeAssumption DEF Offsets
<1>3. /\ WordIn(d, i, n) = IF At(d, i, q) = 0 THEN Hole ELSE d.block[At(d, i, q)][w]
      /\ WordIn(g, i, n) = IF At(g, i, q) = 0 THEN Hole ELSE g.block[At(g, i, q)][w]
  BY DEF WordIn
<1>4. Stays(d, g, i, q, w)
  OBVIOUS
<1>5. TailedAt(d, i) /\ d.inode[i].size <= n /\ At(d, i, q) # 0 => d.block[At(d, i, q)][w] = 0
  <2> HIDE DEF q, w
  <2> QED BY <1>1, <1>2 DEF TailedAt
<1> HIDE DEF q, w
<1> QED BY <1>3, <1>4, <1>5 DEF Stays, Has, q

ResizedTo(g, i, old, new, size) ==
  /\ TailedAt(g, i) /\ Len(new) = size /\ DOMAIN new = 1 .. size
  /\ \A k \in DOMAIN new : IF k \in DOMAIN old THEN StaysIn(old, new, k) ELSE new[k] = 0

(* No block of a file that grows stays a hole behind its old end.          *)
LEMMA GrownIs ==
  ASSUME NEW d, Consistent(d), NEW i \in Used(d), ~ d.inode[i].is_directory, TailedAt(d, i),
         NEW g, Consistent(g), i \in Used(g), NEW size \in Nat, size > d.inode[i].size,
         size <= BlockSize * BlockSize, Grown(d, g, i, size),
         NEW old, old = Content(d, d.inode[i]), NEW new, new = Content(g, g.inode[i])
  PROVE  ResizedTo(g, i, old, new, size)
<1> DEFINE m == d.inode[i].size
<1>1. g.inode[i].size = size /\ (\A k, w \in Offsets : Stays(d, g, i, k, w))
  BY DEF Grown, IsNow
<1>2. /\ m \in Nat /\ DOMAIN old = 1 .. m
      /\ \A k \in 1 .. m : old[k] = WordIn(d, i, k - 1)
  BY ContentIs
<1>3. /\ DOMAIN new = 1 .. size /\ Len(new) = size
      /\ \A k \in 1 .. size : new[k] = WordIn(g, i, k - 1)
  BY <1>1, ContentIs
<1>4. TailedAt(g, i)
  <2> SUFFICES ASSUME NEW k \in Offsets, NEW w \in Offsets, At(g, i, k) # 0,
                      g.inode[i].size <= k * BlockSize + w
               PROVE  g.block[At(g, i, k)][w] = 0
    BY DEF TailedAt
  <2>1. k * BlockSize + w \in Nat
    BY BlockSizeAssumption DEF Offsets
  <2>2. m <= k * BlockSize + w
    BY <1>1, <1>2, <2>1
  <2>3. At(d, i, k) # 0 => d.block[At(d, i, k)][w] = 0
    BY <2>2 DEF TailedAt
  <2> QED BY <1>1, <2>3 DEF Stays, Has
<1>5. ASSUME NEW k \in 1 .. size
      PROVE  IF k \in DOMAIN old THEN StaysIn(old, new, k) ELSE new[k] = 0
  <2> DEFINE n == k - 1
             q == n \div BlockSize
             w == n % BlockSize
  <2>1. n \in Nat /\ n < size /\ n < BlockSize * BlockSize
    BY BlockSizeAssumption
  <2>2. /\ q \in Nat /\ w \in Offsets /\ q < block_count_from_size(size)
        /\ \A s \in Nat : n < s => q < block_count_from_size(s)
    <3> HIDE DEF n
    <3> QED BY <2>1, PlaceOf
  <2>3. q \in Offsets
    <3>1. block_count_from_size(size) <= BlockSize /\ block_count_from_size(size) \in Nat
      BY CountFits, Count
    <3> HIDE DEF q
    <3> QED BY <2>2, <3>1, BlockSizeAssumption DEF Offsets
  <2>4. Stays(d, g, i, q, w)
    <3> HIDE DEF q, w
    <3> QED BY <1>1, <2>2, <2>3
  <2> DEFINE a == WordIn(d, i, n)
             b == WordIn(g, i, n)
  <2>5. /\ b = a \/ (a = Hole /\ b = 0)
        /\ m <= n /\ At(g, i, q) # 0 => b = 0
    <3> HIDE DEF n
    <3> QED BY <2>1, <2>4, WordGoesOn
  <2>6. m <= n => At(g, i, q) # 0
    <3> SUFFICES ASSUME m <= n PROVE At(g, i, q) # 0
      OBVIOUS
    <3>1. CASE block_count_from_size(m) <= q
      <4> HIDE DEF q
      <4> QED BY <2>2, <2>3, <3>1 DEF Grown
    <3>2. CASE q < block_count_from_size(m)
      <4>1. m % BlockSize # 0 /\ q = m \div BlockSize
        <5>1. q * BlockSize < m
          <6> HIDE DEF q, m
          <6> QED BY <1>2, <2>2, <3>2, Count
        <5>2. n = q * BlockSize + w
          <6> HIDE DEF n
          <6> QED BY <2>1, PlaceOf
        <5>3. m = (m \div BlockSize) * BlockSize + (m % BlockSize) /\ m % BlockSize \in Offsets
              /\ m \div BlockSize \in Nat
          <6> HIDE DEF m
          <6> QED BY <1>2, PlaceOf
        <5> DEFINE r == m \div BlockSize
                   v == m % BlockSize
        <5> HIDE DEF n, q, w, m, r, v
        <5>4. /\ r \in Nat /\ q \in Nat /\ v \in Nat /\ w \in Nat /\ v < BlockSize /\ w < BlockSize
              /\ m = r * BlockSize + v /\ n = q * BlockSize + w /\ BlockSize \in Nat
          BY <2>2, <5>2, <5>3, BlockSizeAssumption DEF Offsets, r, v
        <5>5. ~ q < r
          <6> SUFFICES ASSUME q + 1 <= r PROVE FALSE
            BY <5>4
          <6>1. (q + 1) * BlockSize <= r * BlockSize /\ (q + 1) * BlockSize = q * BlockSize + BlockSize
            BY <5>4
          <6>2. q * BlockSize \in Nat /\ r * BlockSize \in Nat
            BY <5>4
          <6>3. m <= n
            BY <3>2 DEF m
          <6> QED BY <5>4, <6>1, <6>2, <6>3
        <5>6. ~ r < q
          <6> SUFFICES ASSUME r + 1 <= q PROVE FALSE
            BY <5>4
          <6>1. (r + 1) * BlockSize <= q * BlockSize /\ (r + 1) * BlockSize = r * BlockSize + BlockSize
            BY <5>4
          <6>2. q * BlockSize \in Nat /\ r * BlockSize \in Nat
            BY <5>4
          <6> QED BY <5>1, <5>4, <6>1, <6>2
        <5>7. q = r
          BY <5>4, <5>5, <5>6
        <5>8. v # 0
          BY <5>1, <5>4, <5>7
        <5> QED BY <5>7, <5>8 DEF r, v
      <4>2. At(d, i, q) # 0
        <5>1. m % BlockSize # 0 => At(d, i, m \div BlockSize) # 0
          BY FileAt
        <5> HIDE DEF q, m
        <5> QED BY <4>1, <5>1
      <4> HIDE DEF q
      <4> QED BY <2>4, <4>2 DEF Stays, Has
    <3>3. block_count_from_size(m) \in Nat
      BY <1>2, Count
    <3> HIDE DEF q, m
    <3> QED BY <2>2, <3>1, <3>2, <3>3
  <2>7. new[k] = b
    BY <1>3
  <2>8. CASE k <= m
    <3>1. k \in DOMAIN old /\ old[k] = a
      BY <1>2, <2>8
    <3> HIDE DEF a, b
    <3> QED BY <2>5, <2>7, <3>1 DEF StaysIn
  <2>9. CASE ~ k <= m
    <3>1. k \notin DOMAIN old /\ m <= n
      BY <1>2, <2>9
    <3> HIDE DEF a, b
    <3> QED BY <2>5, <2>6, <2>7, <3>1
  <2> QED BY <2>8, <2>9
<1> QED BY <1>3, <1>4, <1>5 DEF ResizedTo

(* A file that is cut keeps its words up to the new end.                   *)
LEMMA ShrunkIs ==
  ASSUME NEW d, Consistent(d), NEW i \in Used(d),
         NEW g, Consistent(g), i \in Used(g), NEW size \in Nat, size <= d.inode[i].size,
         Shrunk(d, g, i, size),
         NEW old, old = Content(d, d.inode[i]), NEW new, new = Content(g, g.inode[i])
  PROVE  ResizedTo(g, i, old, new, size)
<1> DEFINE m == d.inode[i].size
<1>1. /\ g.inode[i].size = size
      /\ \A k, w \in Offsets : IF k * BlockSize + w < size THEN Stays(d, g, i, k, w)
                               ELSE At(g, i, k) = 0 \/ Has(g, i, k, w, 0)
  BY DEF Shrunk, IsNow
<1>2. /\ m \in Nat /\ m <= BlockSize * BlockSize /\ DOMAIN old = 1 .. m
      /\ \A k \in 1 .. m : old[k] = WordIn(d, i, k - 1)
  BY ContentIs, ConsistentIs
<1>3. /\ DOMAIN new = 1 .. size /\ Len(new) = size
      /\ \A k \in 1 .. size : new[k] = WordIn(g, i, k - 1)
  BY <1>1, ContentIs
<1>4. TailedAt(g, i)
  <2> SUFFICES ASSUME NEW k \in Offsets, NEW w \in Offsets, At(g, i, k) # 0,
                      g.inode[i].size <= k * BlockSize + w
               PROVE  g.block[At(g, i, k)][w] = 0
    BY DEF TailedAt
  <2>1. k * BlockSize + w \in Nat /\ ~ k * BlockSize + w < size
    BY <1>1, BlockSizeAssumption DEF Offsets
  <2> QED BY <1>1, <2>1 DEF Has
<1>5. ASSUME NEW k \in 1 .. size PROVE k \in DOMAIN old /\ StaysIn(old, new, k)
  <2> DEFINE n == k - 1
             q == n \div BlockSize
             w == n % BlockSize
  <2>1. n \in Nat /\ n < size /\ n < BlockSize * BlockSize
    BY <1>2, BlockSizeAssumption
  <2>2. /\ q \in Nat /\ w \in Offsets /\ n = q * BlockSize + w
        /\ q < block_count_from_size(size)
    <3> HIDE DEF n
    <3> QED BY <2>1, PlaceOf
  <2>3. q \in Offsets
    <3>1. size <= BlockSize * BlockSize
      BY <1>2, BlockSizeAssumption
    <3>2. block_count_from_size(size) <= BlockSize /\ block_count_from_size(size) \in Nat
      BY <3>1, CountFits, Count
    <3> HIDE DEF q
    <3> QED BY <2>2, <3>2, BlockSizeAssumption DEF Offsets
  <2>4. Stays(d, g, i, q, w)
    <3> HIDE DEF n, q, w
    <3> QED BY <1>1, <2>1, <2>2, <2>3
  <2>5. WordIn(g, i, n) = WordIn(d, i, n) \/ (WordIn(d, i, n) = Hole /\ WordIn(g, i, n) = 0)
    <3> HIDE DEF n
    <3> QED BY <2>1, <2>4, WordGoesOn
  <2>6. k \in 1 .. m
    BY <1>2
  <2> QED BY <1>2, <1>3, <2>5, <2>6 DEF StaysIn
<1> QED BY <1>3, <1>4, <1>5 DEF ResizedTo

(* A file that is written holds what was written, zeroes or holes between  *)
(* its old end and that, and what it held everywhere else.                 *)
LEMMA OverwrittenIs ==
  ASSUME NEW d, Consistent(d), NEW i \in Used(d), TailedAt(d, i),
         NEW g, Consistent(g), i \in Used(g), NEW offset \in Nat, NEW words \in Seq(Nat),
         Overwritten(d, g, i, offset, words),
         NEW old, old = Content(d, d.inode[i]), NEW new, new = Content(g, g.inode[i]),
         NEW end, end = offset + Len(words)
  PROVE  /\ TailedAt(g, i) /\ Len(new) = IF Len(old) < end THEN end ELSE Len(old)
         /\ \A k \in DOMAIN new :
              IF k \in offset + 1 .. end THEN new[k] = words[k - offset]
              ELSE IF k \in DOMAIN old THEN StaysIn(old, new, k) ELSE new[k] \in {0, Hole}
<1> DEFINE m == d.inode[i].size
           size == IF m < end THEN end ELSE m
<1>1. /\ g.inode[i].size = size
      /\ \A k, w \in Offsets :
           LET n == k * BlockSize + w
           IN  IF offset <= n /\ n < end THEN Has(g, i, k, w, words[n - offset + 1])
               ELSE Stays(d, g, i, k, w)
  BY DEF Overwritten, IsNow
<1>2. /\ m \in Nat /\ DOMAIN old = 1 .. m /\ Len(old) = m
      /\ \A k \in 1 .. m : old[k] = WordIn(d, i, k - 1)
  BY ContentIs
<1>3. /\ DOMAIN new = 1 .. size /\ Len(new) = size
      /\ \A k \in 1 .. size : new[k] = WordIn(g, i, k - 1)
  <2> HIDE DEF size
  <2> QED BY <1>1, ContentIs
<1>4. /\ end \in Nat /\ size \in Nat /\ m <= size /\ end <= size /\ size <= BlockSize * BlockSize
  <2>1. Len(words) \in Nat
    BY LenProperties
  <2>2. size <= BlockSize * BlockSize
    <3> HIDE DEF size
    <3> QED BY <1>1, ConsistentIs
  <2> QED BY <1>2, <2>1, <2>2
<1> HIDE DEF size
<1>5. TailedAt(g, i)
  <2> SUFFICES ASSUME NEW k \in Offsets, NEW w \in Offsets, At(g, i, k) # 0,
                      g.inode[i].size <= k * BlockSize + w
               PROVE  g.block[At(g, i, k)][w] = 0
    BY DEF TailedAt
  <2> DEFINE n == k * BlockSize + w
  <2>1. n \in Nat
    <3>1. k \in Nat /\ w \in Nat /\ BlockSize \in Nat
      BY BlockSizeAssumption DEF Offsets
    <3>2. k * BlockSize \in Nat
      BY <3>1
    <3> QED BY <3>1, <3>2
  <2>2. m <= n /\ ~ n < end
    <3> HIDE DEF n
    <3> QED BY <1>1, <1>2, <1>4, <2>1 DEF n
  <2>3. Stays(d, g, i, k, w)
    BY <1>1, <2>2
  <2>4. At(d, i, k) # 0 => d.block[At(d, i, k)][w] = 0
    BY <2>2 DEF TailedAt
  <2> QED BY <2>3, <2>4 DEF Stays, Has
<1>6. ASSUME NEW k \in 1 .. size
      PROVE  IF k \in offset + 1 .. end THEN new[k] = words[k - offset]
             ELSE IF k \in DOMAIN old THEN StaysIn(old, new, k) ELSE new[k] \in {0, Hole}
  <2> DEFINE n == k - 1
             q == n \div BlockSize
             w == n % BlockSize
  <2>1. n \in Nat /\ n < size /\ n < BlockSize * BlockSize
    BY <1>4, BlockSizeAssumption
  <2>2. /\ q \in Nat /\ w \in Offsets /\ n = q * BlockSize + w
        /\ q < block_count_from_size(size)
    <3> HIDE DEF n
    <3> QED BY <1>4, <2>1, PlaceOf
  <2>3. q \in Offsets
    <3>1. block_count_from_size(size) <= BlockSize /\ block_count_from_size(size) \in Nat
      BY <1>4, CountFits, Count
    <3> HIDE DEF q
    <3> QED BY <2>2, <3>1, BlockSizeAssumption DEF Offsets
  <2>4. IF offset <= n /\ n < end THEN Has(g, i, q, w, words[n - offset + 1])
        ELSE Stays(d, g, i, q, w)
    <3> HIDE DEF n, q, w
    <3> QED BY <1>1, <2>2, <2>3
  <2>5. new[k] = WordIn(g, i, n) /\ (k <= m => k \in DOMAIN old /\ old[k] = WordIn(d, i, n))
    BY <1>2, <1>3
  <2>6. CASE k \in offset + 1 .. end
    <3>1. offset <= n /\ n < end /\ n - offset + 1 = k - offset
      BY <1>4, <2>6
    <3>2. Has(g, i, q, w, words[k - offset])
      <4> HIDE DEF n, q, w
      <4> QED BY <2>4, <3>1
    <3> QED BY <2>5, <2>6, <3>2 DEF WordIn, Has
  <2>7. CASE k \notin offset + 1 .. end
    <3>1. ~ (offset <= n /\ n < end)
      BY <1>4, <2>7
    <3>2. Stays(d, g, i, q, w)
      <4> HIDE DEF n, q, w
      <4> QED BY <2>4, <3>1
    <3> DEFINE a == WordIn(d, i, n)
               b == WordIn(g, i, n)
    <3>3. /\ b = a \/ (a = Hole /\ b = 0)
          /\ m <= n => b \in {0, Hole}
      <4> HIDE DEF n
      <4> QED BY <2>1, <3>2, WordGoesOn
    <3>4. k \in DOMAIN old <=> k <= m
      BY <1>2
    <3>5. ~ k <= m => m <= n
      BY <1>2
    <3> HIDE DEF a, b, n
    <3> QED BY <2>5, <2>7, <3>3, <3>4, <3>5 DEF StaysIn, a, b
  <2> QED BY <2>6, <2>7
<1> QED BY <1>2, <1>3, <1>5, <1>6 DEF size

-----------------------------------------------------------------------------
(* Paths after a call.                                                     *)

LEMMA NoPathBehind ==
  ASSUME NEW d, Consistent(d), NEW path \in Seq(Names), resolve_path(d, path) = NoInode
  PROVE  \A q \in Seq(Names) : IsPrefix(path, q) => resolve_path(d, q) = NoInode
<1>1. Childless(d, NoInode)
  BY InodesAre, ConsistentIs DEF Childless, Finds, Directories
<1> QED BY <1>1, PathsEnd

LEMMA PrefixesMeet ==
  ASSUME NEW s \in Seq(Names), NEW t \in Seq(Names), NEW q \in Seq(Names),
         IsPrefix(s, q), IsPrefix(t, q)
  PROVE  IsPrefix(s, t) \/ IsPrefix(t, s)
<1>1. /\ Len(s) \in Nat /\ Len(t) \in Nat /\ Len(q) \in Nat
      /\ \A n \in 1 .. Len(s) : s[n] = q[n]
      /\ \A n \in 1 .. Len(t) : t[n] = q[n]
  BY PrefixIs, LenProperties
<1>2. CASE Len(s) <= Len(t)
  <2>1. \A n \in 1 .. Len(s) : s[n] = t[n]
    BY <1>1, <1>2
  <2> QED BY <1>2, <2>1, PrefixIs
<1>3. CASE Len(t) <= Len(s)
  <2>1. \A n \in 1 .. Len(t) : t[n] = s[n]
    BY <1>1, <1>3
  <2> QED BY <1>3, <2>1, PrefixIs
<1> QED BY <1>1, <1>2, <1>3

(* A file or directory is made: there is one more path.                    *)
LEMMA PathsAdded ==
  ASSUME NEW d, Consistent(d), NEW g, Consistent(g), NEW path \in Seq(Names), path # << >>,
         NEW p, p = resolve_path(d, Front(path)), p \in Directories(d),
         resolve_path(d, path) = NoInode, NEW x, Adds(d, g, p, Last(path), x)
  PROVE  /\ resolve_path(g, path) = x /\ x \in Used(g) /\ x # NoInode
         /\ \A q \in Seq(Names) : q # path => resolve_path(g, q) = resolve_path(d, q)
<1>1. /\ x \notin Used(d) /\ Grows(d, g) /\ Finds(g, p, Last(path), x)
      /\ \A i, n, y : Finds(g, i, n, y) => Finds(d, i, n, y) \/ (i = p /\ n = Last(path))
  BY DEF Adds
<1>2. \A q \in Seq(Names) : resolve_path(d, q) # NoInode => resolve_path(g, q) = resolve_path(d, q)
  BY <1>1, PathsStay
<1>3. p # NoInode /\ p \in Used(d) /\ Front(path) \in Seq(Names)
  <2>1. p \in Used(d)
    BY DEF Directories
  <2> QED BY <2>1, InodesAre, ConsistentIs, FrontLast
<1>4. resolve_path(g, Front(path)) = p
  BY <1>2, <1>3
<1>5. resolve_path(g, path) = x /\ x \in g.inodes /\ x # NoInode
  BY <1>1, <1>4, ResolveFinds
<1>6. Childless(g, x)
  <2> SUFFICES ASSUME NEW n, NEW y, Finds(g, x, n, y) PROVE FALSE
    BY DEF Childless
  <2>1. x # p
    BY <1>1, <1>3
  <2>2. Finds(d, x, n, y)
    BY <1>1, <2>1
  <2> QED BY <1>1, <2>2 DEF Finds, Directories
<1>7. ASSUME NEW q \in Seq(Names), q # path, resolve_path(g, q) # NoInode
      PROVE  resolve_path(d, q) = resolve_path(g, q)
  <2>1. ~ IsPrefix(path, q)
    BY <1>5, <1>6, <1>7, PathsEnd
  <2>2. Keeps(g, d, p, Last(path), x)
    BY <1>1 DEF Keeps
  <2>3. p \in Directories(g)
    BY <1>1 DEF Finds
  <2> QED BY <1>4, <1>5, <1>7, <2>1, <2>2, <2>3, Survives
<1>8. \A q \in Seq(Names) : q # path => resolve_path(g, q) = resolve_path(d, q)
  BY <1>2, <1>7
<1> QED BY <1>5, <1>8 DEF Used

(* A name is removed: no path goes through it any more.                    *)
LEMMA PathsForgotten ==
  ASSUME NEW d, Consistent(d), NEW g, Consistent(g), NEW path \in Seq(Names), path # << >>,
         NEW p, p = resolve_path(d, Front(path)), p \in Directories(d),
         NEW x, x = resolve_path(d, path), x # NoInode, Forgets(d, g, p, Last(path), x)
  PROVE  \A q \in Seq(Names) :
           resolve_path(g, q) = IF IsPrefix(path, q) THEN NoInode ELSE resolve_path(d, q)
<1>1. /\ p \in Directories(g) /\ Unnamed(Entries(g, p), Last(path))
      /\ Keeps(d, g, p, Last(path), x) /\ Grows(g, d)
  BY DEF Forgets
<1>2. \A q \in Seq(Names) : resolve_path(d, q) # NoInode /\ ~ IsPrefix(path, q) =>
                              resolve_path(g, q) = resolve_path(d, q)
  BY <1>1, Survives
<1>3. \A q \in Seq(Names) : resolve_path(g, q) # NoInode => resolve_path(d, q) = resolve_path(g, q)
  BY <1>1, PathsStay
<1>4. p # NoInode /\ Front(path) \in Seq(Names) /\ ~ IsPrefix(path, Front(path))
  <2>1. p \in Used(d)
    BY DEF Directories
  <2> QED BY <2>1, InodesAre, ConsistentIs, FrontLast, PrefixOfFront
<1>5. resolve_path(g, path) = NoInode
  <2> SUFFICES ASSUME resolve_path(g, path) # NoInode PROVE FALSE
    OBVIOUS
  <2>1. resolve_path(g, Front(path)) = p
    BY <1>2, <1>4
  <2>2. Finds(g, p, Last(path), resolve_path(g, path))
    BY <2>1, ResolveFinds
  <2> QED BY <1>1, <2>2 DEF Finds, Unnamed
<1>6. \A q \in Seq(Names) : IsPrefix(path, q) => resolve_path(g, q) = NoInode
  BY <1>5, NoPathBehind
<1> QED BY <1>2, <1>3, <1>6

LEMMA RestartedConcat ==
  ASSUME NEW old \in Seq(Names), NEW new \in Seq(Names), new # << >>,
         NEW q \in Seq(Names), IsPrefix(old, q)
  PROVE  Restarted(old, new, q) = new \o SubSeq(q, Len(old) + 1, Len(q))
<1> DEFINE r == Restarted(old, new, q)
           t == SubSeq(q, Len(old) + 1, Len(q))
           m == Len(q) - Len(old)
<1>1. /\ Len(old) \in Nat /\ Len(new) \in Nat /\ Len(q) \in Nat /\ Len(old) <= Len(q)
      /\ \A n \in 1 .. Len(q) : q[n] \in Names
  BY LenProperties, ElementOfSeq, PrefixIs
<1>2. m \in Nat /\ Len(old) + 1 \in Int /\ Len(q) \in Int
      /\ \A n \in Len(old) + 1 .. Len(q) : q[n] \in Names
  BY <1>1
<1>3. /\ t \in Seq(Names)
      /\ Len(t) = IF Len(old) + 1 <= Len(q) THEN Len(q) - (Len(old) + 1) + 1 ELSE 0
      /\ \A n \in 1 .. Len(q) - (Len(old) + 1) + 1 : t[n] = q[Len(old) + 1 + n - 1]
  BY <1>2, SubSeqProperties
<1> HIDE DEF t
<1>4. Len(t) = m /\ \A n \in 1 .. m : t[n] = q[n + Len(old)]
  <2>1. Len(t) = m
    BY <1>1, <1>3
  <2>2. \A n \in 1 .. m : n \in 1 .. Len(q) - (Len(old) + 1) + 1 /\ Len(old) + 1 + n - 1 = n + Len(old)
    BY <1>1
  <2> QED BY <1>3, <2>1, <2>2
<1>5. /\ new \o t \in Seq(Names) /\ Len(new \o t) = Len(new) + m
      /\ \A n \in 1 .. Len(new) + m : (new \o t)[n] = IF n <= Len(new) THEN new[n] ELSE t[n - Len(new)]
  <2>1. /\ new \o t \in Seq(Names) /\ Len(new \o t) = Len(new) + Len(t)
        /\ \A n \in 1 .. Len(new) + Len(t) :
             (new \o t)[n] = IF n <= Len(new) THEN new[n] ELSE t[n - Len(new)]
    BY <1>3, ConcatProperties
  <2>2. Len(t) = m
    BY <1>4
  <2> HIDE DEF m
  <2> QED BY <2>1, <2>2
<1>6. r \in Seq(Names) /\ Len(r) = Len(q) - Len(old) + Len(new)
  BY RestartedIs
<1>7. \A n \in 1 .. Len(new) + m : r[n] = IF n <= Len(new) THEN new[n] ELSE q[n - Len(new) + Len(old)]
  BY <1>1 DEF Restarted
<1>8. Len(r) = Len(new \o t) /\ Len(r) = Len(new) + m
  BY <1>1, <1>5, <1>6
<1> HIDE DEF r
<1>9. ASSUME NEW n \in 1 .. Len(new) + m PROVE r[n] = (new \o t)[n]
  <2>1. CASE n <= Len(new)
    BY <1>5, <1>7, <2>1
  <2>2. CASE ~ n <= Len(new)
    <3>1. n - Len(new) \in 1 .. m
      BY <1>1, <1>2, <2>2
    <3>2. t[n - Len(new)] = q[n - Len(new) + Len(old)]
      BY <1>4, <3>1
    <3> QED BY <1>5, <1>7, <2>2, <3>2
  <2> QED BY <2>1, <2>2
<1>10. r = new \o t
  BY <1>5, <1>6, <1>8, <1>9, SeqEqual
<1> QED BY <1>10 DEF r, t

LEMMA RestartedBack ==
  ASSUME NEW old \in Seq(Names), old # << >>, NEW new \in Seq(Names), new # << >>,
         NEW q \in Seq(Names), IsPrefix(old, q)
  PROVE  /\ IsPrefix(new, Restarted(old, new, q))
         /\ Restarted(new, old, Restarted(old, new, q)) = q
<1> DEFINE r == Restarted(old, new, q)
           m == Len(q) - Len(old) + Len(new)
           b == Restarted(new, old, r)
<1>1. /\ Len(old) \in Nat /\ Len(new) \in Nat /\ Len(q) \in Nat /\ Len(old) <= Len(q)
      /\ \A n \in 1 .. Len(old) : old[n] = q[n]
  BY LenProperties, PrefixIs
<1>2. r \in Seq(Names) /\ Len(r) = m
  BY RestartedIs
<1>3. \A n \in 1 .. m : r[n] = IF n <= Len(new) THEN new[n] ELSE q[n - Len(new) + Len(old)]
  BY DEF Restarted
<1> HIDE DEF r
<1>4. IsPrefix(new, r)
  <2>1. Len(new) <= Len(r) /\ \A n \in 1 .. Len(new) : n \in 1 .. m /\ n <= Len(new)
    BY <1>1, <1>2
  <2>2. \A n \in 1 .. Len(new) : new[n] = r[n]
    BY <1>3, <2>1
  <2> QED BY <1>2, <2>1, <2>2, PrefixIs
<1>5. b \in Seq(Names) /\ Len(b) = Len(r) - Len(new) + Len(old)
  BY <1>2, <1>4, RestartedIs
<1>6. Len(b) = Len(q)
  BY <1>1, <1>2, <1>5
<1>7. \A n \in 1 .. Len(r) - Len(new) + Len(old) :
        b[n] = IF n <= Len(old) THEN old[n] ELSE r[n - Len(old) + Len(new)]
  BY DEF Restarted
<1> HIDE DEF b
<1>8. ASSUME NEW n \in 1 .. Len(q) PROVE b[n] = q[n]
  <2>1. n \in 1 .. Len(r) - Len(new) + Len(old)
    BY <1>5, <1>6
  <2>2. CASE n <= Len(old)
    BY <1>1, <1>7, <2>1, <2>2
  <2>3. CASE n > Len(old)
    <3>1. /\ n - Len(old) + Len(new) \in 1 .. m /\ ~ n - Len(old) + Len(new) <= Len(new)
          /\ n - Len(old) + Len(new) - Len(new) + Len(old) = n
      BY <1>1, <2>3
    <3>2. b[n] = r[n - Len(old) + Len(new)]
      BY <1>1, <1>7, <2>1, <2>3
    <3> DEFINE k == n - Len(old) + Len(new)
    <3>3. r[k] = q[k - Len(new) + Len(old)]
      <4>1. k \in 1 .. m /\ ~ k <= Len(new)
        BY <3>1
      <4> HIDE DEF k
      <4> QED BY <1>3, <4>1
    <3> QED BY <3>1, <3>2, <3>3
  <2> QED BY <1>1, <2>2, <2>3
<1>9. b = q
  BY <1>5, <1>6, <1>8, SeqEqual
<1> QED BY <1>4, <1>9 DEF b, r

(* Nothing is at the new path when the entry moves.                        *)
LEMMA PathsUnlinked ==
  ASSUME NEW d, Consistent(d), NEW u, Consistent(u), NEW path \in Seq(Names), path # << >>,
         Forgotten(d, u, path)
  PROVE  \A q \in Seq(Names) :
           resolve_path(u, q) = IF IsPrefix(path, q) THEN NoInode ELSE resolve_path(d, q)
<1>1. CASE resolve_path(d, path) = NoInode
  BY <1>1, NoPathBehind DEF Forgotten
<1>2. CASE resolve_path(d, path) # NoInode
  <2>1. resolve_path(d, Front(path)) \in Directories(d)
    BY <1>2, Parent
  <2> QED BY <1>2, <2>1, PathsForgotten DEF Forgotten
<1> QED BY <1>1, <1>2

LEMMA SpareSame ==
  ASSUME NEW d, NEW g, NEW S, Spares(d, g, S), \A i \in S : d.inode[i].is_directory \in BOOLEAN
  PROVE  Spares(g, d, S)
<1> SUFFICES ASSUME NEW i \in S
             PROVE  /\ d.inode[i].is_directory = g.inode[i].is_directory
                    /\ ~ g.inode[i].is_directory => Same(g, d, i)
  BY DEF Spares
<1>1. /\ g.inode[i].is_directory = d.inode[i].is_directory
      /\ ~ d.inode[i].is_directory => Same(d, g, i)
  BY DEF Spares
<1>2. Same(d, g, i) => Same(g, d, i)
  BY DEF Same
<1> QED BY <1>1, <1>2

LEMMA SparedTwice ==
  ASSUME NEW d, NEW u, NEW g, NEW S, Spares(d, u, S), Spares(u, g, S)
  PROVE  Spares(d, g, S)
<1> SUFFICES ASSUME NEW i \in S
             PROVE  /\ g.inode[i].is_directory = d.inode[i].is_directory
                    /\ ~ d.inode[i].is_directory => Same(d, g, i)
  BY DEF Spares
<1>1. /\ u.inode[i].is_directory = d.inode[i].is_directory
      /\ ~ d.inode[i].is_directory => Same(d, u, i)
      /\ g.inode[i].is_directory = u.inode[i].is_directory
      /\ ~ u.inode[i].is_directory => Same(u, g, i)
  BY DEF Spares
<1>2. Same(d, u, i) /\ Same(u, g, i) => Same(d, g, i)
  BY DEF Same
<1> QED BY <1>1, <1>2

(* What moves there may move back.                                         *)
LEMMA MovesBack ==
  ASSUME NEW u, Consistent(u), NEW g, NEW src, NEW from, NEW dst, NEW to, NEW x,
         Finds(u, src, from, x), Unnamed(Entries(u, dst), to), Moves(u, g, src, from, dst, to, x)
  PROVE  Moves(g, u, dst, to, src, from, x)
<1>1. Spares(g, u, Used(g)) /\ Used(g) = Used(u)
  <2>1. \A i \in Used(u) : u.inode[i].is_directory \in BOOLEAN
    BY DirectoryOrNot
  <2> QED BY <2>1, SpareSame DEF Moves
<1>2. \A i, n, y : Finds(g, i, n, y) /\ (i # dst \/ n # to) => Finds(u, i, n, y)
  BY DEF Moves
<1>3. ASSUME NEW i, NEW n, NEW y, Finds(u, i, n, y)
      PROVE  (i = src /\ n = from) \/ (Finds(g, i, n, y) /\ (i # dst \/ n # to))
  <2>1. i # dst \/ n # to
    BY <1>3 DEF Finds, Unnamed
  <2>2. i # src \/ n # from => Finds(g, i, n, y)
    BY <1>3 DEF Moves
  <2> QED BY <2>1, <2>2
<1> QED BY <1>1, <1>2, <1>3 DEF Moves

(* A rename: what was below the old path is below the new one, in the      *)
(* place of what was there.                                                *)
Restarts(d, g, old, new) ==
  \A q \in Seq(Names) :
    resolve_path(g, q) = IF IsPrefix(new, q) THEN resolve_path(d, Restarted(new, old, q))
                         ELSE IF IsPrefix(old, q) THEN NoInode
                         ELSE resolve_path(d, q)

LEMMA PathsRenamed ==
  ASSUME NEW d, Consistent(d), NEW u, NEW g, Consistent(g),
         NEW old \in Seq(Names), old # << >>, NEW new \in Seq(Names), new # << >>,
         ~ IsPrefix(old, new), ~ IsPrefix(new, old),
         resolve_path(d, old) # NoInode, Renames(d, u, g, old, new)
  PROVE  Restarts(d, g, old, new)
<1> DEFINE src == resolve_path(u, Front(old))
           dst == resolve_path(d, Front(new))
           x == resolve_path(d, old)
<1>1. /\ Consistent(u) /\ Forgotten(d, u, new) /\ dst \in Directories(u)
      /\ Unnamed(Entries(u, dst), Last(new)) /\ Moves(u, g, src, Last(old), dst, Last(new), x)
  BY DEF Renames
<1>2. /\ Front(old) \in Seq(Names) /\ Front(new) \in Seq(Names)
      /\ ~ IsPrefix(new, Front(old)) /\ ~ IsPrefix(old, Front(new))
      /\ ~ IsPrefix(new, Front(new)) /\ ~ IsPrefix(old, Front(old)) /\ IsPrefix(old, old)
  BY FrontLast, PrefixOfFront
<1>3. \A q \in Seq(Names) :
        resolve_path(u, q) = IF IsPrefix(new, q) THEN NoInode ELSE resolve_path(d, q)
  BY <1>1, PathsUnlinked
<1>4. resolve_path(u, old) = x /\ resolve_path(u, Front(new)) = dst
  BY <1>2, <1>3
<1>5. dst # NoInode
  BY <1>1, InodesAre, ConsistentIs DEF Directories
<1>6. Finds(u, src, Last(old), x) /\ src # NoInode
  <2>1. Finds(u, src, Last(old), x)
    BY <1>1, <1>4, ResolveFinds
  <2> QED BY <1>1, <2>1, InodesAre, ConsistentIs DEF Finds, Directories
<1> HIDE DEF src, dst, x
<1>7. \A q \in Seq(Names) : resolve_path(u, q) # NoInode =>
        resolve_path(u, q) = IF IsPrefix(old, q) THEN resolve_path(g, Restarted(old, new, q))
                             ELSE resolve_path(g, q)
  BY <1>1, <1>4, <1>5, PathsMove DEF src, x
<1>8. /\ resolve_path(g, Front(new)) = dst /\ resolve_path(g, Front(old)) = src
      /\ resolve_path(g, new) = x
  <2>1. resolve_path(u, Front(old)) = src
    BY DEF src
  <2>2. Restarted(old, new, old) = new
    BY <1>2, RestartedIs
  <2>3. x # NoInode
    BY DEF x
  <2> QED BY <1>2, <1>4, <1>5, <1>6, <1>7, <2>1, <2>2, <2>3
<1>9. \A q \in Seq(Names) : resolve_path(g, q) # NoInode =>
        resolve_path(g, q) = IF IsPrefix(new, q) THEN resolve_path(u, Restarted(new, old, q))
                             ELSE resolve_path(u, q)
  <2>1. Moves(g, u, dst, Last(new), src, Last(old), x)
    BY <1>1, <1>6, MovesBack
  <2>2. x # NoInode
    BY DEF x
  <2> QED BY <1>1, <1>6, <1>8, <2>1, <2>2, PathsMove
<1>10. ASSUME NEW q \in Seq(Names), IsPrefix(new, q)
       PROVE  resolve_path(g, q) = resolve_path(d, Restarted(new, old, q))
  <2> DEFINE r == Restarted(new, old, q)
  <2>1. r \in Seq(Names) /\ IsPrefix(old, r) /\ Restarted(old, new, r) = q
    BY <1>10, RestartedIs, RestartedBack
  <2>2. ~ IsPrefix(new, r)
    BY <2>1, PrefixesMeet
  <2>3. resolve_path(u, r) = resolve_path(d, r)
    BY <1>3, <2>1, <2>2
  <2>4. resolve_path(u, r) # NoInode => resolve_path(u, r) = resolve_path(g, q)
    <3> HIDE DEF r
    <3> QED BY <1>7, <2>1
  <2>5. resolve_path(g, q) # NoInode => resolve_path(g, q) = resolve_path(u, r)
    BY <1>9, <1>10
  <2> QED BY <2>3, <2>4, <2>5
<1>11. ASSUME NEW q \in Seq(Names), ~ IsPrefix(new, q), IsPrefix(old, q)
       PROVE  resolve_path(g, q) = NoInode
  <2> SUFFICES ASSUME resolve_path(g, q) # NoInode PROVE FALSE
    OBVIOUS
  <2>1. resolve_path(u, q) = resolve_path(g, q)
    BY <1>9, <1>11
  <2>2. resolve_path(g, Restarted(old, new, q)) = resolve_path(g, q)
    BY <1>7, <1>11, <2>1
  <2>3. Restarted(old, new, q) \in Seq(Names) /\ IsPrefix(new, Restarted(old, new, q))
    BY <1>11, RestartedIs, RestartedBack
  <2>4. q = Restarted(old, new, q)
    BY <2>2, <2>3, ResolveInjective
  <2> QED BY <1>11, <2>3, <2>4
<1>12. ASSUME NEW q \in Seq(Names), ~ IsPrefix(new, q), ~ IsPrefix(old, q)
       PROVE  resolve_path(g, q) = resolve_path(d, q)
  BY <1>3, <1>7, <1>9, <1>12
<1> QED BY <1>10, <1>11, <1>12 DEF Restarts

(* A call that changes one file leaves all paths alone.                    *)
LEMMA PathsSame ==
  ASSUME NEW d, Consistent(d), NEW g, Consistent(g), SameTree(d, g)
  PROVE  \A q \in Seq(Names) : resolve_path(g, q) = resolve_path(d, q)
<1>1. \A q \in Seq(Names) : resolve_path(d, q) # NoInode => resolve_path(g, q) = resolve_path(d, q)
  BY PathsStay DEF SameTree
<1>2. \A q \in Seq(Names) : resolve_path(g, q) # NoInode => resolve_path(d, q) = resolve_path(g, q)
  BY PathsStay DEF SameTree
<1> QED BY <1>1, <1>2

-----------------------------------------------------------------------------
(* The tree of a disk.                                                     *)

(* Every path that exists is one of those that the tree is made of.        *)
Shallow(d) == \A q \in Seq(Names) : resolve_path(d, q) # NoInode => q \in Paths

(* What induction needs besides that the disk is consistent.               *)
Tidy(d) == Consistent(d) /\ Tailed(d) /\ Shallow(d)

Known(d)      == {q \in Paths : resolve_path(d, q) # NoInode}
NodeAt(d, q)  == NodeOf(d, d.inode[resolve_path(d, q)])

LEMMA TreeIs ==
  ASSUME NEW d
  PROVE  /\ TreeOf(d) = [q \in Known(d) |-> NodeAt(d, q)]
         /\ DOMAIN TreeOf(d) = Known(d)
         /\ \A q \in Known(d) : TreeOf(d)[q] = NodeAt(d, q)
<1> DEFINE inode_at == [p \in Paths |-> resolve_path(d, p)]
<1>1. \A q \in Paths : inode_at[q] = resolve_path(d, q)
  OBVIOUS
<1>2. TreeOf(d) = [p \in {q \in Paths : inode_at[q] # NoInode} |-> NodeOf(d, d.inode[inode_at[p]])]
  BY DEF TreeOf
<1> HIDE DEF inode_at
<1>3. {q \in Paths : inode_at[q] # NoInode} = Known(d)
  BY <1>1 DEF Known
<1>4. \A q \in Known(d) : NodeOf(d, d.inode[inode_at[q]]) = NodeAt(d, q)
  BY <1>1 DEF Known, NodeAt
<1>5. TreeOf(d) = [q \in Known(d) |-> NodeAt(d, q)]
  BY <1>2, <1>3, <1>4
<1> QED BY <1>5

LEMMA KnownIs ==
  ASSUME NEW d, Consistent(d), NEW q \in Known(d)
  PROVE  /\ q \in Paths /\ q \in Seq(Names) /\ resolve_path(d, q) # NoInode
         /\ resolve_path(d, q) \in Used(d)
<1>1. q \in Paths /\ q \in Seq(Names) /\ resolve_path(d, q) # NoInode
  BY PathsAre DEF Known
<1> QED BY <1>1, ResolveReaches DEF Reached

(* A path leads to the same node.                                          *)
LEMMA NodeKept ==
  ASSUME NEW d, Consistent(d), NEW g, Consistent(g), NEW p, NEW q, NEW S, Spares(d, g, S),
         resolve_path(d, p) = resolve_path(g, q), resolve_path(d, p) \in S,
         resolve_path(d, p) \in Used(d), resolve_path(g, q) \in Used(g)
  PROVE  NodeAt(g, q) = NodeAt(d, p)
<1> DEFINE i == resolve_path(d, p)
<1>1. /\ g.inode[i].is_directory = d.inode[i].is_directory
      /\ ~ d.inode[i].is_directory => Same(d, g, i)
  BY DEF Spares
<1>2. NodeOf(g, g.inode[i]) = NodeOf(d, d.inode[i])
  <2> HIDE DEF i
  <2>1. i \in Used(d) /\ i \in Used(g)
    BY DEF i
  <2> QED BY <1>1, <2>1, NodeSpared
<1> QED BY <1>2 DEF NodeAt

(* The tree of a disk is a function that agrees with it.                   *)
LEMMA TreeBecomes ==
  ASSUME NEW g, NEW t, t = [q \in Known(g) |-> t[q]], \A q \in Known(g) : t[q] = NodeAt(g, q)
  PROVE  t = TreeOf(g)
BY TreeIs

-----------------------------------------------------------------------------
(* What each call makes of the tree.                                       *)

LEMMA FreshIs ==
  ASSUME NEW g, Consistent(g), NEW x \in Used(g), NEW is_directory \in BOOLEAN,
         Fresh(g, x, is_directory)
  PROVE  /\ NodeOf(g, g.inode[x]) = [is_directory |-> is_directory, data |-> << >>]
         /\ TailedAt(g, x)
<1>1. g.inode[x].is_directory = is_directory /\ g.inode[x].size = 0 /\ \A k \in Offsets : At(g, x, k) = 0
  BY DEF Fresh
<1>2. Content(g, g.inode[x]) = << >>
  BY <1>1, ContentIs
<1>3. TailedAt(g, x)
  BY <1>1 DEF TailedAt
<1> QED BY <1>1, <1>2, <1>3 DEF NodeOf

TreeWith(d, g, path, node) ==
  TreeOf(g) = [q \in Known(d) \cup {path} |-> IF q = path THEN node ELSE TreeOf(d)[q]]

LEMMA MakeChanges ==
  ASSUME NEW d, Tidy(d), NEW g, Consistent(g), NEW path \in Named,
         resolve_path(d, path) = NoInode, IsDirectory(d, Front(path)),
         NEW is_directory \in BOOLEAN, Makes(d, g, path, is_directory),
         NEW node, node = [is_directory |-> is_directory, data |-> << >>]
  PROVE  Tidy(g) /\ TreeWith(d, g, path, node)
<1> DEFINE p == resolve_path(d, Front(path))
           t == [q \in Known(d) \cup {path} |-> IF q = path THEN node ELSE TreeOf(d)[q]]
<1>1. Consistent(d) /\ Tailed(d) /\ Shallow(d) /\ path \in Seq(Names) /\ path # << >> /\ path \in Paths
  BY PathsAre DEF Tidy
<1>2. p \in Directories(d)
  BY <1>1, FrontLast, DirectoryAt
<1>3. PICK x : Adds(d, g, p, Last(path), x) /\ Fresh(g, x, is_directory)
  BY DEF Makes
<1> HIDE DEF p
<1>4. /\ resolve_path(g, path) = x /\ x \in Used(g) /\ x # NoInode
      /\ \A q \in Seq(Names) : q # path => resolve_path(g, q) = resolve_path(d, q)
  BY <1>1, <1>2, <1>3, PathsAdded DEF p
<1>5. Used(g) = Used(d) \cup {x} /\ Spares(d, g, Used(d))
  BY <1>3 DEF Adds
<1>6. NodeOf(g, g.inode[x]) = node /\ TailedAt(g, x)
  BY <1>3, <1>4, FreshIs
<1>7. Tailed(g)
  <2>1. \A i \in Used(g) \ Used(d) : TailedAt(g, i)
    BY <1>5, <1>6
  <2> QED BY <1>1, <1>5, <2>1, TailsSpared
<1>8. Shallow(g)
  BY <1>1, <1>4 DEF Shallow
<1>9. Known(g) = Known(d) \cup {path}
  BY <1>1, <1>4, PathsAre DEF Known
<1>10. ASSUME NEW q \in Known(g) PROVE t[q] = NodeAt(g, q)
  <2>1. CASE q = path
    BY <1>4, <1>6, <1>9, <2>1 DEF NodeAt
  <2>2. CASE q # path
    <3>1. q \in Known(d) /\ t[q] = TreeOf(d)[q]
      BY <1>9, <2>2
    <3>2. q \in Seq(Names) /\ resolve_path(d, q) \in Used(d) /\ resolve_path(g, q) = resolve_path(d, q)
      BY <1>1, <1>4, <2>2, <3>1, KnownIs
    <3>3. NodeAt(g, q) = NodeAt(d, q)
      BY <1>1, <1>5, <3>2, NodeKept
    <3> QED BY <3>1, <3>3, TreeIs
  <2> QED BY <2>1, <2>2
<1>11. t = [q \in Known(g) |-> t[q]]
  BY <1>9
<1> HIDE DEF t
<1>12. TreeOf(g) = t
  BY <1>10, <1>11, TreeBecomes
<1> QED BY <1>7, <1>8, <1>12 DEF t, Tidy, TreeWith

BelowOf(d, path) == {q \in Known(d) : IsPrefix(path, q)}

LEMMA RemoveChanges ==
  ASSUME NEW d, Tidy(d), NEW g, Consistent(g), NEW path \in Seq(Names), path # << >>,
         NEW p, p = resolve_path(d, Front(path)), p \in Directories(d),
         NEW x, x = resolve_path(d, path), x # NoInode, Forgets(d, g, p, Last(path), x)
  PROVE  /\ Tidy(g)
         /\ TreeOf(g) = [q \in Known(d) \ BelowOf(d, path) |-> TreeOf(d)[q]]
<1> DEFINE t == [q \in Known(d) \ BelowOf(d, path) |-> TreeOf(d)[q]]
<1>1. Consistent(d) /\ Tailed(d) /\ Shallow(d)
  BY DEF Tidy
<1>2. \A q \in Seq(Names) :
        resolve_path(g, q) = IF IsPrefix(path, q) THEN NoInode ELSE resolve_path(d, q)
  BY <1>1, PathsForgotten
<1>3. Used(g) \subseteq Used(d) /\ Spares(d, g, Used(g))
  BY DEF Forgets
<1>4. Tailed(g)
  BY <1>1, <1>3, TailsSpared
<1>5. Shallow(g)
  BY <1>1, <1>2 DEF Shallow
<1>6. Known(g) = Known(d) \ BelowOf(d, path)
  <2>1. ASSUME NEW q PROVE q \in Known(g) <=> q \in Known(d) /\ ~ IsPrefix(path, q)
    BY <1>2, PathsAre DEF Known
  <2> QED BY <2>1 DEF BelowOf
<1>7. ASSUME NEW q \in Known(g) PROVE t[q] = NodeAt(g, q)
  <2>1. q \in Known(d) /\ t[q] = TreeOf(d)[q]
    BY <1>6
  <2>2. /\ q \in Seq(Names) /\ resolve_path(g, q) \in Used(g) /\ resolve_path(d, q) \in Used(d)
        /\ resolve_path(g, q) # NoInode
    BY <1>1, <2>1, KnownIs
  <2>3. resolve_path(g, q) = resolve_path(d, q)
    BY <1>2, <2>2
  <2>4. NodeAt(g, q) = NodeAt(d, q)
    BY <1>1, <1>3, <2>2, <2>3, NodeKept
  <2> QED BY <2>1, <2>4, TreeIs
<1>8. t = [q \in Known(g) |-> t[q]]
  BY <1>6
<1> HIDE DEF t
<1>9. TreeOf(g) = t
  BY <1>7, <1>8, TreeBecomes
<1> QED BY <1>4, <1>5, <1>9 DEF t, Tidy

(* The paths that arrive below the new one, and where they were.           *)
Arriving(d, old, new) == {new \o SubSeq(r, Len(old) + 1, Len(r)) : r \in BelowOf(d, old)}
CameFrom(old, new, q) == old \o SubSeq(q, Len(new) + 1, Len(q))

TreeMoved(d, g, old, new) ==
  TreeOf(g) =
    [q \in (Known(d) \ (BelowOf(d, old) \cup BelowOf(d, new))) \cup Arriving(d, old, new) |->
       IF IsPrefix(new, q) THEN TreeOf(d)[CameFrom(old, new, q)] ELSE TreeOf(d)[q]]

LEMMA RenameChanges ==
  ASSUME NEW d, Tidy(d), NEW u, NEW g, Consistent(g), NEW old \in Named, NEW new \in Named,
         ~ IsPrefix(old, new), ~ IsPrefix(new, old),
         resolve_path(d, old) # NoInode, Renames(d, u, g, old, new), StaysShort(d, old, new)
  PROVE  Tidy(g) /\ TreeMoved(d, g, old, new)
<1> DEFINE X == (Known(d) \ (BelowOf(d, old) \cup BelowOf(d, new))) \cup Arriving(d, old, new)
           t == [q \in X |-> IF IsPrefix(new, q) THEN TreeOf(d)[CameFrom(old, new, q)]
                             ELSE TreeOf(d)[q]]
<1>1. /\ Consistent(d) /\ Tailed(d) /\ Shallow(d)
      /\ old \in Seq(Names) /\ old # << >> /\ new \in Seq(Names) /\ new # << >>
  BY PathsAre DEF Tidy
<1>2. \A q \in Seq(Names) :
        resolve_path(g, q) = IF IsPrefix(new, q) THEN resolve_path(d, Restarted(new, old, q))
                             ELSE IF IsPrefix(old, q) THEN NoInode
                             ELSE resolve_path(d, q)
  <2>1. Restarts(d, g, old, new)
    BY <1>1, PathsRenamed
  <2> QED BY <2>1 DEF Restarts
<1>3. Used(g) \subseteq Used(d) /\ Spares(d, g, Used(g))
  <2>1. /\ Forgotten(d, u, new) /\ Consistent(u)
        /\ Used(g) = Used(u) /\ Spares(u, g, Used(g))
    BY DEF Renames, Moves
  <2>2. Used(u) \subseteq Used(d) /\ Spares(d, u, Used(u))
    <3>1. CASE resolve_path(d, new) # NoInode
      BY <2>1, <3>1 DEF Forgotten, Forgets
    <3>2. CASE resolve_path(d, new) = NoInode
      BY <2>1, <3>2 DEF Forgotten, Spares, Same
    <3> QED BY <3>1, <3>2
  <2> QED BY <2>1, <2>2, SparedTwice
<1>4. Tailed(g)
  BY <1>1, <1>3, TailsSpared
<1>5. ASSUME NEW q \in Seq(Names), IsPrefix(new, q), NEW r, r = Restarted(new, old, q)
      PROVE  /\ r \in Seq(Names) /\ IsPrefix(old, r) /\ r = CameFrom(old, new, q)
             /\ q = new \o SubSeq(r, Len(old) + 1, Len(r))
             /\ Len(q) = Len(r) - Len(old) + Len(new)
  <2>1. /\ r \in Seq(Names) /\ IsPrefix(old, r) /\ Restarted(old, new, r) = q
        /\ Len(Restarted(old, new, r)) = Len(r) - Len(old) + Len(new)
    <3>1. r \in Seq(Names)
      BY <1>1, <1>5, RestartedIs
    <3>2. IsPrefix(old, r) /\ Restarted(old, new, r) = q
      BY <1>1, <1>5, RestartedBack
    <3>3. Len(Restarted(old, new, r)) = Len(r) - Len(old) + Len(new)
      BY <1>1, <3>1, <3>2, RestartedIs
    <3> QED BY <3>1, <3>2, <3>3
  <2>2. r = CameFrom(old, new, q)
    BY <1>1, <1>5, RestartedConcat DEF CameFrom
  <2>3. q = new \o SubSeq(r, Len(old) + 1, Len(r))
    BY <1>1, <2>1, RestartedConcat
  <2> QED BY <2>1, <2>2, <2>3
<1>6. ASSUME NEW q \in Seq(Names), IsPrefix(new, q), resolve_path(g, q) # NoInode
      PROVE  /\ q \in Paths /\ q \in Arriving(d, old, new)
             /\ CameFrom(old, new, q) \in Known(d)
             /\ resolve_path(d, CameFrom(old, new, q)) = resolve_path(g, q)
  <2> DEFINE r == Restarted(new, old, q)
  <2>1. /\ r \in Seq(Names) /\ IsPrefix(old, r) /\ r = CameFrom(old, new, q)
        /\ q = new \o SubSeq(r, Len(old) + 1, Len(r))
        /\ Len(q) = Len(r) - Len(old) + Len(new)
    BY <1>5, <1>6
  <2>2. resolve_path(g, q) = resolve_path(d, r)
    BY <1>2, <1>6
  <2> HIDE DEF r
  <2>3. r \in Paths /\ r \in Known(d)
    BY <1>1, <1>6, <2>1, <2>2 DEF Shallow, Known
  <2>4. q \in Arriving(d, old, new)
    BY <2>1, <2>3 DEF Arriving, BelowOf
  <2>5. q \in Paths
    <3>1. Len(q) <= MaxDepth
      BY <1>6, <2>1, <2>2, <2>3 DEF StaysShort
    <3> QED BY <3>1, PathsAre
  <2> QED BY <2>1, <2>2, <2>3, <2>4, <2>5
<1>7. Shallow(g)
  BY <1>1, <1>2, <1>6 DEF Shallow
<1>8. ASSUME NEW q \in Arriving(d, old, new)
      PROVE  q \in Known(g) /\ IsPrefix(new, q)
  <2>1. PICK r \in BelowOf(d, old) : q = new \o SubSeq(r, Len(old) + 1, Len(r))
    BY DEF Arriving
  <2>2. r \in Known(d) /\ IsPrefix(old, r)
    BY <2>1 DEF BelowOf
  <2>3. r \in Paths /\ r \in Seq(Names) /\ resolve_path(d, r) # NoInode
    BY <1>1, <2>2, KnownIs
  <2>4. /\ q = Restarted(old, new, r) /\ q \in Seq(Names) /\ IsPrefix(new, q)
        /\ Restarted(new, old, q) = r /\ Len(q) = Len(r) - Len(old) + Len(new)
    <3>1. q = Restarted(old, new, r)
      BY <1>1, <2>1, <2>2, <2>3, RestartedConcat
    <3>2. /\ Restarted(old, new, r) \in Seq(Names)
          /\ Len(Restarted(old, new, r)) = Len(r) - Len(old) + Len(new)
      BY <1>1, <2>2, <2>3, RestartedIs
    <3>3. /\ IsPrefix(new, Restarted(old, new, r))
          /\ Restarted(new, old, Restarted(old, new, r)) = r
      BY <1>1, <2>2, <2>3, RestartedBack
    <3> QED BY <3>1, <3>2, <3>3
  <2>5. q \in Paths
    <3>1. Len(q) <= MaxDepth
      BY <2>2, <2>3, <2>4 DEF StaysShort
    <3> QED BY <2>4, <3>1, PathsAre
  <2>6. resolve_path(g, q) = resolve_path(d, r)
    BY <1>2, <2>4
  <2> QED BY <2>3, <2>4, <2>5, <2>6 DEF Known
<1>9. Known(g) = X
  <2>1. ASSUME NEW q \in Known(g) PROVE q \in X
    <3>1. q \in Seq(Names) /\ q \in Paths /\ resolve_path(g, q) # NoInode
      BY KnownIs
    <3>2. CASE IsPrefix(new, q)
      BY <1>6, <3>1, <3>2
    <3>3. CASE ~ IsPrefix(new, q)
      <4>1. ~ IsPrefix(old, q) /\ resolve_path(g, q) = resolve_path(d, q)
        BY <1>2, <3>1, <3>3
      <4> QED BY <3>1, <3>3, <4>1 DEF Known, BelowOf
    <3> QED BY <3>2, <3>3
  <2>2. ASSUME NEW q \in Known(d), ~ IsPrefix(old, q), ~ IsPrefix(new, q) PROVE q \in Known(g)
    <3>1. q \in Seq(Names) /\ q \in Paths /\ resolve_path(d, q) # NoInode
      BY <1>1, KnownIs
    <3> QED BY <1>2, <2>2, <3>1 DEF Known
  <2>3. ASSUME NEW q \in X PROVE q \in Known(g)
    <3>1. CASE q \in Arriving(d, old, new)
      BY <1>8, <3>1
    <3>2. CASE q \in Known(d) \ (BelowOf(d, old) \cup BelowOf(d, new))
      BY <2>2, <3>2 DEF BelowOf
    <3> QED BY <3>1, <3>2
  <2> HIDE DEF X
  <2> QED BY <2>1, <2>3
<1>10. ASSUME NEW q \in Known(g) PROVE t[q] = NodeAt(g, q)
  <2>1. q \in Seq(Names) /\ resolve_path(g, q) # NoInode /\ resolve_path(g, q) \in Used(g)
    BY KnownIs
  <2>2. t[q] = IF IsPrefix(new, q) THEN TreeOf(d)[CameFrom(old, new, q)] ELSE TreeOf(d)[q]
    <3> HIDE DEF X
    <3> QED BY <1>9
  <2> HIDE DEF t, X
  <2>3. CASE IsPrefix(new, q)
    <3> DEFINE r == CameFrom(old, new, q)
    <3>1. r \in Known(d) /\ resolve_path(d, r) = resolve_path(g, q)
      BY <1>6, <2>1, <2>3
    <3> HIDE DEF r
    <3>2. resolve_path(d, r) \in Used(d)
      BY <1>1, <3>1, KnownIs
    <3>3. NodeAt(g, q) = NodeAt(d, r)
      BY <1>1, <1>3, <2>1, <3>1, <3>2, NodeKept
    <3>4. t[q] = TreeOf(d)[r]
      BY <2>2, <2>3 DEF r
    <3> QED BY <3>1, <3>3, <3>4, TreeIs
  <2>4. CASE ~ IsPrefix(new, q)
    <3>1. resolve_path(d, q) = resolve_path(g, q) /\ q \in Known(d)
      BY <1>2, <2>1, <2>4 DEF Known
    <3>2. resolve_path(d, q) \in Used(d)
      BY <1>1, <3>1, KnownIs
    <3>3. NodeAt(g, q) = NodeAt(d, q)
      BY <1>1, <1>3, <2>1, <3>1, <3>2, NodeKept
    <3> QED BY <2>2, <2>4, <3>1, <3>3, TreeIs
  <2> QED BY <2>3, <2>4
<1>11. t = [q \in Known(g) |-> t[q]]
  <2> HIDE DEF X
  <2> QED BY <1>9
<1> HIDE DEF t
<1>12. TreeOf(g) = t
  BY <1>10, <1>11, TreeBecomes
<1> QED BY <1>4, <1>7, <1>12 DEF t, X, Tidy, TreeMoved

TreeHas(d, g, path, content) ==
  TreeOf(g) = [q \in Known(d) |-> IF q = path THEN [is_directory |-> FALSE, data |-> content]
                                  ELSE TreeOf(d)[q]]

LEMMA FileChanges ==
  ASSUME NEW d, Tidy(d), NEW g, Consistent(g), NEW path \in Named, NEW i \in Used(d),
         i = resolve_path(d, path), ~ d.inode[i].is_directory,
         SameTree(d, g), NEW size, IsNow(d, g, i, size), TailedAt(g, i)
  PROVE  /\ Tidy(g) /\ path \in Known(d)
         /\ TreeOf(d)[path] = [is_directory |-> FALSE, data |-> Content(d, d.inode[i])]
         /\ TreeHas(d, g, path, Content(g, g.inode[i]))
<1> DEFINE node == [is_directory |-> FALSE, data |-> Content(g, g.inode[i])]
           t == [q \in Known(d) |-> IF q = path THEN node ELSE TreeOf(d)[q]]
<1>1. Consistent(d) /\ Tailed(d) /\ Shallow(d) /\ path \in Seq(Names) /\ path \in Paths
  BY PathsAre DEF Tidy
<1>2. \A q \in Seq(Names) : resolve_path(g, q) = resolve_path(d, q)
  BY <1>1, PathsSame
<1>3. /\ ~ g.inode[i].is_directory /\ Spares(d, g, Used(d) \ {i}) /\ Used(g) = Used(d)
  BY DEF IsNow, SameTree
<1>4. Tailed(g)
  <2> DEFINE S == Used(d) \ {i}
  <2>1. S \subseteq Used(d) /\ Spares(d, g, S) /\ \A j \in Used(g) \ S : TailedAt(g, j)
    BY <1>3
  <2> HIDE DEF S
  <2> QED BY <1>1, <2>1, TailsSpared
<1>5. Shallow(g)
  BY <1>1, <1>2 DEF Shallow
<1>6. i # NoInode
  BY <1>1, InodesAre, ConsistentIs
<1>7. Known(g) = Known(d) /\ path \in Known(d)
  BY <1>1, <1>2, <1>6, PathsAre DEF Known
<1>8. ASSUME NEW q \in Known(g) PROVE t[q] = NodeAt(g, q)
  <2>1. /\ q \in Seq(Names) /\ resolve_path(g, q) = resolve_path(d, q)
        /\ resolve_path(d, q) \in Used(d) /\ resolve_path(d, q) # NoInode
    BY <1>1, <1>2, <1>7, KnownIs
  <2>2. CASE q = path
    <3>1. NodeAt(g, q) = [is_directory |-> g.inode[i].is_directory, data |-> Content(g, g.inode[i])]
      BY <1>3, <2>1, <2>2 DEF NodeAt, NodeOf
    <3>2. g.inode[i].is_directory \in BOOLEAN
      BY <1>3, DirectoryOrNot
    <3> QED BY <1>3, <1>7, <2>2, <3>1, <3>2
  <2>3. CASE q # path
    <3>1. resolve_path(d, q) # i
      BY <1>1, <2>1, <2>3, ResolveInjective
    <3>2. NodeAt(g, q) = NodeAt(d, q)
      <4> DEFINE S == Used(d) \ {i}
      <4>1. resolve_path(d, q) \in S
        BY <2>1, <3>1
      <4>2. Spares(d, g, S)
        BY <1>3
      <4> HIDE DEF S
      <4> QED BY <1>1, <1>3, <2>1, <4>1, <4>2, NodeKept
    <3>3. t[q] = TreeOf(d)[q]
      BY <1>7, <2>3
    <3> QED BY <1>7, <3>2, <3>3, TreeIs
  <2> QED BY <2>2, <2>3
<1>9. t = [q \in Known(g) |-> t[q]]
  BY <1>7
<1>10. TreeOf(d)[path] = [is_directory |-> FALSE, data |-> Content(d, d.inode[i])]
  <2>1. TreeOf(d)[path] = [is_directory |-> d.inode[i].is_directory, data |-> Content(d, d.inode[i])]
    BY <1>7, TreeIs DEF NodeAt, NodeOf
  <2>2. d.inode[i].is_directory \in BOOLEAN
    BY <1>1, DirectoryOrNot
  <2> QED BY <2>1, <2>2
<1> HIDE DEF t
<1>11. TreeOf(g) = t
  BY <1>8, <1>9, TreeBecomes
<1> QED BY <1>4, <1>5, <1>7, <1>10, <1>11 DEF t, Tidy, TreeHas

-----------------------------------------------------------------------------
(* Each handler takes the step it promises.                                *)

LEMMA SequenceNames ==
  ASSUME NEW s, NEW t
  PROVE  /\ Tree!IsPrefix(s, t) <=> IsPrefix(s, t)
         /\ Tree!Front(s) = Front(s) /\ Tree!Last(s) = Last(s)
BY DEF Tree!IsPrefix, IsPrefix, Tree!Front, Front, Tree!Last, Last

LEMMA TreePaths == Tree!Paths = Paths
BY DEF Tree!Paths, Paths

(* The tree that is seen, before and after a step.                         *)
Seen == tree = TreeOf(disk) /\ tree' = TreeOf(disk')

LEMMA DirectorySeen ==
  ASSUME NEW d, Consistent(d), NEW path \in Seq(Names), Len(path) <= MaxDepth, IsDirectory(d, path)
  PROVE  path \in Known(d) /\ TreeOf(d)[path].is_directory
<1>1. path \in Known(d) /\ d.inode[resolve_path(d, path)].is_directory
  BY PathsAre DEF Known, IsDirectory
<1>2. TreeOf(d)[path] = NodeOf(d, d.inode[resolve_path(d, path)])
  BY <1>1, TreeIs DEF NodeAt
<1> QED BY <1>1, <1>2 DEF NodeOf

LEMMA FrontFits ==
  ASSUME NEW path \in Named
  PROVE  /\ path \in Seq(Names) /\ path # << >> /\ Front(path) \in Seq(Names)
         /\ Len(Front(path)) <= MaxDepth
<1>1. path \in Seq(Names) /\ path # << >> /\ Len(path) <= MaxDepth
  BY PathsAre
<1>2. Front(path) \in Seq(Names) /\ Len(Front(path)) = Len(path) - 1 /\ Len(path) \in Nat
  BY <1>1, FrontLast
<1> QED BY <1>1, <1>2, DepthAssumption

LEMMA MakeImplements ==
  ASSUME EntriesFit, Tidy(disk), Seen, NEW path \in Named, KernelMayMake(path),
         NEW is_directory \in BOOLEAN, Returns(make_directory_or_file(disk, path, is_directory)),
         reply' = "OK"
  PROVE  /\ Tidy(disk')
         /\ Tree!Create(path, [is_directory |-> is_directory, data |-> << >>])
<1> DEFINE node == [is_directory |-> is_directory, data |-> << >>]
           result == make_directory_or_file(disk, path, is_directory)
<1>1. Consistent(disk) /\ resolve_path(disk, path) = NoInode /\ IsDirectory(disk, Front(path))
  BY DEF Tidy, KernelMayMake
<1>2. disk' = result.disk /\ result.reply = "OK"
  BY DEF Returns
<1>3. Good(disk, result) /\ Makes(disk, result.disk, path, is_directory)
  BY <1>1, <1>2, MakeIsGood
<1> HIDE DEF result
<1>4. Consistent(disk') /\ Makes(disk, disk', path, is_directory)
  BY <1>2, <1>3 DEF Good
<1>5. Tidy(disk') /\ TreeWith(disk, disk', path, node)
  BY <1>1, <1>4, MakeChanges
<1>6. Front(path) \in Known(disk) /\ TreeOf(disk)[Front(path)].is_directory
  BY <1>1, FrontFits, DirectorySeen
<1>7. path \notin Known(disk)
  BY <1>1 DEF Known
<1>8. tree = TreeOf(disk) /\ tree' = TreeOf(disk') /\ DOMAIN tree = Known(disk)
  BY TreeIs DEF Seen
<1>9. tree' = [q \in DOMAIN tree \cup {path} |-> IF q = path THEN node ELSE tree[q]]
  BY <1>5, <1>8 DEF TreeWith
<1>10. /\ path \notin DOMAIN tree /\ Front(path) \in DOMAIN tree
       /\ tree[Front(path)].is_directory
  BY <1>6, <1>7, <1>8
<1> QED BY <1>5, <1>9, <1>10, SequenceNames DEF Tree!Create, Tree!Exists

LEMMA RemoveImplements ==
  ASSUME Tidy(disk), Seen, NEW path \in Named, resolve_path(disk, path) # NoInode,
         Returns(Done(remove(disk, path)))
  PROVE  Tidy(disk') /\ Tree!Delete(path)
<1> DEFINE p == resolve_path(disk, Front(path))
           x == resolve_path(disk, path)
           g == remove(disk, path)
<1>1. Consistent(disk) /\ path \in Seq(Names) /\ path # << >> /\ path \in Paths
  BY PathsAre DEF Tidy
<1>2. p \in Directories(disk) /\ Consistent(g) /\ Forgets(disk, g, p, Last(path), x)
  BY <1>1, Parent, RemoveIs
<1>3. disk' = g
  BY DEF Returns, Done
<1> HIDE DEF g
<1>4. /\ Tidy(disk')
      /\ TreeOf(disk') = [q \in Known(disk) \ BelowOf(disk, path) |-> TreeOf(disk)[q]]
  <2> HIDE DEF p, x
  <2>1. p = resolve_path(disk, Front(path)) /\ x = resolve_path(disk, path) /\ x # NoInode
    BY DEF p, x
  <2> QED BY <1>1, <1>2, <1>3, <2>1, RemoveChanges
<1>5. tree = TreeOf(disk) /\ tree' = TreeOf(disk') /\ DOMAIN tree = Known(disk)
  BY TreeIs DEF Seen
<1>6. path \in DOMAIN tree
  BY <1>1, <1>5 DEF Known
<1>7. Tree!Below(path) = BelowOf(disk, path)
  BY <1>5, SequenceNames DEF Tree!Below, Tree!Exists, BelowOf
<1>8. tree' = [q \in DOMAIN tree \ Tree!Below(path) |-> tree[q]]
  BY <1>4, <1>5, <1>7
<1> QED BY <1>4, <1>6, <1>8 DEF Tree!Delete, Tree!Exists

LEMMA RenameImplements ==
  ASSUME EntriesFit, Tidy(disk), Seen, NEW old \in Named, NEW new \in Named,
         KernelMayRename(old, new), StaysInBounds(old, new),
         Returns(fs_rename(disk, old, new)), reply' = "OK"
  PROVE  Tidy(disk') /\ Tree!Move(old, new)
<1> DEFINE result == fs_rename(disk, old, new)
<1>1. /\ Consistent(disk) /\ old \in Seq(Names) /\ old # << >> /\ new \in Seq(Names) /\ new # << >>
      /\ old \in Paths
      /\ resolve_path(disk, old) # NoInode /\ IsDirectory(disk, Front(new))
      /\ ~ IsPrefix(old, new) /\ ~ IsPrefix(new, old)
  BY PathsAre DEF Tidy, KernelMayRename
<1>2. disk' = result.disk /\ result.reply = "OK"
  BY DEF Returns
<1>3. Good(disk, result) /\ \E u : Renames(disk, u, result.disk, old, new)
  BY <1>1, <1>2, RenameIsGood
<1> HIDE DEF result
<1>4. PICK u : Renames(disk, u, disk', old, new)
  BY <1>2, <1>3
<1>5. Consistent(disk') /\ StaysShort(disk, old, new)
  BY <1>2, <1>3 DEF Good, StaysInBounds, StaysShort
<1>6. Tidy(disk') /\ TreeMoved(disk, disk', old, new)
  BY <1>1, <1>4, <1>5, RenameChanges
<1>7. Front(new) \in Known(disk) /\ TreeOf(disk)[Front(new)].is_directory
  BY <1>1, FrontFits, DirectorySeen
<1>8. tree = TreeOf(disk) /\ tree' = TreeOf(disk') /\ DOMAIN tree = Known(disk)
  BY TreeIs DEF Seen
<1>9. old \in DOMAIN tree
  BY <1>1, <1>8 DEF Known
<1>10. Tree!Below(old) = BelowOf(disk, old) /\ Tree!Below(new) = BelowOf(disk, new)
  BY <1>8, SequenceNames DEF Tree!Below, Tree!Exists, BelowOf
<1> DEFINE came(q)  == old \o SubSeq(q, Len(new) + 1, Len(q))
           arriving == {new \o SubSeq(q, Len(old) + 1, Len(q)) : q \in Tree!Below(old)}
<1>11. arriving = Arriving(disk, old, new) /\ \A q : came(q) = CameFrom(old, new, q)
  BY <1>10 DEF Arriving, CameFrom
<1>12. \A q : Tree!IsPrefix(new, q) <=> IsPrefix(new, q)
  BY SequenceNames
<1> HIDE DEF came, arriving
<1>13. tree' = [q \in (DOMAIN tree \ (Tree!Below(old) \cup Tree!Below(new))) \cup arriving |->
                  IF Tree!IsPrefix(new, q) THEN tree[came(q)] ELSE tree[q]]
  BY <1>6, <1>8, <1>10, <1>11, <1>12 DEF TreeMoved
<1>14. /\ Front(new) \in DOMAIN tree /\ tree[Front(new)].is_directory
       /\ Tree!Front(new) = Front(new)
       /\ ~ Tree!IsPrefix(old, new) /\ ~ Tree!IsPrefix(new, old)
  BY <1>1, <1>7, <1>8, SequenceNames
<1> QED BY <1>6, <1>9, <1>13, <1>14 DEF Tree!Move, Tree!Exists, came, arriving

(* The data of one file changes.                                           *)
LEMMA DataChanged ==
  ASSUME NEW t, NEW u, NEW K, NEW p \in K, NEW old, NEW new, t = [q \in K |-> t[q]],
         t[p] = [is_directory |-> FALSE, data |-> old],
         u = [q \in K |-> IF q = p THEN [is_directory |-> FALSE, data |-> new] ELSE t[q]]
  PROVE  /\ u[p].data = new /\ t[p].data = old /\ ~ t[p].is_directory
         /\ u = [t EXCEPT ![p].data = u[p].data]
<1>1. u[p] = [is_directory |-> FALSE, data |-> new]
  OBVIOUS
<1>2. u[p].data = new /\ t[p].data = old /\ t[p].is_directory = FALSE
  BY <1>1
<1>4. [t[p] EXCEPT !.data = new] = [is_directory |-> FALSE, data |-> new]
  <2> DEFINE n == t[p]
  <2>1. n \in [is_directory : BOOLEAN, data : {old}] /\ n.is_directory = FALSE
    BY <1>2
  <2> HIDE DEF n
  <2>2. [n EXCEPT !.data = new] = [is_directory |-> n.is_directory, data |-> new]
    BY <2>1
  <2> QED BY <2>1, <2>2 DEF n
<1> DEFINE r == [is_directory |-> FALSE, data |-> new]
<1>5. u = [t EXCEPT ![p] = r]
  <2> HIDE DEF r
  <2>1. u = [q \in K |-> IF q = p THEN r ELSE t[q]]
    BY DEF r
  <2> QED BY <2>1
<1>6. [t EXCEPT ![p].data = new] = [t EXCEPT ![p] = [t[p] EXCEPT !.data = new]]
  OBVIOUS
<1>7. u = [t EXCEPT ![p].data = new]
  BY <1>4, <1>5, <1>6, Zenon
<1> QED BY <1>2, <1>7, Zenon

LEMMA StoreIs ==
  ASSUME NEW p, NEW offset, NEW words, p \in DOMAIN tree, ~ tree[p].is_directory,
         tree' = [tree EXCEPT ![p].data = tree'[p].data],
         NEW old, old = tree[p].data, NEW new, new = tree'[p].data,
         NEW end, end = offset + Len(words),
         Len(new) = IF Len(old) < end THEN end ELSE Len(old),
         \A k \in DOMAIN new :
           IF k \in offset + 1 .. end THEN new[k] = words[k - offset]
           ELSE IF k \in DOMAIN old THEN StaysIn(old, new, k) ELSE new[k] \in {0, Hole}
  PROVE  Tree!Store(p, offset, words)
<1>1. \A k \in DOMAIN new :
        \/ k \in offset + 1 .. end /\ new[k] = words[k - offset]
        \/ k \notin offset + 1 .. end /\ k \in DOMAIN old /\ Tree!Keeps(old[k], new[k])
        \/ k \notin offset + 1 .. end /\ k \notin DOMAIN old /\ new[k] \in {0, Hole}
  BY Zenon DEF StaysIn, Tree!Keeps
<1> QED BY <1>1, Zenon DEF Tree!Store, Tree!Changes, Tree!IsFile, Tree!Exists

LEMMA ResizeIs ==
  ASSUME NEW p, NEW size, p \in DOMAIN tree, ~ tree[p].is_directory,
         tree' = [tree EXCEPT ![p].data = tree'[p].data],
         NEW old, old = tree[p].data, NEW new, new = tree'[p].data,
         Len(new) = size,
         \A k \in DOMAIN new : IF k \in DOMAIN old THEN StaysIn(old, new, k) ELSE new[k] = 0
  PROVE  Tree!Resize(p, size)
<1>1. \A k \in DOMAIN new :
        \/ k \in DOMAIN old /\ Tree!Keeps(old[k], new[k])
        \/ k \notin DOMAIN old /\ new[k] = 0
        \/ k \notin DOMAIN old /\ new[k] = Hole /\ old # <<>> /\ Tree!Last(old) = Hole
  BY Zenon DEF StaysIn, Tree!Keeps
<1> QED BY <1>1, Zenon DEF Tree!Resize, Tree!Changes, Tree!IsFile, Tree!Exists

(* A handler has changed one file and no path.                             *)
LEMMA FileImplements ==
  ASSUME Tidy(disk), Seen, NEW path \in Named, NEW i \in Used(disk), i = resolve_path(disk, path),
         ~ disk.inode[i].is_directory, NEW g, disk' = g, Consistent(g), SameTree(disk, g),
         NEW size, IsNow(disk, g, i, size), TailedAt(g, i),
         NEW old, old = Content(disk, disk.inode[i]), NEW new, new = Content(g, g.inode[i])
  PROVE  /\ Tidy(disk') /\ path \in DOMAIN tree /\ ~ tree[path].is_directory
         /\ old = tree[path].data /\ new = tree'[path].data
         /\ tree' = [tree EXCEPT ![path].data = tree'[path].data]
<1>1. /\ Tidy(g) /\ path \in Known(disk)
      /\ TreeOf(disk)[path] = [is_directory |-> FALSE, data |-> old]
      /\ TreeHas(disk, g, path, new)
  BY FileChanges
<1>2. /\ tree = TreeOf(disk) /\ tree' = TreeOf(g) /\ DOMAIN tree = Known(disk)
      /\ tree = [q \in Known(disk) |-> tree[q]]
  BY TreeIs DEF Seen
<1>3. /\ tree[path] = [is_directory |-> FALSE, data |-> old]
      /\ tree' = [q \in Known(disk) |-> IF q = path THEN [is_directory |-> FALSE, data |-> new]
                                        ELSE tree[q]]
  BY <1>1, <1>2 DEF TreeHas
<1> DEFINE t == tree
           u == tree'
           K == Known(disk)
<1>4. /\ path \in K /\ t = [q \in K |-> t[q]]
      /\ t[path] = [is_directory |-> FALSE, data |-> old]
      /\ u = [q \in K |-> IF q = path THEN [is_directory |-> FALSE, data |-> new] ELSE t[q]]
  BY <1>1, <1>2, <1>3
<1> HIDE DEF t, u, K
<1>5. /\ u[path].data = new /\ t[path].data = old /\ ~ t[path].is_directory
      /\ u = [t EXCEPT ![path].data = u[path].data]
  <2> HIDE <1>1, <1>2, <1>3
  <2> QED BY <1>4, DataChanged
<1> QED BY <1>1, <1>2, <1>5, Zenon DEF t, u

LEMMA WriteImplements ==
  ASSUME Tidy(disk), Seen, NEW path \in Named, NEW offset \in 0 .. MaxSize, NEW words \in Writes,
         Write(path, offset, words), reply' = "OK"
  PROVE  Tidy(disk') /\ Tree!Store(path, offset, words)
<1> DEFINE i == resolve_path(disk, path)
           g == fs_write(disk, path, offset, words).disk
           end == offset + Len(words)
           old == Content(disk, disk.inode[i])
           new == Content(g, g.inode[i])
<1>1. Consistent(disk) /\ Tailed(disk) /\ path \in Seq(Names)
  BY PathsAre DEF Tidy
<1>2. offset \in Nat /\ words \in Seq(Nat) /\ end <= BlockSize * BlockSize
  <2>1. words \in Seq(Nat) /\ offset \in Nat
    BY WritesAssumption, SizeAssumption
  <2>2. Len(words) \in Nat /\ end <= MaxSize
    BY <2>1, LenProperties DEF Write
  <2> QED BY <2>1, <2>2, SizeAssumption, BlockSizeAssumption
<1>3. i \in Used(disk) /\ ~ disk.inode[i].is_directory
  BY <1>1, FileIs DEF Write
<1>4. disk' = g /\ fs_write(disk, path, offset, words).reply = "OK"
  BY DEF Write, Returns
<1>5. /\ GoodFile(disk, fs_write(disk, path, offset, words))
      /\ Overwritten(disk, g, i, offset, words)
  BY <1>1, <1>2, <1>3, <1>4, WriteIsGood
<1> HIDE DEF g
<1>6. Consistent(g) /\ SameTree(disk, g) /\ Used(g) = Used(disk)
  BY <1>5 DEF GoodFile, Good, SameTree, g
<1>7. IsNow(disk, g, i, IF disk.inode[i].size < end THEN end ELSE disk.inode[i].size)
  BY <1>5 DEF Overwritten
<1>8. TailedAt(disk, i)
  BY <1>1, <1>3 DEF Tailed
<1> HIDE DEF i, end, old, new
<1>9. /\ TailedAt(g, i) /\ Len(new) = IF Len(old) < end THEN end ELSE Len(old)
      /\ \A k \in DOMAIN new :
           IF k \in offset + 1 .. end THEN new[k] = words[k - offset]
           ELSE IF k \in DOMAIN old THEN StaysIn(old, new, k) ELSE new[k] \in {0, Hole}
  BY <1>1, <1>2, <1>3, <1>5, <1>6, <1>8, OverwrittenIs DEF end, old, new
<1>10. /\ Tidy(disk') /\ path \in DOMAIN tree /\ ~ tree[path].is_directory
       /\ old = tree[path].data /\ new = tree'[path].data
       /\ tree' = [tree EXCEPT ![path].data = tree'[path].data]
  <2>1. i = resolve_path(disk, path) /\ old = Content(disk, disk.inode[i])
        /\ new = Content(g, g.inode[i])
    BY DEF i, old, new
  <2> DEFINE size == IF disk.inode[i].size < end THEN end ELSE disk.inode[i].size
  <2>2. IsNow(disk, g, i, size)
    BY <1>7
  <2> HIDE DEF size
  <2> QED BY <1>3, <1>4, <1>6, <1>9, <2>1, <2>2, FileImplements
<1> QED BY <1>9, <1>10, StoreIs DEF end

LEMMA TruncateImplements ==
  ASSUME ~ CutHoles, Tidy(disk), Seen, NEW path \in Named, NEW size \in 0 .. MaxSize,
         Truncate(path, size), reply' = "OK"
  PROVE  Tidy(disk') /\ Tree!Resize(path, size)
<1> DEFINE i == resolve_path(disk, path)
           result == fs_truncate(disk, path, size)
           g == result.disk
           old == Content(disk, disk.inode[i])
           new == Content(g, g.inode[i])
<1>1. Consistent(disk) /\ Tailed(disk) /\ path \in Seq(Names)
  BY PathsAre DEF Tidy
<1>2. size \in Nat /\ size <= BlockSize * BlockSize
  BY SizeAssumption, BlockSizeAssumption
<1>3. i \in Used(disk) /\ ~ disk.inode[i].is_directory /\ disk.inode[i].size \in Nat
  BY <1>1, FileIs, ConsistentIs DEF Truncate
<1>4. disk' = g /\ result.reply = "OK"
  BY DEF Truncate, Returns
<1>5. size < disk.inode[i].size /\ size % BlockSize # 0 =>
        Pointers(disk, disk.inode[i])[size \div BlockSize] # 0
  BY DEF Truncate, EndsInHole
<1> HIDE DEF result
<1>6. /\ GoodFile(disk, result)
      /\ IF size > disk.inode[i].size THEN Grown(disk, g, i, size) ELSE Shrunk(disk, g, i, size)
  <2>1. i = resolve_path(disk, path)
    OBVIOUS
  <2> HIDE DEF i
  <2> QED BY <1>1, <1>2, <1>3, <1>4, <1>5, <2>1, TruncateIsGood DEF result
<1>7. Consistent(g) /\ SameTree(disk, g) /\ Used(g) = Used(disk)
  BY <1>6 DEF GoodFile, Good, SameTree
<1>8. TailedAt(disk, i)
  BY <1>1, <1>3 DEF Tailed
<1>9. IsNow(disk, g, i, size)
  BY <1>6 DEF Grown, Shrunk
<1> HIDE DEF g, i, old, new
<1>10. ResizedTo(g, i, old, new, size)
  <2>1. old = Content(disk, disk.inode[i]) /\ new = Content(g, g.inode[i]) /\ i \in Used(g)
    BY <1>3, <1>7 DEF old, new
  <2>2. CASE size > disk.inode[i].size
    BY <1>1, <1>2, <1>3, <1>6, <1>7, <1>8, <2>1, <2>2, GrownIs
  <2>3. CASE ~ size > disk.inode[i].size
    <3>1. Shrunk(disk, g, i, size) /\ size <= disk.inode[i].size
      BY <1>2, <1>3, <1>6, <2>3
    <3> QED BY <1>1, <1>2, <1>3, <1>7, <2>1, <3>1, ShrunkIs
  <2> QED BY <2>2, <2>3
<1>11. /\ Tidy(disk') /\ path \in DOMAIN tree /\ ~ tree[path].is_directory
       /\ old = tree[path].data /\ new = tree'[path].data
       /\ tree' = [tree EXCEPT ![path].data = tree'[path].data]
  <2>1. i = resolve_path(disk, path) /\ old = Content(disk, disk.inode[i])
        /\ new = Content(g, g.inode[i])
    BY DEF i, old, new
  <2> QED BY <1>3, <1>4, <1>7, <1>9, <1>10, <2>1, FileImplements DEF ResizedTo
<1> QED BY <1>10, <1>11, ResizeIs DEF ResizedTo

LEMMA NextImplements ==
  ASSUME EntriesFit, ~ CutHoles, IInv, Tidy(disk), Seen, Next
  PROVE  Tidy(disk') /\ (Tree!TreeNext \/ UNCHANGED tree)
<1>1. reply' \in {"OK", "ENOSPC"} /\ (reply' = "ENOSPC" => disk' = disk)
  BY Step DEF IInv
<1>2. CASE reply' = "ENOSPC"
  BY <1>1, <1>2 DEF Seen
<1>3. CASE reply' = "OK"
  <2> DEFINE node(b) == [is_directory |-> b, data |-> << >>]
  <2>1. PICK path \in Named :
          \/ Mknod(path) \/ Mkdir(path) \/ Unlink(path) \/ Rmdir(path)
          \/ \E new \in Named : Rename(path, new)
          \/ \E offset \in 0 .. MaxSize, words \in Writes : Write(path, offset, words)
          \/ \E size \in 0 .. MaxSize : Truncate(path, size)
    BY DEF Next
  <2>2. path \in Tree!Paths \ {<< >>} /\ \A new \in Named : new \in Tree!Paths \ {<< >>}
    BY TreePaths DEF Named
  <2>3. CASE Mknod(path)
    <3>1. Tidy(disk') /\ Tree!Create(path, node(FALSE))
      BY <1>3, <2>3, MakeImplements DEF Mknod
    <3>2. Tree!EmptyFile = node(FALSE)
      BY DEF Tree!EmptyFile
    <3> QED BY <2>2, <3>1, <3>2, Zenon DEF Tree!TreeNext
  <2>4. CASE Mkdir(path)
    <3>1. Tidy(disk') /\ Tree!Create(path, node(TRUE))
      BY <1>3, <2>4, MakeImplements DEF Mkdir
    <3>2. Tree!Directory = node(TRUE)
      BY DEF Tree!Directory
    <3> QED BY <2>2, <3>1, <3>2, Zenon DEF Tree!TreeNext
  <2>5. CASE Unlink(path) \/ Rmdir(path)
    <3>1. resolve_path(disk, path) # NoInode /\ Returns(Done(remove(disk, path)))
      BY <2>5 DEF Unlink, Rmdir, IsFile, IsDirectory
    <3>2. Tidy(disk') /\ Tree!Delete(path)
      BY <3>1, RemoveImplements
    <3> QED BY <2>2, <3>2, Zenon DEF Tree!TreeNext
  <2>6. ASSUME NEW new \in Named, Rename(path, new)
        PROVE  Tidy(disk') /\ (Tree!TreeNext \/ UNCHANGED tree)
    <3>1. Tidy(disk') /\ Tree!Move(path, new)
      BY <1>3, <2>6, RenameImplements DEF Rename
    <3> QED BY <2>2, <3>1, Zenon DEF Tree!TreeNext
  <2>7. ASSUME NEW offset \in 0 .. MaxSize, NEW words \in Writes, Write(path, offset, words)
        PROVE  Tidy(disk') /\ (Tree!TreeNext \/ UNCHANGED tree)
    <3>1. Tidy(disk') /\ Tree!Store(path, offset, words)
      BY <1>3, <2>7, WriteImplements
    <3> QED BY <2>2, <3>1, Zenon DEF Tree!TreeNext
  <2>8. ASSUME NEW size \in 0 .. MaxSize, Truncate(path, size)
        PROVE  Tidy(disk') /\ (Tree!TreeNext \/ UNCHANGED tree)
    <3>1. Tidy(disk') /\ Tree!Resize(path, size)
      BY <1>3, <2>8, TruncateImplements
    <3> QED BY <2>2, <3>1, Zenon DEF Tree!TreeNext
  <2> QED BY <2>1, <2>3, <2>4, <2>5, <2>6, <2>7, <2>8
<1> QED BY <1>1, <1>2, <1>3

-----------------------------------------------------------------------------
(* The refinement.                                                         *)

(* The invariant: the disk is consistent, files hold zeroes behind their   *)
(* ends, no path is longer than the paths of the model, and the tree is    *)
(* the one that the disk makes up.                                         *)
TInv == IInv /\ Tidy(disk) /\ tree = TreeOf(disk)

LEMMA InitTree ==
  ASSUME Init, tree = TreeOf(disk)
  PROVE  TInv /\ Tree!TreeInit
<1>1. /\ Sound(disk) /\ Used(disk) = {ROOT_INODE}
      /\ disk.inode[ROOT_INODE].size = 0 /\ disk.inode[ROOT_INODE].is_directory = TRUE
  BY Formatted DEF Init
<1>2. IInv /\ Consistent(disk)
  BY InitIInv DEF IInv
<1>3. Tailed(disk)
  BY <1>1 DEF Tailed
<1>4. << >> \in Seq(Names) /\ Len(<< >>) = 0 /\ resolve_path(disk, << >>) = ROOT_INODE
      /\ ROOT_INODE # NoInode
  BY <1>2, ResolveRoot, InodesAre, ConsistentIs
<1>5. Childless(disk, ROOT_INODE)
  <2>1. entries_count(disk.inode[ROOT_INODE]) = 0
    BY <1>1 DEF entries_count, EntrySize
  <2> QED BY <1>2, <1>4, <2>1, ChildlessIs
<1>6. ASSUME NEW q \in Seq(Names), resolve_path(disk, q) # NoInode PROVE q = << >>
  <2>1. IsPrefix(<< >>, q)
    <3> DEFINE e == << >>
    <3>1. e \in Seq(Names) /\ Len(e) = 0
      BY <1>4
    <3> HIDE DEF e
    <3>2. Len(e) <= Len(q) /\ \A n \in 1 .. Len(e) : e[n] = q[n]
      BY <3>1, LenProperties
    <3>3. IsPrefix(e, q)
      BY <3>1, <3>2, PrefixIs
    <3> QED BY <3>3 DEF e
  <2> QED BY <1>2, <1>4, <1>5, <1>6, <2>1, PathsEnd
<1>7. << >> \in Paths
  <2> DEFINE e == << >>
  <2>1. e \in Seq(Names) /\ Len(e) <= MaxDepth
    BY <1>4, DepthAssumption
  <2> HIDE DEF e
  <2>2. e \in Paths
    BY <2>1, PathsAre
  <2> QED BY <2>2 DEF e
<1>8. Shallow(disk)
  BY <1>6, <1>7 DEF Shallow
<1>9. Known(disk) = {<< >>}
  BY <1>4, <1>6, <1>7, PathsAre DEF Known
<1>10. NodeAt(disk, << >>) = [is_directory |-> TRUE, data |-> << >>]
  BY <1>1, <1>4 DEF NodeAt, NodeOf
<1>11. tree = [p \in {<< >>} |-> [is_directory |-> TRUE, data |-> << >>]]
  <2>1. tree = [q \in Known(disk) |-> NodeAt(disk, q)]
    BY TreeIs
  <2> QED BY <1>9, <1>10, <2>1
<1> QED BY <1>2, <1>3, <1>8, <1>11 DEF TInv, Tidy, Tree!TreeInit, Tree!Directory

LEMMA TreeStep ==
  ASSUME EntriesFit, ~ CutHoles, TInv,
         [Next /\ \E d \in {disk'} : tree' = TreeOf(d)]_<<vars, tree>>
  PROVE  TInv' /\ [Tree!TreeNext]_tree
<1>1. CASE UNCHANGED <<vars, tree>>
  BY <1>1 DEF TInv, IInv, vars
<1>2. CASE Next /\ tree' = TreeOf(disk')
  <2>1. Seen
    BY <1>2 DEF TInv, Seen
  <2>2. IInv'
    BY <1>2, Step DEF TInv
  <2>3. Tidy(disk') /\ (Tree!TreeNext \/ UNCHANGED tree)
    BY <1>2, <2>1, NextImplements DEF TInv
  <2> QED BY <1>2, <2>2, <2>3 DEF TInv
<1> QED BY <1>1, <1>2

(* Whatever the handlers do to bitmaps, inodes and blocks, a call that     *)
(* succeeds makes one change to the tree of files and directories, the one *)
(* it promises, and a call that fails makes none: removals take along what *)
(* is below them, renames move whole subtrees and replace what they meet,  *)
(* and writes and truncates change one file, where zeroes or holes appear  *)
(* and nothing that a file or block held before.                           *)
THEOREM TreeRefinement ==
  ASSUME EntriesFit, ~ CutHoles PROVE TreeSpec => ImplementsFileTree
<1>1. Init /\ tree = TreeOf(disk) => TInv /\ Tree!TreeInit
  BY InitTree
<1>2. TInv /\ [Next /\ \E d \in {disk'} : tree' = TreeOf(d)]_<<vars, tree>> =>
        TInv' /\ [Tree!TreeNext]_tree
  BY TreeStep
<1> QED BY <1>1, <1>2, PTL DEF TreeSpec, ImplementsFileTree, Tree!TreeSpec

=============================================================================

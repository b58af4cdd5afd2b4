------------------------------ MODULE FsProofs ------------------------------
(***************************************************************************)
(* What the helper routines of Disk do to a disk whose blocks are laid out *)
(* right (every block at one place, and empty when it is at none); then    *)
(* the invariant of Fs: every handler leaves a consistent disk, and what   *)
(* follows from that.                                                      *)
(***************************************************************************)
EXTENDS Fs, FiniteSetTheorems, BasicFacts, TLAPS

-----------------------------------------------------------------------------
(* Sizes and blocks.                                                       *)

LEMMA Count ==
  ASSUME NEW s \in Nat
  PROVE  /\ block_count_from_size(s) \in Nat
         /\ \A k \in Nat : k < block_count_from_size(s) <=> k * BlockSize < s
<1> DEFINE n == s + BlockSize - 1
           q == n \div BlockSize
           r == n % BlockSize
<1>1. n \in Nat /\ n = s + BlockSize - 1 /\ q = block_count_from_size(s)
  BY BlockSizeAssumption DEF block_count_from_size
<1> HIDE DEF n
<1>2. q \in Nat /\ r \in 0 .. (BlockSize - 1) /\ n = q * BlockSize + r
  BY <1>1, BlockSizeAssumption, Division
<1> HIDE DEF q, r
<1>3. ASSUME NEW k \in Nat PROVE k < q <=> k * BlockSize < s
  <2>1. k * BlockSize \in Nat /\ q * BlockSize \in Nat
    BY <1>2, BlockSizeAssumption
  <2>2. ASSUME k < q PROVE k * BlockSize < s
    <3>1. k * BlockSize + BlockSize <= q * BlockSize
      BY <1>2, <2>2, BlockSizeAssumption, Products
    <3> QED BY <1>1, <1>2, <2>1, <3>1, BlockSizeAssumption
  <2>3. ASSUME k * BlockSize < s, ~ k < q PROVE FALSE
    <3>1. q * BlockSize <= k * BlockSize
      <4>1. q < k => q * BlockSize + BlockSize <= k * BlockSize
        BY <1>2, BlockSizeAssumption, Products
      <4> QED BY <1>2, <2>1, <2>3, <4>1, BlockSizeAssumption
    <3> QED BY <1>1, <1>2, <2>1, <2>3, <3>1, BlockSizeAssumption
  <2> QED BY <2>2, <2>3
<1> QED BY <1>1, <1>2, <1>3

LEMMA CountGrows ==
  ASSUME NEW s \in Nat, NEW t \in Nat, s <= t
  PROVE  block_count_from_size(s) <= block_count_from_size(t)
<1> DEFINE m == block_count_from_size(s)
           n == block_count_from_size(t)
<1>1. m \in Nat /\ n \in Nat
  BY Count
<1>2. \A k \in Nat : k < m => k < n
  <2> TAKE k \in Nat
  <2>1. k * BlockSize \in Nat
    BY BlockSizeAssumption
  <2>2. (k < m <=> k * BlockSize < s) /\ (k < n <=> k * BlockSize < t)
    BY Count
  <2> QED BY <2>1, <2>2
<1> HIDE DEF m, n
<1>3. ~ n < m
  BY <1>1, <1>2
<1> QED BY <1>1, <1>3 DEF m, n

(* One byte more takes at most one block more.                             *)
LEMMA CountNext ==
  ASSUME NEW s \in Nat
  PROVE  block_count_from_size(s + 1) - block_count_from_size(s) \in {0, 1}
<1> DEFINE m == block_count_from_size(s)
           n == block_count_from_size(s + 1)
<1>1. m \in Nat /\ n \in Nat /\ m <= n
  BY Count, CountGrows
<1>2. ASSUME m + 1 < n PROVE FALSE
  <2>1. (m + 1) * BlockSize < s + 1
    BY <1>1, <1>2, Count
  <2>2. ~ m * BlockSize < s
    BY <1>1, Count
  <2>3. m * BlockSize + BlockSize <= (m + 1) * BlockSize
    BY <1>1, BlockSizeAssumption
  <2>4. m * BlockSize \in Nat /\ (m + 1) * BlockSize \in Nat
    BY <1>1, BlockSizeAssumption
  <2> HIDE DEF m
  <2> QED BY <2>1, <2>2, <2>3, <2>4, BlockSizeAssumption
<1> HIDE DEF m, n
<1>3. n - m \in {0, 1}
  BY <1>1, <1>2
<1> QED BY <1>3 DEF m, n

LEMMA CountFits ==
  ASSUME NEW s \in Nat, s <= BlockSize * BlockSize
  PROVE  block_count_from_size(s) <= BlockSize
<1>1. ~ BlockSize * BlockSize < s /\ BlockSize \in Nat
  BY BlockSizeAssumption
<1>2. ~ BlockSize < block_count_from_size(s) /\ block_count_from_size(s) \in Nat
  BY <1>1, Count
<1> QED BY <1>1, <1>2

LEMMA CountZero == block_count_from_size(0) = 0
<1>1. block_count_from_size(0) \in Nat
  BY Count
<1>2. ~ 0 < block_count_from_size(0)
  BY Count, BlockSizeAssumption
<1> QED BY <1>1, <1>2

(* The place of a word.                                                    *)
LEMMA PlaceOf ==
  ASSUME NEW n \in Nat
  PROVE  /\ n \div BlockSize \in Nat /\ n % BlockSize \in Offsets
         /\ n = (n \div BlockSize) * BlockSize + (n % BlockSize)
         /\ \A s \in Nat : n < s => n \div BlockSize < block_count_from_size(s)
<1>1. /\ n \div BlockSize \in Nat /\ n % BlockSize \in Offsets
      /\ n = (n \div BlockSize) * BlockSize + (n % BlockSize)
  BY BlockSizeAssumption, Division DEF Offsets
<1>2. ASSUME NEW s \in Nat, n < s PROVE n \div BlockSize < block_count_from_size(s)
  <2> DEFINE q == n \div BlockSize
             r == n % BlockSize
  <2>1. q \in Nat /\ r \in Nat /\ n = q * BlockSize + r
    BY <1>1, BlockSizeAssumption DEF Offsets
  <2> HIDE DEF q, r
  <2>2. q * BlockSize < s
    BY <1>2, <2>1, BlockSizeAssumption
  <2>3. q < block_count_from_size(s)
    BY <2>1, <2>2, Count
  <2> QED BY <2>3 DEF q
<1> QED BY <1>1, <1>2

(* The place at which a file ends, when that is inside a block.            *)
LEMMA CountAt ==
  ASSUME NEW s \in Nat, s % BlockSize # 0
  PROVE  /\ s \div BlockSize \in Nat /\ s \div BlockSize = block_count_from_size(s) - 1
         /\ s # 0
<1> DEFINE q == s \div BlockSize
           r == s % BlockSize
           c == block_count_from_size(s)
<1>1. q \in Nat /\ r \in 0 .. (BlockSize - 1) /\ s = q * BlockSize + r /\ r # 0
  BY BlockSizeAssumption, Division
<1>2. q * BlockSize \in Nat /\ BlockSize \in Nat /\ (q + 1) * BlockSize = q * BlockSize + BlockSize
  BY <1>1, BlockSizeAssumption
<1> HIDE DEF q, r
<1>3. q * BlockSize < s /\ ~ (q + 1) * BlockSize < s
  BY <1>1, <1>2
<1>4. q < c /\ ~ q + 1 < c /\ c \in Nat
  BY <1>1, <1>3, Count
<1>5. s # 0
  BY <1>1, <1>2, <1>3
<1> HIDE DEF c
<1> QED BY <1>1, <1>4, <1>5 DEF q, c

-----------------------------------------------------------------------------
(* Allocation.                                                             *)

LEMMA Blocks ==
  /\ \A b \in BlockIds : b \in Nat /\ b # 0
  /\ IsFiniteSet(BlockIds)
<1>1. \A b \in BlockIds : b \in Nat /\ b # 0
  BY FirstBlockAssumption, BlockNumAssumption DEF BlockIds
<1>2. IsFiniteSet(BlockIds)
  BY FS_Interval, FirstBlockAssumption, BlockNumAssumption DEF BlockIds
<1> QED BY <1>1, <1>2

LEMMA AvailableFinite ==
  ASSUME NEW d
  PROVE  /\ IsFiniteSet(Available(d)) /\ Cardinality(Available(d)) \in Nat
         /\ \A b \in Available(d) : b \in Nat /\ b \in BlockIds /\ b # 0 /\ b \notin d.bitmap
<1>1. Available(d) \in SUBSET BlockIds
  BY DEF Available
<1>2. IsFiniteSet(Available(d))
  BY <1>1, Blocks, FS_Subset
<1> QED BY <1>1, <1>2, Blocks, FS_CardinalityType DEF Available

LEMMA NewBlockIs ==
  ASSUME NEW d, NEW n \in Nat, block_seek(d, n)
  PROVE  /\ \A k \in 0 .. (n - 1) : NewBlock(d, k) \in Available(d)
         /\ \A k, l \in 0 .. (n - 1) : NewBlock(d, k) = NewBlock(d, l) => k = l
         /\ NewBlocks(d, n) = {NewBlock(d, k) : k \in 0 .. (n - 1)}
<1> DEFINE S == Available(d)
<1>1. IsFiniteSet(S) /\ Cardinality(S) \in Nat /\ Cardinality(S) >= n /\ \A b \in S : b \in Nat
  BY AvailableFinite DEF block_seek
<1>2. \A b \in S : Below(d, b) = Cardinality({a \in S : a < b})
  BY DEF Below
<1>3. \A k \in 0 .. (n - 1) : \E b \in S : Below(d, b) = k
  <2> TAKE k \in 0 .. (n - 1)
  <2>1. k \in Nat /\ k < Cardinality(S)
    BY <1>1
  <2> HIDE DEF S
  <2>2. \E b \in S : Cardinality({a \in S : a < b}) = k
    BY <1>1, <2>1, Ranked
  <2> QED BY <1>2, <2>2
<1>4. \A b, c \in S : Below(d, b) = Below(d, c) => b = c
  <2> SUFFICES ASSUME NEW b \in S, NEW c \in S, Below(d, b) = Below(d, c), b # c
               PROVE  FALSE
    OBVIOUS
  <2>1. b < c \/ c < b
    BY <1>1
  <2> HIDE DEF S
  <2>2. /\ b < c => Cardinality({a \in S : a < b}) < Cardinality({a \in S : a < c})
        /\ c < b => Cardinality({a \in S : a < c}) < Cardinality({a \in S : a < b})
    BY <1>1, RankGrows
  <2>3. Below(d, b) \in Nat
    <3> DEFINE low == {a \in S : a < b}
    <3>1. low \in SUBSET S
      OBVIOUS
    <3> HIDE DEF low
    <3>2. Cardinality(low) \in Nat
      BY <1>1, <3>1, FS_Subset, FS_CardinalityType
    <3> QED BY <1>2, <3>2 DEF low
  <2> QED BY <1>2, <2>1, <2>2, <2>3
<1>5. \A k \in 0 .. (n - 1) : NewBlock(d, k) \in S /\ Below(d, NewBlock(d, k)) = k
  BY <1>3 DEF NewBlock
<1>6. \A b \in S : Below(d, b) < n => Below(d, b) \in 0 .. (n - 1)
  <2> TAKE b \in S
  <2> DEFINE low == {a \in S : a < b}
  <2>1. low \in SUBSET S
    OBVIOUS
  <2> HIDE DEF low, S
  <2>2. Cardinality(low) \in Nat
    BY <1>1, <2>1, FS_Subset, FS_CardinalityType
  <2>3. Below(d, b) \in Nat
    BY <1>2, <2>2 DEF low
  <2> QED BY <2>3
<1>7. NewBlocks(d, n) = {NewBlock(d, k) : k \in 0 .. (n - 1)}
  <2>1. ASSUME NEW b \in NewBlocks(d, n) PROVE \E k \in 0 .. (n - 1) : b = NewBlock(d, k)
    <3>1. b \in S /\ Below(d, b) < n
      BY DEF NewBlocks
    <3>2. Below(d, b) \in 0 .. (n - 1)
      BY <1>6, <3>1
    <3>3. b = NewBlock(d, Below(d, b))
      BY <1>4, <1>5, <3>1, <3>2
    <3> QED BY <3>2, <3>3
  <2>2. ASSUME NEW k \in 0 .. (n - 1) PROVE NewBlock(d, k) \in NewBlocks(d, n)
    BY <1>5 DEF NewBlocks
  <2> QED BY <2>1, <2>2
<1> HIDE DEF S
<1> QED BY <1>5, <1>7 DEF S

-----------------------------------------------------------------------------
(* Laying out.                                                             *)

Sound(d) == IsDisk(d) /\ Laid(d) /\ Emptied(d)

(* Inode i and all that is at its places are in g as they are in d.        *)
Same(d, g, i) ==
  /\ g.inode[i] = d.inode[i]
  /\ \A k \in Places : /\ At(g, i, k) = At(d, i, k)
                       /\ At(d, i, k) # 0 => g.block[At(d, i, k)] = d.block[At(d, i, k)]

LEMMA Fields ==
  ASSUME NEW d, IsDisk(d)
  PROVE  /\ \A b \in d.bitmap : b \in BlockIds
         /\ d.inodes \subseteq InodeIds \ {ROOT_INODE}
         /\ d.inode \in [InodeIds -> Inode]
         /\ d.block \in [BlockIds -> [Offsets -> Nat]]
         /\ 0 \notin d.bitmap /\ 0 \notin BlockIds
         /\ \A i \in Used(d) : i \in InodeIds
BY Blocks, InodeNumAssumption DEF IsDisk, Used, InodeIds, ROOT_INODE

LEMMA PlacesOf ==
  ASSUME NEW d, IsDisk(d), NEW i \in InodeIds
  PROVE  /\ At(d, i, -1) = d.inode[i].pointer_block
         /\ At(d, i, -1) \in BlockIds \cup {0}
         /\ At(d, i, -1) # 0 =>
              /\ Pointers(d, d.inode[i]) = d.block[d.inode[i].pointer_block]
              /\ Pointers(d, d.inode[i]) \in [Offsets -> Nat]
              /\ \A k \in Offsets : /\ At(d, i, k) = d.block[d.inode[i].pointer_block][k]
                                    /\ k # -1
BY Fields DEF At, Pointers, block_read, Inode, Offsets

LEMMA SameIs ==
  ASSUME NEW d, IsDisk(d), NEW g, IsDisk(g), NEW i \in InodeIds, At(d, i, -1) # 0,
         g.inode[i] = d.inode[i],
         \A k \in Places : At(d, i, k) # 0 => g.block[At(d, i, k)] = d.block[At(d, i, k)]
  PROVE  Same(d, g, i)
<1>1. At(g, i, -1) = At(d, i, -1) /\ -1 \in Places
  BY PlacesOf DEF Places
<1>2. g.block[At(d, i, -1)] = d.block[At(d, i, -1)]
  BY <1>1
<1>3. \A k \in Offsets : At(g, i, k) = At(d, i, k)
  BY <1>1, <1>2, PlacesOf
<1> QED BY <1>1, <1>3 DEF Same, Places

LEMMA SameAgain ==
  ASSUME NEW d, NEW e, NEW g, NEW i, Same(d, e, i), Same(e, g, i)
  PROVE  Same(d, g, i)
BY DEF Same

(* The blocks of a disk as Laid sees them.                                 *)
LEMMA BlockAt ==
  ASSUME NEW d, Sound(d), NEW i \in Used(d)
  PROVE  /\ i \in InodeIds
         /\ At(d, i, -1) # 0 /\ d.inode[i].pointer_block = At(d, i, -1)
         /\ \A k \in Places : At(d, i, k) # 0 => At(d, i, k) \in d.bitmap /\ At(d, i, k) \in BlockIds
         /\ \A j \in Used(d), k, l \in Places :
              At(d, i, k) = At(d, j, l) /\ At(d, i, k) # 0 => i = j /\ k = l
<1>1. i \in InodeIds /\ IsDisk(d) /\ Laid(d)
  BY Fields DEF Sound
<1>2. At(d, i, -1) # 0 /\ \A k \in Places : At(d, i, k) \in d.bitmap \cup {0}
  BY <1>1 DEF Laid
<1>3. \A k \in Places : At(d, i, k) # 0 => At(d, i, k) \in d.bitmap /\ At(d, i, k) \in BlockIds
  BY <1>1, <1>2, Fields
<1>4. \A j \in Used(d), k, l \in Places :
        At(d, i, k) = At(d, j, l) /\ At(d, i, k) # 0 => i = j /\ k = l
  BY <1>1 DEF Laid
<1> QED BY <1>1, <1>2, <1>3, <1>4, PlacesOf

(* The pointer block of inode i gets the pointers new: each pointer stays, *)
(* or is removed, or is a block that was available.                        *)
Rewrites(d, g, i, new) ==
  /\ g.inodes = d.inodes
  /\ \A j \in InodeIds \ {i} : g.inode[j] = d.inode[j]
  /\ g.inode[i].pointer_block = d.inode[i].pointer_block
  /\ new \in [Offsets -> Nat]
  /\ g.block[d.inode[i].pointer_block] = new
  /\ \A k \in Offsets : new[k] = 0 \/ new[k] = At(d, i, k) \/ new[k] \in Available(d)
  /\ \A k, l \in Offsets : new[k] = new[l] /\ new[k] # 0 => k = l
  /\ \A b \in BlockIds : b \in g.bitmap <=> \/ b \in d.bitmap /\ \A k \in Offsets : At(d, i, k) # b
                                            \/ \E k \in Offsets : new[k] = b
  /\ \A b \in BlockIds : /\ b # d.inode[i].pointer_block
                         /\ \A k \in Offsets : At(d, i, k) # b /\ new[k] # b
                         => g.block[b] = d.block[b]
  /\ \A b \in BlockIds : /\ \E k \in Offsets : At(d, i, k) = b
                         /\ \A k \in Offsets : new[k] # b
                         => g.block[b] = EmptyBlock

LEMMA Rewritten ==
  ASSUME NEW d, Sound(d), NEW g, IsDisk(g), NEW i \in Used(d), NEW new, Rewrites(d, g, i, new)
  PROVE  /\ Sound(g) /\ Used(g) = Used(d)
         /\ At(g, i, -1) = At(d, i, -1) /\ \A k \in Offsets : At(g, i, k) = new[k]
         /\ \A j \in Used(d) \ {i} : Same(d, g, j)
<1> DEFINE pb == At(d, i, -1)
<1>1. /\ i \in InodeIds /\ pb # 0 /\ pb \in BlockIds /\ pb \in d.bitmap
      /\ d.inode[i].pointer_block = pb /\ IsDisk(d)
      /\ \A k \in Offsets : At(d, i, k) # 0 => At(d, i, k) \in d.bitmap /\ At(d, i, k) \in BlockIds
      /\ \A k \in Offsets : At(d, i, k) # pb
  <2>1. -1 \in Places /\ \A k \in Offsets : k \in Places /\ k # -1
    BY DEF Places, Offsets
  <2> QED BY <2>1, BlockAt DEF Sound
<1>2. /\ \A b \in BlockIds : b # 0 /\ (b \in Available(d) <=> b \notin d.bitmap)
      /\ \A b \in Available(d) : b \in BlockIds
      /\ \A b \in g.bitmap : b \in BlockIds
  BY Blocks, Fields DEF Available
<1>3. Used(g) = Used(d)
  BY DEF Rewrites, Used
<1>4. At(g, i, -1) = pb
  BY <1>1, PlacesOf DEF Rewrites
<1>5. \A k \in Offsets : At(g, i, k) = new[k]
  <2>1. g.inode[i].pointer_block = pb /\ g.block[pb] = new
    BY <1>1 DEF Rewrites
  <2> QED BY <1>1, <1>4, <2>1, PlacesOf
<1>6. /\ \A k \in Offsets : new[k] = 0 \/ new[k] = At(d, i, k) \/ new[k] \in Available(d)
      /\ \A k, l \in Offsets : new[k] = new[l] /\ new[k] # 0 => k = l
      /\ \A k \in Offsets : new[k] # 0 => new[k] \in BlockIds /\ new[k] # pb
  <2>1. /\ \A k \in Offsets : new[k] = 0 \/ new[k] = At(d, i, k) \/ new[k] \in Available(d)
        /\ \A k, l \in Offsets : new[k] = new[l] /\ new[k] # 0 => k = l
    BY DEF Rewrites
  <2> QED BY <1>1, <1>2, <2>1
<1>7. ASSUME NEW j \in Used(d) \ {i}, NEW k \in Places, At(d, j, k) # 0
      PROVE  /\ At(d, j, k) \in BlockIds /\ At(d, j, k) \in d.bitmap /\ At(d, j, k) # pb
             /\ \A l \in Offsets : At(d, i, l) # At(d, j, k) /\ new[l] # At(d, j, k)
  <2>1. At(d, j, k) \in BlockIds /\ At(d, j, k) \in d.bitmap
        /\ \A l \in Places : At(d, i, l) # At(d, j, k)
    BY <1>7, BlockAt
  <2>2. -1 \in Places /\ \A l \in Offsets : l \in Places
    BY DEF Places
  <2> QED BY <1>2, <1>6, <1>7, <2>1, <2>2
<1>8. ASSUME NEW j \in Used(d) \ {i} PROVE Same(d, g, j)
  <2>1. j \in InodeIds /\ At(d, j, -1) # 0
    BY BlockAt
  <2>2. g.inode[j] = d.inode[j]
    BY <2>1 DEF Rewrites
  <2>3. \A k \in Places : At(d, j, k) # 0 => g.block[At(d, j, k)] = d.block[At(d, j, k)]
    BY <1>1, <1>7 DEF Rewrites
  <2> QED BY <1>1, <2>1, <2>2, <2>3, SameIs
<1>9. /\ \A j \in Used(d) \ {i}, k \in Places : At(g, j, k) = At(d, j, k)
      /\ \A k \in Places : k = -1 \/ k \in Offsets
  BY <1>8 DEF Same, Places
<1>10. \A b \in BlockIds : b \in g.bitmap <=> \/ b \in d.bitmap /\ \A k \in Offsets : At(d, i, k) # b
                                              \/ \E k \in Offsets : new[k] = b
  BY DEF Rewrites
<1>11. Laid(g)
  <2>1. ASSUME NEW j \in Used(g)
        PROVE  At(g, j, -1) # 0 /\ \A k \in Places : At(g, j, k) \in g.bitmap \cup {0}
    <3>1. CASE j = i
      <4>1. pb \in g.bitmap
        BY <1>1, <1>10
      <4>2. \A k \in Offsets : new[k] \in g.bitmap \cup {0}
        BY <1>6, <1>10
      <4> QED BY <1>1, <1>4, <1>5, <1>9, <3>1, <4>1, <4>2
    <3>2. CASE j # i
      <4>1. At(d, j, -1) # 0 /\ -1 \in Places
        BY <1>3, BlockAt DEF Places
      <4> QED BY <1>3, <1>7, <1>9, <1>10, <3>2, <4>1
    <3> QED BY <3>1, <3>2
  <2>2. ASSUME NEW j \in Used(g), NEW m \in Used(g), NEW k \in Places, NEW l \in Places,
               At(g, j, k) = At(g, m, l), At(g, j, k) # 0
        PROVE  j = m /\ k = l
    <3>1. CASE j = i /\ m = i
      BY <1>4, <1>5, <1>6, <1>9, <2>2, <3>1
    <3>2. CASE j = i /\ m # i
      BY <1>3, <1>4, <1>5, <1>7, <1>9, <2>2, <3>2
    <3>3. CASE j # i /\ m = i
      BY <1>3, <1>4, <1>5, <1>7, <1>9, <2>2, <3>3
    <3>4. CASE j # i /\ m # i
      BY <1>3, <1>9, <2>2, <3>4, BlockAt
    <3> QED BY <3>1, <3>2, <3>3, <3>4
  <2>3. ASSUME NEW b \in g.bitmap PROVE \E j \in Used(g), k \in Places : At(g, j, k) = b
    <3>1. CASE \E k \in Offsets : new[k] = b
      BY <1>3, <1>5, <3>1 DEF Places
    <3>2. CASE b \in d.bitmap /\ \A k \in Offsets : At(d, i, k) # b
      <4>1. PICK j \in Used(d), k \in Places : At(d, j, k) = b
        BY <3>2 DEF Sound, Laid
      <4> QED BY <1>3, <1>4, <1>9, <3>2, <4>1
    <3> QED BY <1>2, <1>10, <3>1, <3>2
  <2> QED BY <2>1, <2>2, <2>3 DEF Laid
<1>12. Emptied(g)
  <2> SUFFICES ASSUME NEW b \in BlockIds, b \notin g.bitmap PROVE g.block[b] = EmptyBlock
    BY DEF Emptied, Available
  <2>1. b # pb /\ \A k \in Offsets : new[k] # b
    BY <1>1, <1>10
  <2>2. CASE \E k \in Offsets : At(d, i, k) = b
    BY <2>1, <2>2 DEF Rewrites
  <2>3. CASE \A k \in Offsets : At(d, i, k) # b
    <3>1. b \in Available(d)
      BY <1>2, <1>10, <2>3
    <3>2. g.block[b] = d.block[b]
      BY <1>1, <2>1, <2>3 DEF Rewrites
    <3> QED BY <3>1, <3>2 DEF Sound, Emptied
  <2> QED BY <2>2, <2>3
<1> QED BY <1>3, <1>4, <1>5, <1>8, <1>11, <1>12 DEF Sound

(* An inode x gets the available block b for its pointers.                 *)
LEMMA Created ==
  ASSUME NEW d, Sound(d), NEW g, IsDisk(g), NEW x \in InodeIds, x \notin Used(d),
         NEW b \in Available(d), g.inode[x].pointer_block = b, g.block = d.block,
         \A j \in InodeIds \ {x} : g.inode[j] = d.inode[j],
         g.inodes = d.inodes \cup {x}, g.bitmap = d.bitmap \cup {b}
  PROVE  /\ Sound(g) /\ Used(g) = Used(d) \cup {x}
         /\ At(g, x, -1) = b /\ \A k \in Offsets : At(g, x, k) = 0
         /\ \A j \in Used(d) : Same(d, g, j)
<1>1. /\ b \in BlockIds /\ b # 0 /\ b \notin d.bitmap /\ d.block[b] = EmptyBlock
      /\ IsDisk(d) /\ \A c \in BlockIds : c # 0
      /\ \A k \in Places : k = -1 \/ k \in Offsets
      /\ -1 \in Places
  BY Blocks DEF Available, Sound, Emptied, Places
<1>2. Used(g) = Used(d) \cup {x}
  BY DEF Used
<1>3. At(g, x, -1) = b /\ \A k \in Offsets : At(g, x, k) = 0
  <2>1. At(g, x, -1) = b
    BY PlacesOf
  <2>2. \A k \in Offsets : EmptyBlock[k] = 0
    BY DEF EmptyBlock
  <2> QED BY <1>1, <2>1, <2>2, PlacesOf
<1>4. ASSUME NEW j \in Used(d) PROVE Same(d, g, j)
  <2>1. j \in InodeIds /\ At(d, j, -1) # 0
    BY BlockAt
  <2> QED BY <1>1, <2>1, SameIs
<1>5. /\ \A j \in Used(d), k \in Places : At(g, j, k) = At(d, j, k)
      /\ \A j \in Used(d), k \in Places : At(d, j, k) # b
      /\ \A j \in Used(d), k \in Places : At(d, j, k) \in d.bitmap \cup {0}
  <2>1. \A j \in Used(d), k \in Places : At(g, j, k) = At(d, j, k)
    BY <1>4 DEF Same
  <2>2. \A j \in Used(d), k \in Places : At(d, j, k) \in d.bitmap \cup {0}
    BY BlockAt
  <2> QED BY <1>1, <2>1, <2>2
<1>6. Laid(g)
  <2>1. ASSUME NEW j \in Used(g)
        PROVE  At(g, j, -1) # 0 /\ \A k \in Places : At(g, j, k) \in g.bitmap \cup {0}
    <3>1. CASE j = x
      BY <1>1, <1>3, <3>1
    <3>2. CASE j \in Used(d)
      <4>1. At(d, j, -1) # 0
        BY <3>2, BlockAt
      <4> QED BY <1>1, <1>5, <3>2, <4>1
    <3> QED BY <1>2, <3>1, <3>2
  <2>2. ASSUME NEW j \in Used(g), NEW m \in Used(g), NEW k \in Places, NEW l \in Places,
               At(g, j, k) = At(g, m, l), At(g, j, k) # 0
        PROVE  j = m /\ k = l
    <3>1. CASE j = x /\ m = x
      BY <1>1, <1>3, <2>2, <3>1
    <3>2. CASE j = x /\ m \in Used(d)
      BY <1>1, <1>3, <1>5, <2>2, <3>2
    <3>3. CASE j \in Used(d) /\ m = x
      BY <1>1, <1>3, <1>5, <2>2, <3>3
    <3>4. CASE j \in Used(d) /\ m \in Used(d)
      BY <1>5, <2>2, <3>4, BlockAt
    <3> QED BY <1>2, <3>1, <3>2, <3>3, <3>4
  <2>3. ASSUME NEW c \in g.bitmap PROVE \E j \in Used(g), k \in Places : At(g, j, k) = c
    <3>1. CASE c = b
      BY <1>1, <1>2, <1>3, <3>1
    <3>2. CASE c \in d.bitmap
      <4>1. PICK j \in Used(d), k \in Places : At(d, j, k) = c
        BY <3>2 DEF Sound, Laid
      <4> QED BY <1>2, <1>5, <4>1
    <3> QED BY <3>1, <3>2
  <2> QED BY <2>1, <2>2, <2>3 DEF Laid
<1>7. Emptied(g)
  BY DEF Sound, Emptied, Available
<1> QED BY <1>2, <1>3, <1>4, <1>6, <1>7 DEF Sound

(* An inode x gives up its pointer block and all the blocks in it.         *)
LEMMA Finalized ==
  ASSUME NEW d, Sound(d), NEW g, IsDisk(g), NEW x \in Used(d), x # ROOT_INODE,
         g.inodes = d.inodes \ {x}, g.inode = d.inode,
         \A b \in BlockIds : b \in g.bitmap <=> b \in d.bitmap /\ \A k \in Places : At(d, x, k) # b,
         \A b \in BlockIds : g.block[b] = IF \E k \in Places : At(d, x, k) = b
                                          THEN EmptyBlock ELSE d.block[b]
  PROVE  /\ Sound(g) /\ Used(g) = Used(d) \ {x}
         /\ Available(g) # {}
         /\ \A j \in Used(d) \ {x} : Same(d, g, j)
<1>1. /\ IsDisk(d) /\ \A b \in BlockIds : b # 0
      /\ \A b \in g.bitmap : b \in BlockIds
      /\ \A b \in d.bitmap : b \in BlockIds
      /\ -1 \in Places /\ At(d, x, -1) # 0 /\ At(d, x, -1) \in BlockIds
  BY Blocks, Fields, BlockAt DEF Sound, Places
<1>2. Used(g) = Used(d) \ {x}
  BY DEF Used
<1>3. ASSUME NEW j \in Used(d) \ {x}, NEW k \in Places, At(d, j, k) # 0
      PROVE  /\ At(d, j, k) \in BlockIds /\ At(d, j, k) \in d.bitmap
             /\ \A l \in Places : At(d, x, l) # At(d, j, k)
  BY <1>3, BlockAt
<1>4. ASSUME NEW j \in Used(d) \ {x} PROVE Same(d, g, j)
  <2>1. j \in InodeIds /\ At(d, j, -1) # 0
    BY BlockAt
  <2>2. \A k \in Places : At(d, j, k) # 0 => g.block[At(d, j, k)] = d.block[At(d, j, k)]
    BY <1>3
  <2> QED BY <1>1, <2>1, <2>2, SameIs
<1>5. \A j \in Used(d) \ {x}, k \in Places : At(g, j, k) = At(d, j, k)
  BY <1>4 DEF Same
<1>6. Laid(g)
  <2>1. ASSUME NEW j \in Used(g)
        PROVE  At(g, j, -1) # 0 /\ \A k \in Places : At(g, j, k) \in g.bitmap \cup {0}
    <3>1. At(d, j, -1) # 0
      BY <1>2, BlockAt
    <3> QED BY <1>1, <1>2, <1>3, <1>5, <3>1
  <2>2. ASSUME NEW j \in Used(g), NEW m \in Used(g), NEW k \in Places, NEW l \in Places,
               At(g, j, k) = At(g, m, l), At(g, j, k) # 0
        PROVE  j = m /\ k = l
    BY <1>2, <1>5, <2>2, BlockAt
  <2>3. ASSUME NEW c \in g.bitmap PROVE \E j \in Used(g), k \in Places : At(g, j, k) = c
    <3>1. c \in BlockIds /\ c \in d.bitmap /\ \A k \in Places : At(d, x, k) # c
      BY <1>1
    <3>2. PICK j \in Used(d), k \in Places : At(d, j, k) = c
      BY <3>1 DEF Sound, Laid
    <3> QED BY <1>2, <1>5, <3>1, <3>2
  <2> QED BY <2>1, <2>2, <2>3 DEF Laid
<1>7. Emptied(g)
  BY DEF Sound, Emptied, Available
<1>8. At(d, x, -1) \in Available(g)
  BY <1>1 DEF Available
<1> QED BY <1>2, <1>4, <1>6, <1>7, <1>8 DEF Sound

-----------------------------------------------------------------------------
(* The routines.                                                           *)

(* All that writing words to the blocks id changes.                        *)
Stores(d, g, S, id, words) ==
  /\ g.bitmap = d.bitmap /\ g.inodes = d.inodes /\ g.inode = d.inode
  /\ \A k \in S : g.block[id[k]] = words[k]
  /\ \A b \in BlockIds : (\A k \in S : id[k] # b) => g.block[b] = d.block[b]

LEMMA ManyWritten ==
  ASSUME NEW d, IsDisk(d), NEW S, \A k \in S : k \in Nat, NEW id \in [S -> BlockIds],
         \A k, l \in S : id[k] = id[l] => k = l, NEW words \in [S -> [Offsets -> Nat]],
         NEW g, g = block_write_many(d, id, words)
  PROVE  IsDisk(g) /\ Stores(d, g, S, id, words)
<1> DEFINE Newest(b)  == CHOOSE i \in DOMAIN id : /\ id[i] = b
                                                  /\ \A j \in DOMAIN id : j > i => id[j] # b
           written(b) == \E i \in DOMAIN id : id[i] = b
           block      == [b \in DOMAIN d.block |-> IF written(b) THEN words[Newest(b)] ELSE d.block[b]]
<1>1. d.block \in [BlockIds -> [Offsets -> Nat]] /\ 0 \notin BlockIds
  BY Fields
<1>2. ASSUME NEW k \in S PROVE Newest(id[k]) = k /\ written(id[k])
  <2>1. \A j \in DOMAIN id : j > k => id[j] # id[k]
    OBVIOUS
  <2>2. \E i \in DOMAIN id : id[i] = id[k] /\ \A j \in DOMAIN id : j > i => id[j] # id[k]
    BY <2>1
  <2>3. Newest(id[k]) \in S /\ id[Newest(id[k])] = id[k]
    BY <2>2
  <2> QED BY <2>3
<1>3. ~ written(0)
  BY <1>1
<1>4. /\ \A b \in BlockIds : block[b] = IF written(b) THEN words[Newest(b)] ELSE d.block[b]
      /\ DOMAIN block = BlockIds /\ block = [b \in BlockIds |-> block[b]]
  BY <1>1
<1>5. g = [d EXCEPT !.block = block, !.bitmap = d.bitmap]
  BY <1>3 DEF block_write_many
<1> HIDE DEF block
<1>6. d = [bitmap |-> d.bitmap, inodes |-> d.inodes, block |-> d.block, inode |-> d.inode]
  BY DEF IsDisk
<1>7. /\ g = [bitmap |-> d.bitmap, inodes |-> d.inodes, block |-> block, inode |-> d.inode]
      /\ g.bitmap = d.bitmap /\ g.inodes = d.inodes /\ g.inode = d.inode /\ g.block = block
  BY <1>5, <1>6
<1>8. \A b \in BlockIds : written(b) => \E k \in S : b = id[k] /\ Newest(b) = k
  BY <1>2
<1> HIDE DEF Newest
<1>9. \A b \in BlockIds : block[b] \in [Offsets -> Nat]
  BY <1>1, <1>4, <1>8
<1>10. block \in [BlockIds -> [Offsets -> Nat]]
  BY <1>4, <1>9
<1>11. IsDisk(g)
  BY <1>7, <1>10 DEF IsDisk
<1>12. \A k \in S : g.block[id[k]] = words[k]
  BY <1>2, <1>4, <1>7
<1>13. \A b \in BlockIds : (\A k \in S : id[k] # b) => g.block[b] = d.block[b]
  BY <1>4, <1>7
<1> QED BY <1>7, <1>11, <1>12, <1>13 DEF Stores

LEMMA Written ==
  ASSUME NEW d, IsDisk(d), NEW b \in BlockIds, NEW words \in [Offsets -> Nat],
         NEW g, g = block_write(d, b, words)
  PROVE  /\ IsDisk(g) /\ g.bitmap = d.bitmap /\ g.inodes = d.inodes /\ g.inode = d.inode
         /\ g.block[b] = words
         /\ \A c \in BlockIds : c # b => g.block[c] = d.block[c]
<1> DEFINE S  == {0}
           id == [i \in S |-> b]
           to == [i \in S |-> words]
<1>1. /\ id \in [S -> BlockIds] /\ to \in [S -> [Offsets -> Nat]]
      /\ 0 \in S /\ id[0] = b /\ to[0] = words
      /\ \A k \in S : id[k] = b
      /\ \A k, l \in S : id[k] = id[l] => k = l
      /\ \A k \in S : k \in Nat
  OBVIOUS
<1>2. g = block_write_many(d, id, to)
  BY DEF block_write
<1> HIDE DEF S, id, to
<1>3. IsDisk(g) /\ Stores(d, g, S, id, to)
  BY <1>1, <1>2, ManyWritten
<1> QED BY <1>1, <1>3 DEF Stores

LEMMA Marked ==
  ASSUME NEW d, IsDisk(d), NEW ids, ids \subseteq BlockIds, NEW g, g = Mark(d, ids)
  PROVE  /\ IsDisk(g) /\ g.bitmap = d.bitmap \cup ids /\ g.inodes = d.inodes
         /\ g.inode = d.inode /\ g.block = d.block
<1>1. d = [bitmap |-> d.bitmap, inodes |-> d.inodes, block |-> d.block, inode |-> d.inode]
  BY DEF IsDisk
<1>2. g = [bitmap |-> d.bitmap \cup ids, inodes |-> d.inodes, block |-> d.block, inode |-> d.inode]
  BY <1>1 DEF Mark
<1>3. /\ g.bitmap = d.bitmap \cup ids /\ g.inodes = d.inodes
      /\ g.inode = d.inode /\ g.block = d.block
  BY <1>2
<1>4. g = [bitmap |-> g.bitmap, inodes |-> g.inodes, block |-> g.block, inode |-> g.inode]
  BY <1>2, <1>3
<1> QED BY <1>3, <1>4 DEF IsDisk

LEMMA Deleted ==
  ASSUME NEW d, IsDisk(d), NEW ids, NEW g, g = block_delete(d, ids)
  PROVE  /\ IsDisk(g) /\ g.bitmap = d.bitmap \ ids /\ g.inodes = d.inodes
         /\ g.inode = d.inode
         /\ \A b \in BlockIds : g.block[b] = IF b \in ids THEN EmptyBlock ELSE d.block[b]
<1> DEFINE block == [b \in BlockIds |-> IF b \in ids THEN EmptyBlock ELSE d.block[b]]
<1>1. d = [bitmap |-> d.bitmap, inodes |-> d.inodes, block |-> d.block, inode |-> d.inode]
  BY DEF IsDisk
<1>2. d.block \in [BlockIds -> [Offsets -> Nat]]
  BY Fields
<1>3. block \in [BlockIds -> [Offsets -> Nat]]
  BY <1>2 DEF EmptyBlock
<1>4. \A b \in BlockIds : block[b] = IF b \in ids THEN EmptyBlock ELSE d.block[b]
  OBVIOUS
<1>5. g = [d EXCEPT !.bitmap = d.bitmap \ ids, !.block = block]
  BY <1>2 DEF block_delete
<1> HIDE DEF block
<1>6. g = [bitmap |-> d.bitmap \ ids, inodes |-> d.inodes, block |-> block, inode |-> d.inode]
  BY <1>1, <1>5
<1>7. g.bitmap = d.bitmap \ ids /\ g.inodes = d.inodes /\ g.inode = d.inode /\ g.block = block
  BY <1>6
<1>8. g = [bitmap |-> g.bitmap, inodes |-> g.inodes, block |-> g.block, inode |-> g.inode]
  BY <1>6, <1>7
<1>9. IsDisk(g)
  BY <1>3, <1>7, <1>8 DEF IsDisk
<1> QED BY <1>4, <1>7, <1>9

LEMMA InodeWritten ==
  ASSUME NEW d, IsDisk(d), NEW i \in InodeIds, NEW in \in Inode, NEW g, g = inode_write(d, i, in)
  PROVE  /\ IsDisk(g) /\ g.bitmap = d.bitmap /\ g.inodes = d.inodes /\ g.block = d.block
         /\ g.inode[i] = in /\ \A j \in InodeIds \ {i} : g.inode[j] = d.inode[j]
<1>1. d = [bitmap |-> d.bitmap, inodes |-> d.inodes, block |-> d.block, inode |-> d.inode]
  BY DEF IsDisk
<1>2. d.inode \in [InodeIds -> Inode]
  BY Fields
<1> DEFINE inode == [d.inode EXCEPT ![i] = in]
<1>3. inode \in [InodeIds -> Inode] /\ inode[i] = in /\ \A j \in InodeIds \ {i} : inode[j] = d.inode[j]
  BY <1>2
<1>4. g = [d EXCEPT !.inode = inode]
  BY DEF inode_write
<1> HIDE DEF inode
<1>5. g = [bitmap |-> d.bitmap, inodes |-> d.inodes, block |-> d.block, inode |-> inode]
  BY <1>1, <1>4
<1>6. g.bitmap = d.bitmap /\ g.inodes = d.inodes /\ g.block = d.block /\ g.inode = inode
  BY <1>5
<1>7. g = [bitmap |-> g.bitmap, inodes |-> g.inodes, block |-> g.block, inode |-> g.inode]
  BY <1>5, <1>6
<1>8. IsDisk(g)
  BY <1>3, <1>6, <1>7 DEF IsDisk
<1> QED BY <1>3, <1>6, <1>8

WithInodes(d, S) == [d EXCEPT !.inodes = S]

LEMMA InodesSet ==
  ASSUME NEW d, IsDisk(d), NEW S, S \subseteq InodeIds \ {ROOT_INODE}, NEW g, g = WithInodes(d, S)
  PROVE  /\ IsDisk(g) /\ g.bitmap = d.bitmap /\ g.inodes = S
         /\ g.inode = d.inode /\ g.block = d.block
<1>1. d = [bitmap |-> d.bitmap, inodes |-> d.inodes, block |-> d.block, inode |-> d.inode]
  BY DEF IsDisk
<1>2. g = [bitmap |-> d.bitmap, inodes |-> S, block |-> d.block, inode |-> d.inode]
  BY <1>1 DEF WithInodes
<1>3. g.bitmap = d.bitmap /\ g.inodes = S /\ g.inode = d.inode /\ g.block = d.block
  BY <1>2
<1>4. g = [bitmap |-> g.bitmap, inodes |-> g.inodes, block |-> g.block, inode |-> g.inode]
  BY <1>2, <1>3
<1> QED BY <1>3, <1>4 DEF IsDisk

(* Writing inode i with another size leaves all blocks where they are.     *)
LEMMA Resized ==
  ASSUME NEW d, Sound(d), NEW i \in Used(d), NEW in \in Inode,
         in.pointer_block = d.inode[i].pointer_block, NEW g, g = inode_write(d, i, in)
  PROVE  /\ Sound(g) /\ g.inodes = d.inodes /\ Used(g) = Used(d) /\ g.inode[i] = in
         /\ g.bitmap = d.bitmap /\ g.block = d.block
         /\ \A k \in Places : At(g, i, k) = At(d, i, k)
         /\ \A j \in Used(d) \ {i} : Same(d, g, j)
<1>1. i \in InodeIds /\ IsDisk(d) /\ At(d, i, -1) # 0 /\ d.inode[i].pointer_block = At(d, i, -1)
      /\ At(d, i, -1) \in BlockIds
  BY BlockAt DEF Sound, Places
<1>2. /\ IsDisk(g) /\ g.bitmap = d.bitmap /\ g.inodes = d.inodes /\ g.block = d.block
      /\ g.inode[i] = in /\ \A j \in InodeIds \ {i} : g.inode[j] = d.inode[j]
  BY <1>1, InodeWritten
<1> DEFINE ids == Pointers(d, d.inode[i])
<1>3. ids \in [Offsets -> Nat] /\ ids = d.block[d.inode[i].pointer_block]
      /\ \A k \in Offsets : At(d, i, k) = ids[k] /\ k \in Places
  BY <1>1, PlacesOf DEF Places
<1> HIDE DEF ids
<1>4. /\ \A k, l \in Offsets : ids[k] = ids[l] /\ ids[k] # 0 => k = l
      /\ \A b \in BlockIds : (\E k \in Offsets : ids[k] = b) => b \in d.bitmap
      /\ \A b \in BlockIds : b # 0
  BY <1>3, BlockAt, Blocks
<1>5. Rewrites(d, g, i, ids)
  BY <1>1, <1>2, <1>3, <1>4 DEF Rewrites
<1>6. /\ Sound(g) /\ Used(g) = Used(d)
      /\ At(g, i, -1) = At(d, i, -1) /\ \A k \in Offsets : At(g, i, k) = ids[k]
      /\ \A j \in Used(d) \ {i} : Same(d, g, j)
  BY <1>2, <1>5, Rewritten
<1> QED BY <1>2, <1>3, <1>6 DEF Places

-----------------------------------------------------------------------------
(* Directories.                                                            *)

Entry == [name : Nat, inode_id : Nat]

(* The blocks of inode i are at its first n places.                        *)
Full(d, i, n) == \A k \in Offsets : At(d, i, k) # 0 <=> k < n

LEMMA WordsOf ==
  ASSUME NEW n \in Nat, NEW entries \in [1 .. n -> Entry], NEW k \in Nat
  PROVE  EntryWords(entries, k) \in [Offsets -> Nat]
<1>1. ASSUME NEW w \in Offsets PROVE EntryWords(entries, k)[w] \in Nat
  <2> DEFINE e == (k * BlockSize + w) \div EntrySize + 1
  <2>1. \A f \in 1 .. n : entries[f].name \in Nat /\ entries[f].inode_id \in Nat
    BY DEF Entry
  <2>2. DOMAIN entries = 1 .. n
    OBVIOUS
  <2>3. EntryWords(entries, k)[w] =
          IF e \notin DOMAIN entries THEN 0
          ELSE IF (k * BlockSize + w) % EntrySize = 0 THEN entries[e].name
          ELSE entries[e].inode_id
    BY DEF EntryWords
  <2> HIDE DEF e
  <2> QED BY <2>1, <2>2, <2>3
<1>2. EntryWords(entries, k) = [w \in Offsets |-> EntryWords(entries, k)[w]]
  BY DEF EntryWords
<1> QED BY <1>1, <1>2

LEMMA EntriesWritten ==
  ASSUME NEW d, Sound(d), NEW i \in Used(d), NEW in \in Inode,
         in.pointer_block = d.inode[i].pointer_block,
         NEW m \in 0 .. BlockSize, Full(d, i, m),
         NEW c \in 0 .. m, c = block_count_from_size(in.size),
         NEW n \in Nat, NEW entries \in [1 .. n -> Entry],
         NEW g, g = entries_write(d, in, entries)
  PROVE  /\ IsDisk(g) /\ g.inode = d.inode
         /\ Rewrites(d, g, i, [k \in Offsets |-> IF k < c THEN At(d, i, k) ELSE 0])
         /\ \A k \in Offsets : k < c => g.block[At(d, i, k)] = EntryWords(entries, k)
<1> DEFINE pb      == d.inode[i].pointer_block
           ids     == Pointers(d, in)
           used    == 0 .. (c - 1)
           surplus == Surplus(ids, c)
           dropped == {ids[k] : k \in surplus}
           new     == [k \in Offsets |-> IF k < c THEN ids[k] ELSE 0]
           idof    == [k \in used |-> ids[k]]
           words   == [k \in used |-> EntryWords(entries, k)]
           filled  == block_write_many(d, idof, words)
           deleted == block_delete(filled, dropped)
<1>1. /\ i \in InodeIds /\ IsDisk(d) /\ pb # 0 /\ pb = At(d, i, -1) /\ pb \in BlockIds
      /\ pb \in d.bitmap
  BY BlockAt DEF Sound, Places
<1>2. ids \in [Offsets -> Nat] /\ \A k \in Offsets : At(d, i, k) = ids[k] /\ k \in Places /\ k # -1
  <2>1. ids = Pointers(d, d.inode[i])
    BY DEF Pointers
  <2> QED BY <1>1, <2>1, PlacesOf DEF Places
<1> HIDE DEF pb, ids
<1>3. /\ \A k \in Offsets : k \in Nat /\ (ids[k] # 0 <=> k < m)
      /\ \A k \in Offsets : k < m => ids[k] \in BlockIds /\ ids[k] \in d.bitmap /\ ids[k] # pb
      /\ \A k, l \in Offsets : ids[k] = ids[l] /\ ids[k] # 0 => k = l
      /\ \A k \in used : k \in Offsets /\ k \in Nat /\ k < c /\ k < m
      /\ \A k \in Offsets : k < c <=> k \in used
  <2>1. /\ \A k \in Offsets : k \in Nat
        /\ \A k \in used : k \in Offsets /\ k \in Nat /\ k < c /\ k < m
        /\ \A k \in Offsets : k < c <=> k \in used
    BY BlockSizeAssumption DEF Offsets
  <2>2. \A k \in Offsets : ids[k] # 0 <=> k < m
    BY <1>2 DEF Full
  <2>3. -1 \in Places
    BY DEF Places
  <2>4. /\ \A k \in Offsets : k < m => ids[k] \in BlockIds /\ ids[k] \in d.bitmap /\ ids[k] # pb
        /\ \A k, l \in Offsets : ids[k] = ids[l] /\ ids[k] # 0 => k = l
    BY <1>1, <1>2, <2>2, <2>3, BlockAt
  <2> QED BY <2>1, <2>2, <2>4
<1>4. \A k \in Offsets : k \in surplus <=> k >= c /\ k < m
  <2>1. ASSUME NEW k \in Offsets, k \in surplus PROVE k >= c /\ k < m
    <3>1. k >= c /\ \A j \in c .. k : ids[j] # 0
      BY <2>1 DEF Surplus
    <3>2. k \in c .. k
      BY <1>3, <3>1
    <3> QED BY <1>3, <3>1, <3>2
  <2>2. ASSUME NEW k \in Offsets, k >= c, k < m PROVE k \in surplus
    <3>1. \A j \in c .. k : j \in Offsets /\ j < m
      BY <2>2, BlockSizeAssumption DEF Offsets
    <3> QED BY <1>3, <2>2, <3>1 DEF Surplus
  <2> QED BY <2>1, <2>2
<1>5. surplus \subseteq Offsets
  BY DEF Surplus
<1> HIDE DEF surplus
<1>6. /\ idof \in [used -> BlockIds] /\ words \in [used -> [Offsets -> Nat]]
      /\ \A k, l \in used : idof[k] = idof[l] => k = l
      /\ \A k \in used : k \in Nat /\ idof[k] = ids[k] /\ words[k] = EntryWords(entries, k)
  <2>1. \A k \in used : ids[k] \in BlockIds /\ ids[k] # 0
    BY <1>3
  <2>2. \A k \in used : EntryWords(entries, k) \in [Offsets -> Nat]
    BY <1>3, WordsOf
  <2> QED BY <1>3, <2>1, <2>2
<1> HIDE DEF used, idof, words
<1>7. IsDisk(filled) /\ Stores(d, filled, used, idof, words)
  BY <1>1, <1>6, ManyWritten
<1> HIDE DEF filled
<1>8. /\ IsDisk(deleted) /\ deleted.bitmap = filled.bitmap \ dropped /\ deleted.inodes = filled.inodes
      /\ deleted.inode = filled.inode
      /\ \A b \in BlockIds : deleted.block[b] = IF b \in dropped THEN EmptyBlock ELSE filled.block[b]
  BY <1>7, Deleted
<1> HIDE DEF deleted
<1>9. g = block_write(deleted, pb, new)
  <2>1. new = [k \in Offsets |-> IF k \in surplus THEN 0 ELSE ids[k]]
    BY <1>3, <1>4
  <2>2. g = block_write(deleted, pb, [k \in Offsets |-> IF k \in surplus THEN 0 ELSE ids[k]])
    BY DEF entries_write, ids, used, surplus, filled, deleted, dropped, idof, words, pb
  <2> QED BY <2>1, <2>2
<1>10. new \in [Offsets -> Nat] /\ \A k \in Offsets : new[k] = IF k < c THEN ids[k] ELSE 0
  BY <1>2
<1> HIDE DEF new
<1>11. /\ IsDisk(g) /\ g.bitmap = deleted.bitmap /\ g.inodes = deleted.inodes /\ g.inode = deleted.inode
       /\ g.block[pb] = new
       /\ \A b \in BlockIds : b # pb => g.block[b] = deleted.block[b]
  BY <1>1, <1>8, <1>9, <1>10, Written
<1>12. \A b : b \in dropped <=> \E k \in Offsets : k >= c /\ k < m /\ ids[k] = b
  BY <1>4, <1>5
<1> HIDE DEF dropped
<1>13. /\ g.inodes = d.inodes /\ g.inode = d.inode /\ g.bitmap = d.bitmap \ dropped
  BY <1>7, <1>8, <1>11 DEF Stores
<1>14. \A k \in Offsets : k < c => g.block[ids[k]] = EntryWords(entries, k)
  <2> TAKE k \in Offsets
  <2> HAVE k < c
  <2>1. k \in used /\ ids[k] \in BlockIds /\ ids[k] # pb /\ ids[k] # 0 /\ c \in Nat
    BY <1>3
  <2>2. filled.block[ids[k]] = EntryWords(entries, k)
    BY <1>6, <1>7, <2>1 DEF Stores
  <2>3. ids[k] \notin dropped
    BY <1>3, <1>12, <2>1
  <2> QED BY <1>8, <1>11, <2>1, <2>2, <2>3
<1>15. \A b \in BlockIds : b # pb /\ (\A k \in Offsets : ids[k] # b) => g.block[b] = d.block[b]
  <2> TAKE b \in BlockIds
  <2> HAVE b # pb /\ \A k \in Offsets : ids[k] # b
  <2>1. filled.block[b] = d.block[b]
    BY <1>3, <1>6, <1>7 DEF Stores
  <2> QED BY <1>8, <1>11, <1>12, <2>1
<1>16. \A b \in BlockIds : (\E k \in Offsets : ids[k] = b) /\ (\A k \in Offsets : new[k] # b)
                              => g.block[b] = EmptyBlock /\ b \in dropped /\ b # pb
  <2> TAKE b \in BlockIds
  <2> HAVE (\E k \in Offsets : ids[k] = b) /\ (\A k \in Offsets : new[k] # b)
  <2>1. PICK k \in Offsets : ids[k] = b
    OBVIOUS
  <2>2. b # 0
    BY Blocks
  <2>3. ~ k < c /\ k < m /\ b # pb
    BY <1>3, <1>10, <2>1, <2>2
  <2>4. b \in dropped
    BY <1>3, <1>12, <2>1, <2>3
  <2> QED BY <1>8, <1>11, <2>3, <2>4
<1>17. \A b \in BlockIds : b \in g.bitmap <=> \/ b \in d.bitmap /\ \A k \in Offsets : ids[k] # b
                                              \/ \E k \in Offsets : new[k] = b
  <2> TAKE b \in BlockIds
  <2>1. b # 0 /\ c \in Nat /\ m \in Nat
    BY Blocks
  <2>2. ASSUME b \in g.bitmap, NEW k \in Offsets, ids[k] = b PROVE new[k] = b
    <3>1. b \notin dropped /\ k < m
      BY <1>3, <1>13, <2>1, <2>2
    <3> QED BY <1>3, <1>10, <1>12, <2>1, <2>2, <3>1
  <2>3. ASSUME NEW k \in Offsets, new[k] = b PROVE b \in g.bitmap
    <3>1. k < c /\ ids[k] = b /\ b \in d.bitmap
      BY <1>3, <1>10, <2>1, <2>3
    <3>2. b \notin dropped
      BY <1>3, <1>12, <2>1, <3>1
    <3> QED BY <1>13, <3>1, <3>2
  <2>4. (\A k \in Offsets : ids[k] # b) => b \notin dropped
    BY <1>12
  <2> QED BY <1>13, <2>2, <2>3, <2>4
<1>18. /\ \A k, l \in Offsets : new[k] = new[l] /\ new[k] # 0 => k = l
       /\ \A k \in Offsets : new[k] = 0 \/ new[k] = ids[k]
  BY <1>3, <1>10
<1>19. Rewrites(d, g, i, new)
  <2>1. g.inode[i].pointer_block = pb /\ g.block[pb] = new
    BY <1>11, <1>13 DEF pb
  <2>2. \A b \in BlockIds : b # pb /\ (\A k \in Offsets : At(d, i, k) # b /\ new[k] # b)
                              => g.block[b] = d.block[b]
    BY <1>2, <1>15
  <2>3. \A b \in BlockIds : (\E k \in Offsets : At(d, i, k) = b) /\ (\A k \in Offsets : new[k] # b)
                              => g.block[b] = EmptyBlock
    BY <1>2, <1>16
  <2>4. \A b \in BlockIds : b \in g.bitmap <=> \/ b \in d.bitmap /\ \A k \in Offsets : At(d, i, k) # b
                                               \/ \E k \in Offsets : new[k] = b
    BY <1>2, <1>17
  <2>5. \A k \in Offsets : new[k] = 0 \/ new[k] = At(d, i, k) \/ new[k] \in Available(d)
    BY <1>2, <1>18
  <2> QED BY <1>10, <1>13, <1>18, <2>1, <2>2, <2>3, <2>4, <2>5 DEF Rewrites, pb
<1>20. new = [k \in Offsets |-> IF k < c THEN At(d, i, k) ELSE 0]
  BY <1>2 DEF new
<1> QED BY <1>2, <1>11, <1>13, <1>14, <1>19, <1>20

LEMMA WordOf ==
  ASSUME NEW d, IsDisk(d), NEW i \in InodeIds, At(d, i, -1) # 0,
         d.inode[i].size <= BlockSize * BlockSize,
         NEW n \in Nat, n < d.inode[i].size
  PROVE  /\ n \div BlockSize \in Offsets /\ n % BlockSize \in Offsets
         /\ n \div BlockSize < block_count_from_size(d.inode[i].size)
         /\ At(d, i, n \div BlockSize) # 0 =>
              WordAt(d, d.inode[i], n) = d.block[At(d, i, n \div BlockSize)][n % BlockSize]
<1> DEFINE q == n \div BlockSize
           r == n % BlockSize
           size == d.inode[i].size
           c == block_count_from_size(size)
<1>1. size \in Nat
  BY Fields DEF Inode
<1>2. q \in Nat /\ r \in Offsets /\ q < c
  BY <1>1, PlaceOf
<1>3. c \in Nat /\ c <= BlockSize
  BY <1>1, Count, CountFits
<1>4. q \in Offsets
  <2> HIDE DEF q, c
  <2> QED BY <1>2, <1>3, BlockSizeAssumption DEF Offsets
<1>5. ASSUME At(d, i, q) # 0
      PROVE  WordAt(d, d.inode[i], n) = d.block[At(d, i, q)][r]
  <2>1. At(d, i, q) = Pointers(d, d.inode[i])[q]
    BY <1>4, PlacesOf
  <2>2. WordAt(d, d.inode[i], n) = block_read(d, At(d, i, q))[r]
    BY <2>1 DEF WordAt
  <2> HIDE DEF q
  <2> QED BY <1>5, <2>2 DEF block_read
<1> QED BY <1>2, <1>4, <1>5

LEMMA EntriesRead ==
  ASSUME NEW d, IsDisk(d), NEW i \in InodeIds, At(d, i, -1) # 0,
         d.inode[i].size <= BlockSize * BlockSize,
         NEW n \in Nat, d.inode[i].size = EntrySize * n, NEW entries \in [1 .. n -> Entry],
         \A k \in Offsets : k < block_count_from_size(d.inode[i].size) =>
           At(d, i, k) # 0 /\ d.block[At(d, i, k)] = EntryWords(entries, k)
  PROVE  entries_read(d, d.inode[i]) = entries
<1> DEFINE in == d.inode[i]
<1>1. entries_count(in) = n
  BY DEF entries_count, EntrySize
<1>2. ASSUME NEW m \in Nat, m < in.size
      PROVE  WordAt(d, in, m) = LET e == m \div EntrySize + 1
                                IN  IF e \notin DOMAIN entries THEN 0
                                    ELSE IF m % EntrySize = 0 THEN entries[e].name
                                    ELSE entries[e].inode_id
  <2> DEFINE q == m \div BlockSize
             r == m % BlockSize
  <2>1. /\ q \in Offsets /\ r \in Offsets /\ q < block_count_from_size(in.size)
        /\ At(d, i, q) # 0 => WordAt(d, in, m) = d.block[At(d, i, q)][r]
    BY <1>2, WordOf
  <2>2. m = q * BlockSize + r
    BY PlaceOf
  <2> HIDE DEF q, r
  <2>3. WordAt(d, in, m) = EntryWords(entries, q)[r]
    BY <2>1
  <2> QED BY <2>1, <2>2, <2>3 DEF EntryWords
<1>3. ASSUME NEW e \in 1 .. n
      PROVE  /\ WordAt(d, in, EntrySize * (e - 1)) = entries[e].name
             /\ WordAt(d, in, EntrySize * (e - 1) + 1) = entries[e].inode_id
             /\ entries[e] = [name |-> entries[e].name, inode_id |-> entries[e].inode_id]
  <2> DEFINE m == EntrySize * (e - 1)
  <2>1. /\ m \in Nat /\ m < in.size /\ m \div EntrySize = e - 1 /\ m % EntrySize = 0
        /\ m + 1 \in Nat /\ m + 1 < in.size /\ (m + 1) \div EntrySize = e - 1
        /\ (m + 1) % EntrySize # 0
        /\ e - 1 + 1 = e /\ e \in DOMAIN entries
    <3>1. in.size = 2 * n /\ m = 2 * (e - 1) /\ EntrySize = 2 /\ e \in Nat /\ e >= 1 /\ e <= n
      BY DEF EntrySize
    <3>2. e \in DOMAIN entries
      OBVIOUS
    <3> HIDE DEF m, in
    <3>3. m \in Nat /\ m + 1 \in Nat /\ e - 1 + 1 = e
      BY <3>1
    <3>4. m < in.size /\ m + 1 < in.size
      BY <3>1
    <3>5. m \div 2 = e - 1 /\ m % 2 = 0 /\ (m + 1) \div 2 = e - 1 /\ (m + 1) % 2 # 0
      BY <3>1
    <3> QED BY <3>1, <3>2, <3>3, <3>4, <3>5
  <2> HIDE DEF m, in
  <2>2. WordAt(d, in, m) = entries[e].name
    BY <1>2, <2>1
  <2>3. WordAt(d, in, m + 1) = entries[e].inode_id
    BY <1>2, <2>1
  <2>4. entries[e] \in Entry
    OBVIOUS
  <2>5. entries[e] = [name |-> entries[e].name, inode_id |-> entries[e].inode_id]
    BY <2>4 DEF Entry
  <2> QED BY <2>2, <2>3, <2>5 DEF m
<1>4. entries_read(d, in) = [e \in 1 .. n |-> entries[e]]
  BY <1>1, <1>3 DEF entries_read
<1> QED BY <1>4

LEMMA EntriesSame ==
  ASSUME NEW d, IsDisk(d), NEW g, IsDisk(g), NEW i \in InodeIds, At(d, i, -1) # 0, Same(d, g, i),
         d.inode[i].size <= BlockSize * BlockSize,
         Full(d, i, block_count_from_size(d.inode[i].size))
  PROVE  entries_read(g, g.inode[i]) = entries_read(d, d.inode[i])
<1> DEFINE in == d.inode[i]
           n  == entries_count(in)
<1>1. /\ g.inode[i] = in /\ in.size \in Nat
      /\ \A k \in Places : /\ At(g, i, k) = At(d, i, k)
                           /\ At(d, i, k) # 0 => g.block[At(d, i, k)] = d.block[At(d, i, k)]
  BY Fields DEF Same, Inode
<1>2. \A k \in Offsets : k \in Places
  BY DEF Places
<1>3. ASSUME NEW m \in Nat, m < in.size PROVE WordAt(g, in, m) = WordAt(d, in, m)
  <2> DEFINE q == m \div BlockSize
             r == m % BlockSize
  <2>1. /\ q \in Offsets /\ q < block_count_from_size(in.size)
        /\ At(d, i, q) # 0 => WordAt(d, in, m) = d.block[At(d, i, q)][r]
    BY <1>3, WordOf
  <2>2. At(g, i, -1) # 0 /\ -1 \in Places
    BY <1>1 DEF Places
  <2>3. At(g, i, q) # 0 => WordAt(g, in, m) = g.block[At(g, i, q)][r]
    BY <1>1, <1>3, <2>2, WordOf
  <2> HIDE DEF q, r
  <2>4. At(d, i, q) # 0
    BY <2>1 DEF Full
  <2> QED BY <1>1, <1>2, <2>1, <2>3, <2>4
<1>4. ASSUME NEW e \in 1 .. n
      PROVE  /\ EntrySize * (e - 1) \in Nat /\ EntrySize * (e - 1) < in.size
             /\ EntrySize * (e - 1) + 1 \in Nat /\ EntrySize * (e - 1) + 1 < in.size
  BY <1>1 DEF entries_count, EntrySize
<1> HIDE DEF in
<1>5. \A e \in 1 .. n : /\ WordAt(g, in, EntrySize * (e - 1)) = WordAt(d, in, EntrySize * (e - 1))
                        /\ WordAt(g, in, EntrySize * (e - 1) + 1) = WordAt(d, in, EntrySize * (e - 1) + 1)
  BY <1>3, <1>4
<1>6. entries_read(g, in) = entries_read(d, in)
  BY <1>5 DEF entries_read
<1> QED BY <1>1, <1>6 DEF in

LEMMA OneNew ==
  ASSUME NEW d, block_seek(d, 1)
  PROVE  /\ NewBlock(d, 0) \in Available(d) /\ NewBlock(d, 0) \in BlockIds /\ NewBlock(d, 0) # 0
         /\ NewBlocks(d, 1) = {NewBlock(d, 0)}
<1>1. /\ \A k \in 0 .. (1 - 1) : NewBlock(d, k) \in Available(d)
      /\ NewBlocks(d, 1) = {NewBlock(d, k) : k \in 0 .. (1 - 1)}
  BY NewBlockIs
<1>2. 0 .. (1 - 1) = {0}
  OBVIOUS
<1> QED BY <1>1, <1>2, AvailableFinite

LEMMA Extended ==
  ASSUME NEW d, Sound(d), NEW i \in Used(d), NEW in, in = d.inode[i],
         in.size + 1 <= BlockSize * BlockSize,
         Full(d, i, block_count_from_size(in.size)),
         block_seek(d, ExtendsBy(in)),
         NEW g, g = entries_extend(d, in)
  PROVE  /\ Sound(g) /\ g.inodes = d.inodes /\ g.inode = d.inode /\ Used(g) = Used(d)
         /\ Full(g, i, block_count_from_size(in.size + 1))
         /\ \A j \in Used(d) \ {i} : Same(d, g, j)
         /\ block_seek(d, 2) => block_seek(g, 1)
<1> DEFINE c == block_count_from_size(in.size)
           e == block_count_from_size(in.size + 1)
<1>1. /\ i \in InodeIds /\ in.size \in Nat /\ c \in Nat /\ e \in Nat /\ e <= BlockSize
      /\ e - c \in {0, 1} /\ ExtendsBy(in) = e - c
  <2>1. i \in InodeIds /\ in.size \in Nat
    BY BlockAt, Fields DEF Sound, Inode
  <2> QED BY <2>1, Count, CountNext, CountFits DEF ExtendsBy
<1>2. CASE e - c = 0
  <2>1. g = d /\ e = c
    BY <1>1, <1>2 DEF entries_extend
  <2>2. \A j \in Used(d) : Same(d, d, j)
    BY DEF Same
  <2>3. block_seek(d, 2) => block_seek(d, 1)
    BY AvailableFinite DEF block_seek
  <2> QED BY <2>1, <2>2, <2>3
<1>3. CASE e - c = 1
  <2> DEFINE b   == NewBlock(d, 0)
             pb  == in.pointer_block
             ids == Pointers(d, in)
             new == [ids EXCEPT ![e - 1] = b]
             h   == block_new(d)
  <2>1. /\ b \in Available(d) /\ b \in BlockIds /\ b # 0 /\ b \notin d.bitmap
        /\ NewBlocks(d, 1) = {b}
    BY <1>1, <1>3, OneNew DEF Available
  <2>2. /\ IsDisk(d) /\ pb # 0 /\ pb = At(d, i, -1) /\ pb \in BlockIds /\ pb \in d.bitmap
        /\ ids \in [Offsets -> Nat]
        /\ \A k \in Offsets : At(d, i, k) = ids[k] /\ k \in Places /\ k # -1
    BY BlockAt, PlacesOf DEF Sound, Places
  <2>3. /\ e - 1 = c /\ c \in Offsets
        /\ \A k \in Offsets : k \in Nat /\ (ids[k] # 0 <=> k < c)
    <3>1. e - 1 = c /\ c \in Offsets /\ \A k \in Offsets : k \in Nat
      BY <1>1, <1>3, BlockSizeAssumption DEF Offsets
    <3>2. \A k \in Offsets : ids[k] # 0 <=> k < c
      BY <2>2 DEF Full
    <3> QED BY <3>1, <3>2
  <2>4. /\ \A k, l \in Offsets : ids[k] = ids[l] /\ ids[k] # 0 => k = l
        /\ \A k \in Offsets : ids[k] # 0 => ids[k] \in d.bitmap
    BY <2>2, BlockAt
  <2>5. g = block_write(h, pb, new)
    <3>1. ids = Pointers(h, in)
      <4>1. h.block = d.block
        BY <2>1, <2>2, Marked DEF block_new
      <4> HIDE DEF h
      <4> QED BY <2>2, <4>1 DEF Pointers, block_read
    <3> HIDE DEF ids, h
    <3>2. g = block_write(h, pb, [Pointers(d, in) EXCEPT ![e - 1] = b])
      BY <1>1, <1>3 DEF entries_extend, h
    <3> QED BY <3>2 DEF ids
  <2> HIDE DEF b, ids, pb
  <2>6. /\ new \in [Offsets -> Nat]
        /\ \A k \in Offsets : new[k] = IF k = c THEN b ELSE ids[k]
    BY <2>1, <2>2, <2>3, Blocks
  <2>7. /\ IsDisk(h) /\ h.bitmap = d.bitmap \cup {b} /\ h.inodes = d.inodes
        /\ h.inode = d.inode /\ h.block = d.block
    BY <2>1, <2>2, Marked DEF block_new
  <2> HIDE DEF new, h
  <2>8. /\ IsDisk(g) /\ g.bitmap = h.bitmap /\ g.inodes = h.inodes /\ g.inode = h.inode
        /\ g.block[pb] = new
        /\ \A x \in BlockIds : x # pb => g.block[x] = h.block[x]
    BY ONLY <2>2, <2>5, <2>6, <2>7, Written
  <2>9. /\ \A k, l \in Offsets : new[k] = new[l] /\ new[k] # 0 => k = l
        /\ \A k \in Offsets : new[k] = 0 \/ new[k] = ids[k] \/ new[k] = b
        /\ \A k \in Offsets : ids[k] # 0 => new[k] = ids[k]
        /\ new[c] = b
    BY <2>1, <2>3, <2>4, <2>6
  <2>10. \A x \in BlockIds : x \in g.bitmap <=> \/ x \in d.bitmap /\ \A k \in Offsets : ids[k] # x
                                                \/ \E k \in Offsets : new[k] = x
    <3> TAKE x \in BlockIds
    <3>1. x # 0
      BY Blocks
    <3> QED BY <2>3, <2>4, <2>7, <2>8, <2>9, <3>1
  <2>11. \A x \in BlockIds : ~ ((\E k \in Offsets : ids[k] = x) /\ (\A k \in Offsets : new[k] # x))
    BY <2>9, Blocks
  <2>12. Rewrites(d, g, i, new)
    <3>1. g.inode[i].pointer_block = d.inode[i].pointer_block /\ g.block[d.inode[i].pointer_block] = new
      BY <2>7, <2>8 DEF pb
    <3>2. \A k \in Offsets : new[k] = 0 \/ new[k] = At(d, i, k) \/ new[k] \in Available(d)
      BY <2>1, <2>2, <2>9
    <3>3. \A x \in BlockIds : x \in g.bitmap <=> \/ x \in d.bitmap /\ \A k \in Offsets : At(d, i, k) # x
                                                 \/ \E k \in Offsets : new[k] = x
      BY <2>2, <2>10
    <3>4. \A x \in BlockIds : ~ ((\E k \in Offsets : At(d, i, k) = x) /\ (\A k \in Offsets : new[k] # x))
      BY <2>2, <2>11
    <3>5. \A x \in BlockIds : x # d.inode[i].pointer_block => g.block[x] = d.block[x]
      BY <2>7, <2>8 DEF pb
    <3> QED BY <2>6, <2>7, <2>8, <2>9, <3>1, <3>2, <3>3, <3>4, <3>5 DEF Rewrites
  <2>13. /\ Sound(g) /\ Used(g) = Used(d)
         /\ \A k \in Offsets : At(g, i, k) = new[k]
         /\ \A j \in Used(d) \ {i} : Same(d, g, j)
    BY <2>8, <2>12, Rewritten
  <2>14. Full(g, i, e)
    <3> HIDE DEF c, e
    <3>1. \A k \in Offsets : new[k] # 0 <=> k < e
      <4> TAKE k \in Offsets
      <4>1. k < e <=> k < c \/ k = c
        BY <1>1, <2>3
      <4> QED BY <2>1, <2>3, <2>6, <4>1
    <3> QED BY <2>13, <3>1 DEF Full
  <2>15. ASSUME block_seek(d, 2) PROVE block_seek(g, 1)
    <3>1. Available(g) = Available(d) \ {b}
      BY <2>7, <2>8 DEF Available
    <3>2. Cardinality(Available(g)) = Cardinality(Available(d)) - 1
      <4>1. IsFiniteSet(Available(d)) /\ b \in Available(d)
        BY <2>1, AvailableFinite
      <4> QED BY <3>1, <4>1, FS_RemoveElement
    <3> QED BY <2>15, <3>2, AvailableFinite DEF block_seek
  <2> QED BY <2>7, <2>8, <2>13, <2>14, <2>15
<1> QED BY <1>1, <1>2, <1>3

LEMMA NewInodeIs ==
  ASSUME NEW d, inode_seek(d, 1)
  PROVE  NewInode(d) \in InodeIds /\ NewInode(d) \notin Used(d) /\ NewInode(d) # ROOT_INODE
<1> DEFINE S == FreeInodes(d)
<1>1. S \in SUBSET Nat
  BY InodeNumAssumption DEF FreeInodes, InodeIds
<1>2. S # {}
  BY FS_EmptySet DEF inode_seek
<1> HIDE DEF S
<1>3. \E i \in S : \A j \in S : i <= j
  BY <1>1, <1>2, LeastNatural
<1>4. NewInode(d) \in S
  BY <1>3 DEF NewInode, S
<1> QED BY <1>4 DEF S, FreeInodes, Used

LEMMA Made ==
  ASSUME NEW d, Sound(d), inode_seek(d, 1), block_seek(d, 1), NEW is_directory \in BOOLEAN,
         NEW x, x = NewInode(d), NEW g, g = inode_initialize(inode_new(d), x, is_directory)
  PROVE  /\ Sound(g) /\ Used(g) = Used(d) \cup {x} /\ g.inodes = d.inodes \cup {x}
         /\ x \in InodeIds /\ x \notin Used(d) /\ x # ROOT_INODE
         /\ g.inode[x].size = 0 /\ g.inode[x].is_directory = is_directory
         /\ \A k \in Offsets : At(g, x, k) = 0
         /\ \A j \in Used(d) : Same(d, g, j)
<1> DEFINE a == inode_new(d)
           b == NewBlock(a, 0)
           h == block_new(a)
           in == [size |-> 0, is_directory |-> is_directory, pointer_block |-> b]
<1>1. x \in InodeIds /\ x \notin Used(d) /\ x # ROOT_INODE /\ IsDisk(d)
  BY NewInodeIs DEF Sound
<1>2. d.inodes \cup {x} \subseteq InodeIds \ {ROOT_INODE}
  BY <1>1, Fields
<1>3. a = WithInodes(d, d.inodes \cup {x})
  BY DEF inode_new, WithInodes
<1> HIDE DEF a
<1>4. /\ IsDisk(a) /\ a.bitmap = d.bitmap /\ a.inodes = d.inodes \cup {x}
      /\ a.inode = d.inode /\ a.block = d.block
  BY ONLY <1>1, <1>2, <1>3, InodesSet
<1>5. Available(a) = Available(d) /\ block_seek(a, 1)
  BY <1>4 DEF Available, block_seek
<1>6. b \in Available(d) /\ b \in BlockIds /\ NewBlocks(a, 1) = {b}
  BY <1>5, OneNew
<1> HIDE DEF b
<1>7. in \in Inode /\ in.size = 0 /\ in.is_directory = is_directory /\ in.pointer_block = b
  BY <1>6 DEF Inode
<1>8. g = inode_write(h, x, in)
  BY DEF inode_initialize, a, b
<1>9. /\ IsDisk(h) /\ h.bitmap = a.bitmap \cup {b} /\ h.inodes = a.inodes
      /\ h.inode = a.inode /\ h.block = a.block
  BY <1>4, <1>6, Marked DEF block_new
<1> HIDE DEF in, h
<1>10. /\ IsDisk(g) /\ g.bitmap = h.bitmap /\ g.inodes = h.inodes /\ g.block = h.block
       /\ g.inode[x] = in /\ \A j \in InodeIds \ {x} : g.inode[j] = h.inode[j]
  BY ONLY <1>1, <1>7, <1>8, <1>9, InodeWritten
<1>11. /\ Sound(g) /\ Used(g) = Used(d) \cup {x}
       /\ \A k \in Offsets : At(g, x, k) = 0
       /\ \A j \in Used(d) : Same(d, g, j)
  <2>1. /\ g.inode[x].pointer_block = b /\ g.block = d.block
        /\ \A j \in InodeIds \ {x} : g.inode[j] = d.inode[j]
        /\ g.inodes = d.inodes \cup {x} /\ g.bitmap = d.bitmap \cup {b}
    BY <1>4, <1>7, <1>9, <1>10
  <2> QED BY <1>1, <1>6, <1>10, <2>1, Created
<1> QED BY <1>1, <1>4, <1>7, <1>9, <1>10, <1>11

LEMMA Freed ==
  ASSUME NEW d, Sound(d), NEW x \in Used(d), x # ROOT_INODE,
         \A k \in Offsets : k >= block_count_from_size(d.inode[x].size) => At(d, x, k) = 0,
         d.inode[x].size <= BlockSize * BlockSize,
         NEW g, g = inode_finalize(d, x)
  PROVE  /\ Sound(g) /\ Used(g) = Used(d) \ {x} /\ g.inodes = d.inodes \ {x}
         /\ g.inode = d.inode /\ Available(g) # {}
         /\ \A j \in Used(d) \ {x} : Same(d, g, j)
<1> DEFINE in   == d.inode[x]
           c    == block_count_from_size(in.size)
           pb   == in.pointer_block
           held == DataBlocks(d, in)
           a    == block_delete(d, held)
           h    == block_delete(a, {pb})
<1>1. /\ x \in InodeIds /\ IsDisk(d) /\ pb = At(d, x, -1) /\ pb \in BlockIds
      /\ \A k \in Offsets : At(d, x, k) = Pointers(d, in)[k] /\ k \in Places
      /\ \A k \in Places : k = -1 \/ k \in Offsets
      /\ -1 \in Places
  BY BlockAt, PlacesOf DEF Sound, Places
<1>2. in.size \in Nat /\ c \in Nat /\ c <= BlockSize
  <2>1. in.size \in Nat
    BY <1>1, Fields DEF Inode
  <2> QED BY <2>1, Count, CountFits
<1>3. \A b \in BlockIds : b \in held \/ b = pb <=> \E k \in Places : At(d, x, k) = b
  <2> TAKE b \in BlockIds
  <2>1. \A k \in 0 .. (c - 1) : k \in Offsets
    <3> HIDE DEF c
    <3> QED BY <1>2, BlockSizeAssumption DEF Offsets
  <2>2. \A k \in Offsets : k \in Nat /\ (k >= c \/ k \in 0 .. (c - 1))
    <3> HIDE DEF c
    <3> QED BY <1>2, BlockSizeAssumption DEF Offsets
  <2>3. b \in held <=> \E k \in 0 .. (c - 1) : Pointers(d, in)[k] = b
    BY DEF DataBlocks
  <2>4. b # 0
    BY Blocks
  <2>5. b \in held => \E k \in Places : At(d, x, k) = b
    BY <1>1, <2>1, <2>3
  <2>6. ASSUME NEW k \in Offsets, At(d, x, k) = b PROVE b \in held
    BY <1>1, <2>2, <2>3, <2>4, <2>6
  <2> QED BY <1>1, <2>5, <2>6
<1>4. g = WithInodes(h, h.inodes \ {x})
  BY DEF inode_finalize, inode_delete, WithInodes
<1> HIDE DEF held, c, pb, in
<1>5. /\ IsDisk(a) /\ a.bitmap = d.bitmap \ held /\ a.inodes = d.inodes
      /\ a.inode = d.inode
      /\ \A b \in BlockIds : a.block[b] = IF b \in held THEN EmptyBlock ELSE d.block[b]
  BY <1>1, Deleted
<1> HIDE DEF a
<1>6. /\ IsDisk(h) /\ h.bitmap = a.bitmap \ {pb} /\ h.inodes = a.inodes
      /\ h.inode = a.inode
      /\ \A b \in BlockIds : h.block[b] = IF b \in {pb} THEN EmptyBlock ELSE a.block[b]
  BY <1>5, Deleted
<1> HIDE DEF h
<1>7. h.inodes \ {x} \subseteq InodeIds \ {ROOT_INODE}
  BY <1>6, Fields
<1>8. /\ IsDisk(g) /\ g.bitmap = h.bitmap /\ g.inodes = h.inodes \ {x}
      /\ g.inode = h.inode /\ g.block = h.block
  BY ONLY <1>4, <1>6, <1>7, InodesSet
<1>9. g.inodes = d.inodes \ {x} /\ g.inode = d.inode
  BY <1>5, <1>6, <1>8
<1>10. \A b \in BlockIds : b \in g.bitmap <=> b \in d.bitmap /\ \A k \in Places : At(d, x, k) # b
  <2> TAKE b \in BlockIds
  <2>1. b \in g.bitmap <=> b \in d.bitmap /\ b \notin held /\ b # pb
    BY <1>5, <1>6, <1>8
  <2> QED BY <1>3, <2>1
<1>11. \A b \in BlockIds : g.block[b] = IF \E k \in Places : At(d, x, k) = b
                                        THEN EmptyBlock ELSE d.block[b]
  <2> TAKE b \in BlockIds
  <2>1. g.block[b] = IF b \in held \/ b = pb THEN EmptyBlock ELSE d.block[b]
    BY <1>5, <1>6, <1>8
  <2> QED BY <1>3, <2>1
<1>12. /\ Sound(g) /\ Used(g) = Used(d) \ {x}
       /\ Available(g) # {}
       /\ \A j \in Used(d) \ {x} : Same(d, g, j)
  BY <1>8, <1>9, <1>10, <1>11, Finalized
<1> QED BY <1>9, <1>12

LEMMA Formatted ==
  ASSUME NEW g, g = mkfs
  PROVE  /\ Sound(g) /\ g.inodes = {} /\ Used(g) = {ROOT_INODE} /\ ROOT_INODE \in InodeIds
         /\ g.inode[ROOT_INODE].size = 0 /\ g.inode[ROOT_INODE].is_directory = TRUE
         /\ \A k \in Offsets : At(g, ROOT_INODE, k) = 0
<1> DEFINE z     == ZeroedDisk
           x     == ROOT_INODE
           b     == NewBlock(z, 0)
           h     == block_new(z)
           in    == [size |-> 0, is_directory |-> TRUE, pointer_block |-> b]
           inode == [i \in InodeIds |-> [size |-> 0, is_directory |-> FALSE, pointer_block |-> 0]]
           block == [c \in BlockIds |-> EmptyBlock]
<1>1. x \in InodeIds
  BY InodeNumAssumption DEF InodeIds, ROOT_INODE
<1>2. inode \in [InodeIds -> Inode] /\ block \in [BlockIds -> [Offsets -> Nat]]
      /\ \A c \in BlockIds : block[c] = EmptyBlock
  BY DEF Inode, EmptyBlock
<1> HIDE DEF inode, block
<1>3. z = [bitmap |-> {}, inodes |-> {}, block |-> block, inode |-> inode]
  BY DEF ZeroedDisk, inode, block
<1> HIDE DEF z
<1>4. z.bitmap = {} /\ z.inodes = {} /\ z.block = block /\ z.inode = inode
  BY <1>3
<1>5. z = [bitmap |-> z.bitmap, inodes |-> z.inodes, block |-> z.block, inode |-> z.inode]
  BY <1>3, <1>4
<1>6. IsDisk(z)
  BY <1>2, <1>4, <1>5 DEF IsDisk
<1>7. block_seek(z, 1)
  <2>1. FirstBlock \in BlockIds
    BY FirstBlockAssumption, BlockNumAssumption DEF BlockIds
  <2>2. Available(z) # {}
    BY <1>4, <2>1 DEF Available
  <2>3. IsFiniteSet(Available(z)) /\ Cardinality(Available(z)) \in Nat
    BY AvailableFinite
  <2>4. Cardinality(Available(z)) # 0
    BY <2>2, <2>3, FS_EmptySet
  <2> QED BY <2>3, <2>4 DEF block_seek
<1>8. b \in BlockIds /\ b # 0 /\ NewBlocks(z, 1) = {b}
  BY <1>7, OneNew
<1>9. g = inode_write(h, x, in)
  BY DEF mkfs, inode_initialize, z, b
<1> HIDE DEF b
<1>10. in \in Inode /\ in.size = 0 /\ in.is_directory = TRUE /\ in.pointer_block = b
  BY <1>8 DEF Inode
<1>11. /\ IsDisk(h) /\ h.bitmap = z.bitmap \cup {b} /\ h.inodes = z.inodes
       /\ h.inode = z.inode /\ h.block = z.block
  BY <1>6, <1>8, Marked DEF block_new
<1> HIDE DEF in, h
<1>12. /\ IsDisk(g) /\ g.bitmap = h.bitmap /\ g.inodes = h.inodes /\ g.block = h.block
       /\ g.inode[x] = in
  BY ONLY <1>1, <1>9, <1>10, <1>11, InodeWritten
<1>13. /\ Used(g) = {x} /\ g.bitmap = {b} /\ g.inodes = {} /\ g.block = block
       /\ g.inode[x].pointer_block = b
  BY <1>4, <1>10, <1>11, <1>12 DEF Used
<1>14. At(g, x, -1) = b /\ (\A k \in Offsets : At(g, x, k) = 0)
       /\ -1 \in Places /\ \A k \in Places : k = -1 \/ k \in Offsets
  <2>1. At(g, x, -1) = b /\ -1 \in Places /\ \A k \in Places : k = -1 \/ k \in Offsets
    BY <1>1, <1>12, <1>13, PlacesOf DEF Places
  <2>2. \A k \in Offsets : EmptyBlock[k] = 0
    BY DEF EmptyBlock
  <2> QED BY <1>1, <1>2, <1>8, <1>12, <1>13, <2>1, <2>2, PlacesOf
<1>15. Laid(g)
  BY <1>8, <1>13, <1>14 DEF Laid
<1>16. Emptied(g)
  BY <1>2, <1>13 DEF Emptied, Available
<1> QED BY <1>1, <1>10, <1>12, <1>13, <1>14, <1>15, <1>16 DEF Sound

-----------------------------------------------------------------------------
(* Places handed out from the last to the first.                           *)
LEMMA HandedOut ==
  ASSUME NEW S, \A k \in S : k \in Nat, IsFiniteSet(S)
  PROVE  LET Above(k) == Cardinality({h \in S : h > k})
             n        == Cardinality(S)
         IN  /\ n \in Nat
             /\ \A k \in S : Above(k) \in 0 .. (n - 1)
             /\ \A k, l \in S : Above(k) = Above(l) => k = l
             /\ \A r \in 0 .. (n - 1) : \E k \in S : Above(k) = r
<1> DEFINE Above(k) == Cardinality({h \in S : h > k})
           n        == Cardinality(S)
<1>1. n \in Nat
  BY FS_CardinalityType
<1>2. ASSUME NEW k \in S
      PROVE  /\ {h \in S : h > k} \in SUBSET (S \ {k}) /\ IsFiniteSet({h \in S : h > k})
             /\ Above(k) \in 0 .. (n - 1)
  <2> DEFINE high == {h \in S : h > k}
  <2>1. high \in SUBSET (S \ {k})
    OBVIOUS
  <2> HIDE DEF high
  <2>2. IsFiniteSet(S \ {k}) /\ Cardinality(S \ {k}) = n - 1
    BY <1>2, FS_RemoveElement
  <2>3. IsFiniteSet(high) /\ Cardinality(high) \in Nat /\ Cardinality(high) <= n - 1
    BY <2>1, <2>2, FS_Subset, FS_CardinalityType
  <2>4. Cardinality(high) \in 0 .. (n - 1)
    BY <1>1, <2>3
  <2> QED BY <2>1, <2>3, <2>4 DEF high
<1>3. ASSUME NEW k \in S, NEW l \in S, k < l PROVE Above(k) # Above(l)
  <2> DEFINE high == {h \in S : h > k}
             top  == {h \in S : h > l}
  <2>1. top \in SUBSET high /\ l \in high /\ l \notin top
    BY <1>3
  <2>2. IsFiniteSet(high)
    BY <1>2
  <2> HIDE DEF high, top
  <2>3. Cardinality(high) # Cardinality(top)
    BY <2>1, <2>2, FS_Subset
  <2> QED BY <2>3 DEF high, top
<1>4. \A k, l \in S : Above(k) = Above(l) => k = l
  <2> SUFFICES ASSUME NEW k \in S, NEW l \in S, Above(k) = Above(l), k # l PROVE FALSE
    OBVIOUS
  <2>1. k < l \/ l < k
    OBVIOUS
  <2> QED BY <1>3, <2>1
<1>5. \A r \in 0 .. (n - 1) : \E k \in S : Above(k) = r
  <2> DEFINE T == 0 .. (n - 1)
             f == [k \in S |-> Above(k)]
  <2>1. f \in [S -> T] /\ \A k \in S : f[k] = Above(k)
    BY <1>2
  <2>2. IsFiniteSet(T) /\ Cardinality(T) = n
    BY <1>1, FS_Interval
  <2> HIDE DEF T, f
  <2>3. f \in Injection(S, T)
    <3>1. \A k, l \in S : f[k] = f[l] => k = l
      BY <1>4, <2>1
    <3> QED BY <2>1, <3>1, Zenon DEF Injection, IsInjective
  <2>4. f \in Surjection(S, T)
    BY <2>2, <2>3, FS_Injection
  <2>5. \A r \in T : \E k \in S : f[k] = r
    BY <2>4 DEF Surjection
  <2> QED BY <2>1, <2>5 DEF T
<1> HIDE DEF n, Above
<1>6. /\ n \in Nat
      /\ \A k \in S : Above(k) \in 0 .. (n - 1)
      /\ \A k, l \in S : Above(k) = Above(l) => k = l
      /\ \A r \in 0 .. (n - 1) : \E k \in S : Above(k) = r
  BY <1>1, <1>2, <1>4, <1>5
<1> QED BY <1>6 DEF n, Above

-----------------------------------------------------------------------------
(* Directories and what they list, apart from the disk they are read from. *)

Lists(s, inodes) ==
  /\ s \in Seq(Entry)
  /\ \A e \in 1 .. Len(s) : s[e].name \in Names /\ s[e].inode_id \in inodes
  /\ \A e, f \in 1 .. Len(s) : s[e].name = s[f].name => e = f

IsTree(dirs, list, inodes) ==
  /\ ROOT_INODE \in dirs
  /\ \A i \in dirs : Lists(list[i], inodes)
  /\ \A i, j \in dirs : \A e \in 1 .. Len(list[i]), f \in 1 .. Len(list[j]) :
       list[i][e].inode_id = list[j][f].inode_id => i = j /\ e = f

Unnamed(s, name) == \A e \in 1 .. Len(s) : s[e].name # name

Unlisted(dirs, list, x) == \A i \in dirs : \A e \in 1 .. Len(list[i]) : list[i][e].inode_id # x

LEMMA EntriesAre ==
  ASSUME NEW d, IsDisk(d), Listed(d), NEW i \in Directories(d)
  PROVE  /\ Lists(Entries(d, i), d.inodes) /\ Entries(d, i) \in Seq(Entry)
         /\ Len(Entries(d, i)) \in Nat /\ DOMAIN Entries(d, i) = 1 .. Len(Entries(d, i))
         /\ entries_count(d.inode[i]) = Len(Entries(d, i))
         /\ d.inode[i].size = EntrySize * Len(Entries(d, i))
<1> DEFINE s == Entries(d, i)
           n == entries_count(d.inode[i])
<1>1. d.inode[i].size \in Nat
  <2>1. i \in InodeIds
    BY Fields DEF Directories
  <2> QED BY <2>1, Fields DEF Inode
<1>2. n \in Nat
  BY <1>1 DEF entries_count, EntrySize
<1>3. DOMAIN s = 1 .. n /\ s = [e \in 1 .. n |-> s[e]]
      /\ \A e \in 1 .. n : s[e] = [name |-> s[e].name, inode_id |-> s[e].inode_id]
  BY DEF Entries, entries_read
<1>4. /\ \A e \in DOMAIN s : s[e].name \in Names /\ s[e].inode_id \in d.inodes
      /\ \A e, f \in DOMAIN s : s[e].name = s[f].name => e = f
      /\ d.inode[i].size = EntrySize * Len(s)
  BY DEF Listed
<1> HIDE DEF s, n
<1>5. \A e \in 1 .. n : s[e] \in Entry
  <2> TAKE e \in 1 .. n
  <2>1. s[e].name \in Nat /\ s[e].inode_id \in Nat
    BY <1>3, <1>4, Fields, NamesAssumption, InodeNumAssumption DEF InodeIds
  <2> QED BY <1>3, <2>1 DEF Entry
<1>6. s \in [1 .. n -> Entry]
  BY <1>3, <1>5
<1>7. s \in Seq(Entry) /\ Len(s) = n
  BY <1>2, <1>6, LenProperties, SeqDef
<1> QED BY <1>2, <1>3, <1>4, <1>7 DEF Lists, s, n

LEMMA ListedIsTree ==
  ASSUME NEW d, IsDisk(d), Listed(d), NEW list, \A i \in Directories(d) : list[i] = Entries(d, i)
  PROVE  IsTree(Directories(d), list, d.inodes)
<1>1. \A i \in Directories(d) : Lists(list[i], d.inodes) /\ DOMAIN Entries(d, i) = 1 .. Len(list[i])
  BY EntriesAre
<1>2. ASSUME NEW i \in Directories(d), NEW j \in Directories(d),
             NEW e \in 1 .. Len(list[i]), NEW f \in 1 .. Len(list[j]),
             list[i][e].inode_id = list[j][f].inode_id
      PROVE  i = j /\ e = f
  <2>1. e \in DOMAIN Entries(d, i) /\ f \in DOMAIN Entries(d, j)
        /\ Entries(d, i)[e].inode_id = Entries(d, j)[f].inode_id
    BY <1>1, <1>2
  <2> QED BY <2>1 DEF Listed
<1> QED BY <1>1, <1>2 DEF IsTree, Listed

LEMMA TreeIsListed ==
  ASSUME NEW d, NEW list, IsTree(Directories(d), list, d.inodes),
         \A i \in Directories(d) : Entries(d, i) = list[i] /\ d.inode[i].size = EntrySize * Len(list[i])
  PROVE  Listed(d)
<1>1. ASSUME NEW i \in Directories(d)
      PROVE  Lists(list[i], d.inodes) /\ DOMAIN Entries(d, i) = 1 .. Len(list[i])
  <2>1. Lists(list[i], d.inodes)
    BY DEF IsTree
  <2>2. list[i] \in Seq(Entry)
    BY <2>1 DEF Lists
  <2> QED BY <2>1, <2>2, LenProperties
<1>2. \A i \in Directories(d) :
        /\ d.inode[i].size = EntrySize * Len(Entries(d, i))
        /\ \A e \in DOMAIN Entries(d, i) : /\ Entries(d, i)[e].name \in Names
                                           /\ Entries(d, i)[e].inode_id \in d.inodes
        /\ \A e, f \in DOMAIN Entries(d, i) : Entries(d, i)[e].name = Entries(d, i)[f].name => e = f
  BY <1>1 DEF Lists
<1>3. \A i, j \in Directories(d) : \A e \in DOMAIN Entries(d, i), f \in DOMAIN Entries(d, j) :
        Entries(d, i)[e].inode_id = Entries(d, j)[f].inode_id => i = j /\ e = f
  BY <1>1 DEF IsTree
<1> QED BY <1>2, <1>3 DEF IsTree, Listed

(* An entry that leads to an inode that no directory lists is added.       *)
LEMMA TreeGrows ==
  ASSUME NEW dirs, NEW list, NEW inodes, IsTree(dirs, list, inodes),
         NEW p \in dirs, NEW entry \in Entry, entry.name \in Names,
         Unnamed(list[p], entry.name), Unlisted(dirs, list, entry.inode_id),
         NEW dirs2, dirs \subseteq dirs2, NEW inodes2, inodes \subseteq inodes2, entry.inode_id \in inodes2,
         NEW list2, list2[p] = Append(list[p], entry),
         \A i \in dirs \ {p} : list2[i] = list[i],
         \A i \in dirs2 \ dirs : list2[i] = << >>
  PROVE  IsTree(dirs2, list2, inodes2)
<1> DEFINE n == Len(list[p])
           old(i) == 1 .. Len(list[i])
<1>1. n \in Nat /\ list[p] \in Seq(Entry)
  BY LenProperties DEF IsTree, Lists
<1>2. /\ list2[p] \in Seq(Entry) /\ Len(list2[p]) = n + 1 /\ list2[p][n + 1] = entry
      /\ \A e \in 1 .. n : list2[p][e] = list[p][e]
  BY <1>1, AppendProperties
<1>3. \A e \in 1 .. (n + 1) : e = n + 1 \/ e \in 1 .. n
  BY <1>1
<1>4. Len(<< >>) = 0 /\ << >> \in Seq(Entry)
  BY EmptySeq
<1> HIDE DEF n
<1>5. ASSUME NEW i \in dirs2 PROVE Lists(list2[i], inodes2)
  <2>1. CASE i = p
    <3>1. \A e \in 1 .. (n + 1) : list2[p][e].name \in Names /\ list2[p][e].inode_id \in inodes2
      BY <1>2, <1>3 DEF IsTree, Lists, n
    <3>2. \A e, f \in 1 .. (n + 1) : list2[p][e].name = list2[p][f].name => e = f
      BY <1>2, <1>3 DEF IsTree, Lists, Unnamed, n
    <3> QED BY <1>2, <2>1, <3>1, <3>2 DEF Lists
  <2>2. CASE i \in dirs \ {p}
    BY <2>2 DEF IsTree, Lists
  <2>3. CASE i \notin dirs
    <3>1. list2[i] = << >> /\ \A e \in 1 .. 0 : FALSE
      BY <2>3
    <3> QED BY <1>4, <3>1 DEF Lists
  <2> QED BY <2>1, <2>2, <2>3
<1>6. ASSUME NEW i \in dirs2, NEW e \in 1 .. Len(list2[i])
      PROVE  /\ i \in dirs
             /\ \/ i = p /\ e = n + 1 /\ list2[i][e].inode_id = entry.inode_id
                \/ e \in 1 .. Len(list[i]) /\ list2[i][e] = list[i][e]
  <2>1. i \in dirs
    BY <1>4, <1>6
  <2>2. CASE i = p
    BY <1>2, <1>3, <2>1, <2>2 DEF n
  <2>3. CASE i # p
    BY <2>1, <2>3
  <2> QED BY <2>1, <2>2, <2>3
<1>7. ASSUME NEW i \in dirs2, NEW j \in dirs2,
             NEW e \in 1 .. Len(list2[i]), NEW f \in 1 .. Len(list2[j]),
             list2[i][e].inode_id = list2[j][f].inode_id
      PROVE  i = j /\ e = f
  <2>1. /\ i \in dirs /\ \/ i = p /\ e = n + 1 /\ list2[i][e].inode_id = entry.inode_id
                         \/ e \in 1 .. Len(list[i]) /\ list2[i][e] = list[i][e]
        /\ j \in dirs /\ \/ j = p /\ f = n + 1 /\ list2[j][f].inode_id = entry.inode_id
                         \/ f \in 1 .. Len(list[j]) /\ list2[j][f] = list[j][f]
    BY <1>6
  <2>2. CASE i = p /\ e = n + 1 /\ list2[i][e].inode_id = entry.inode_id
    BY <1>7, <2>1, <2>2 DEF Unlisted
  <2>3. CASE j = p /\ f = n + 1 /\ list2[j][f].inode_id = entry.inode_id
    BY <1>7, <2>1, <2>3 DEF Unlisted
  <2>4. CASE /\ e \in 1 .. Len(list[i]) /\ list2[i][e] = list[i][e]
             /\ f \in 1 .. Len(list[j]) /\ list2[j][f] = list[j][f]
    BY <1>7, <2>1, <2>4 DEF IsTree
  <2> QED BY <2>1, <2>2, <2>3, <2>4
<1> QED BY <1>5, <1>7 DEF IsTree

(* An entry leaves its directory.                                          *)
LEMMA TreeShrinks ==
  ASSUME NEW dirs, NEW list, NEW inodes, IsTree(dirs, list, inodes),
         NEW p \in dirs, NEW x \in 1 .. Len(list[p]),
         NEW list2, list2[p] = RemoveAt(list[p], x), \A i \in dirs \ {p} : list2[i] = list[i]
  PROVE  /\ IsTree(dirs, list2, inodes)
         /\ Unnamed(list2[p], list[p][x].name) /\ Unlisted(dirs, list2, list[p][x].inode_id)
         /\ \A e \in 1 .. Len(list[p]) :
              e # x => \E f \in 1 .. Len(list2[p]) : list2[p][f] = list[p][e]
<1> DEFINE n == Len(list[p])
           was(e) == IF e < x THEN e ELSE e + 1
<1>1. n \in Nat /\ list[p] \in Seq(Entry) /\ x \in 1 .. n
  BY LenProperties DEF IsTree, Lists
<1>2. /\ list2[p] \in Seq(Entry) /\ Len(list2[p]) = n - 1
      /\ \A e \in 1 .. (n - 1) : list2[p][e] = IF e < x THEN list[p][e] ELSE list[p][e + 1]
  <2> DEFINE s == list[p]
             r == list2[p]
  <2>1. s \in Seq(Entry) /\ x \in 1 .. Len(s) /\ r = RemoveAt(s, x)
    BY <1>1
  <2> HIDE DEF s, r
  <2>2. /\ r \in Seq(Entry) /\ Len(r) = Len(s) - 1
        /\ \A e \in 1 .. (Len(s) - 1) : r[e] = IF e < x THEN s[e] ELSE s[e + 1]
    BY <2>1, RemovedAt
  <2> QED BY <2>2 DEF s, r
<1>3. /\ \A e \in 1 .. (n - 1) : was(e) \in 1 .. n /\ was(e) # x
      /\ \A e, f \in 1 .. (n - 1) : was(e) = was(f) => e = f
      /\ \A e \in 1 .. n : e # x => \E f \in 1 .. (n - 1) : was(f) = e
  <2>1. /\ \A e \in 1 .. (n - 1) : was(e) \in 1 .. n /\ was(e) # x
        /\ \A e, f \in 1 .. (n - 1) : was(e) = was(f) => e = f
    BY <1>1
  <2>2. ASSUME NEW e \in 1 .. n, e # x PROVE \E f \in 1 .. (n - 1) : was(f) = e
    <3>1. CASE e < x
      BY <1>1, <2>2, <3>1
    <3>2. CASE e > x
      <4>1. e - 1 \in 1 .. (n - 1) /\ was(e - 1) = e
        BY <1>1, <2>2, <3>2
      <4> QED BY <4>1
    <3> QED BY <1>1, <2>2, <3>1, <3>2
  <2> QED BY <2>1, <2>2
<1>4. \A e \in 1 .. (n - 1) : list2[p][e] = list[p][was(e)]
  BY <1>2
<1> HIDE DEF n, was
<1>5. /\ \A e \in 1 .. n : list[p][e].name \in Names /\ list[p][e].inode_id \in inodes
      /\ \A e, f \in 1 .. n : list[p][e].name = list[p][f].name => e = f
  BY DEF IsTree, Lists, n
<1>6. \A i, j \in dirs : \A e \in 1 .. Len(list[i]), f \in 1 .. Len(list[j]) :
        list[i][e].inode_id = list[j][f].inode_id => i = j /\ e = f
  BY DEF IsTree
<1>7. ASSUME NEW i \in dirs, NEW e \in 1 .. Len(list2[i])
      PROVE  \/ /\ i = p /\ e \in 1 .. (n - 1) /\ was(e) \in 1 .. Len(list[p]) /\ was(e) # x
                /\ list2[i][e] = list[p][was(e)]
             \/ i # p /\ e \in 1 .. Len(list[i]) /\ list2[i][e] = list[i][e]
  BY <1>2, <1>3, <1>4 DEF n
<1>8. ASSUME NEW i \in dirs PROVE Lists(list2[i], inodes)
  <2>1. CASE i = p
    <3>1. \A e \in 1 .. (n - 1) : list2[p][e].name \in Names /\ list2[p][e].inode_id \in inodes
      BY <1>3, <1>4, <1>5
    <3>2. \A e, f \in 1 .. (n - 1) : list2[p][e].name = list2[p][f].name => e = f
      BY <1>3, <1>4, <1>5
    <3> QED BY <1>2, <2>1, <3>1, <3>2 DEF Lists
  <2>2. CASE i # p
    BY <2>2 DEF IsTree
  <2> QED BY <2>1, <2>2
<1>9. ASSUME NEW i \in dirs, NEW j \in dirs,
             NEW e \in 1 .. Len(list2[i]), NEW f \in 1 .. Len(list2[j]),
             list2[i][e].inode_id = list2[j][f].inode_id
      PROVE  i = j /\ e = f
  <2> DEFINE a == IF i = p THEN was(e) ELSE e
             b == IF j = p THEN was(f) ELSE f
  <2>1. a \in 1 .. Len(list[i]) /\ list2[i][e] = list[i][a]
    BY <1>7
  <2>2. b \in 1 .. Len(list[j]) /\ list2[j][f] = list[j][b]
    BY <1>7
  <2>3. i = j /\ a = b
    BY <1>6, <1>9, <2>1, <2>2
  <2>4. CASE i = p
    <3>1. e \in 1 .. (n - 1) /\ f \in 1 .. (n - 1)
      BY <1>2, <2>3, <2>4
    <3> QED BY <1>3, <2>3, <2>4, <3>1
  <2>5. CASE i # p
    BY <2>3, <2>5
  <2> QED BY <2>4, <2>5
<1>10. IsTree(dirs, list2, inodes)
  BY <1>8, <1>9 DEF IsTree
<1>11. \A e \in 1 .. Len(list2[p]) : list2[p][e].name # list[p][x].name
  <2> TAKE e \in 1 .. Len(list2[p])
  <2>1. was(e) \in 1 .. n /\ was(e) # x /\ list2[p][e] = list[p][was(e)]
    BY <1>2, <1>3, <1>4
  <2> QED BY <1>1, <1>5, <2>1
<1>12. \A i \in dirs : \A e \in 1 .. Len(list2[i]) : list2[i][e].inode_id # list[p][x].inode_id
  BY <1>6, <1>7
<1>13. \A e \in 1 .. n : e # x => \E f \in 1 .. Len(list2[p]) : list2[p][f] = list[p][e]
  <2> TAKE e \in 1 .. n
  <2> HAVE e # x
  <2>1. PICK f \in 1 .. (n - 1) : was(f) = e
    BY <1>3
  <2>2. list2[p][f] = list[p][e] /\ f \in 1 .. Len(list2[p])
    BY <1>2, <1>4, <2>1
  <2> QED BY <2>2
<1> QED BY <1>10, <1>11, <1>12, <1>13 DEF n, Unnamed, Unlisted

(* An entry gets another name.                                             *)
LEMMA TreeRenamed ==
  ASSUME NEW dirs, NEW list, NEW inodes, IsTree(dirs, list, inodes),
         NEW p \in dirs, NEW x \in 1 .. Len(list[p]), NEW to \in Names,
         Unnamed(list[p], to),
         NEW list2, list2[p] = [list[p] EXCEPT ![x].name = to],
         \A i \in dirs \ {p} : list2[i] = list[i]
  PROVE  IsTree(dirs, list2, inodes)
<1> DEFINE n   == Len(list[p])
           new == [list[p][x] EXCEPT !.name = to]
<1>1. n \in Nat /\ list[p] \in Seq(Entry) /\ x \in 1 .. n /\ list[p][x] \in Entry
  BY LenProperties, ElementOfSeq DEF IsTree, Lists
<1>2. new \in Entry /\ new.name = to /\ new.inode_id = list[p][x].inode_id
  BY <1>1, NamesAssumption DEF Entry
<1>3. list2[p] = [list[p] EXCEPT ![x] = new]
  OBVIOUS
<1> HIDE DEF new, n
<1>4. /\ list2[p] \in Seq(Entry) /\ Len(list2[p]) = n
      /\ \A e \in 1 .. n : list2[p][e] = IF e = x THEN new ELSE list[p][e]
  <2>1. \A e \in 1 .. n : list[p][e] \in Entry
    BY <1>1, ElementOfSeq DEF n
  <2>2. list[p] \in [1 .. n -> Entry]
    BY <1>1, LenProperties DEF n
  <2>3. list2[p] \in [1 .. n -> Entry]
    BY <1>2, <1>3, <2>2
  <2>4. list2[p] \in Seq(Entry) /\ Len(list2[p]) = n
    BY <1>1, <2>3, LenProperties, SeqDef
  <2> QED BY <1>1, <1>3, <2>2, <2>4
<1>5. /\ \A e \in 1 .. n : list[p][e].name \in Names /\ list[p][e].inode_id \in inodes
      /\ \A e, f \in 1 .. n : list[p][e].name = list[p][f].name => e = f
  BY DEF IsTree, Lists, n
<1>6. ASSUME NEW i \in dirs PROVE Lists(list2[i], inodes)
  <2>1. CASE i = p
    <3>1. \A e \in 1 .. n : list2[p][e].name \in Names /\ list2[p][e].inode_id \in inodes
      BY <1>1, <1>2, <1>4, <1>5
    <3>2. \A e, f \in 1 .. n : list2[p][e].name = list2[p][f].name => e = f
      BY <1>2, <1>4, <1>5 DEF n, Unnamed
    <3> QED BY <1>4, <2>1, <3>1, <3>2 DEF Lists
  <2>2. CASE i # p
    BY <2>2 DEF IsTree
  <2> QED BY <2>1, <2>2
<1>7. \A i \in dirs : /\ Len(list2[i]) = Len(list[i])
                      /\ \A e \in 1 .. Len(list[i]) : list2[i][e].inode_id = list[i][e].inode_id
  BY <1>2, <1>4 DEF n
<1> QED BY <1>6, <1>7 DEF IsTree

-----------------------------------------------------------------------------
(* Consistent disks.                                                       *)

LEMMA ConsistentIs ==
  ASSUME NEW d, Consistent(d)
  PROVE  /\ IsDisk(d) /\ Sound(d) /\ Listed(d) /\ ROOT_INODE \in Used(d)
         /\ \A i \in Used(d) : /\ SizedAt(d, i) /\ i \in InodeIds /\ At(d, i, -1) # 0
                               /\ d.inode[i] \in Inode /\ d.inode[i].size \in Nat
                               /\ d.inode[i].size <= BlockSize * BlockSize
<1>1. IsDisk(d) /\ Sound(d) /\ Listed(d) /\ Sized(d)
  BY DEF Consistent, Sound
<1>2. ASSUME NEW i \in Used(d)
      PROVE  /\ SizedAt(d, i) /\ i \in InodeIds /\ At(d, i, -1) # 0
             /\ d.inode[i] \in Inode /\ d.inode[i].size \in Nat
             /\ d.inode[i].size <= BlockSize * BlockSize
  <2>1. SizedAt(d, i) /\ i \in InodeIds /\ At(d, i, -1) # 0
    BY <1>1, BlockAt DEF Sized
  <2> QED BY <1>1, <2>1, Fields DEF SizedAt, Inode
<1> QED BY <1>1, <1>2 DEF Used

LEMMA ConsistentFrom ==
  ASSUME NEW d, Sound(d), \A i \in Used(d) : SizedAt(d, i), Listed(d)
  PROVE  Consistent(d)
BY DEF Consistent, Sound, Sized

LEMMA DirectoryIs ==
  ASSUME NEW d, Consistent(d), NEW i \in Directories(d)
  PROVE  /\ i \in Used(d) /\ d.inode[i].is_directory
         /\ Full(d, i, block_count_from_size(d.inode[i].size))
<1>1. i \in Used(d) /\ d.inode[i].is_directory
  BY DEF Directories
<1>2. SizedAt(d, i) /\ d.inode[i].size \in Nat
  BY <1>1, ConsistentIs
<1>3. block_count_from_size(d.inode[i].size) \in Nat
  BY <1>2, Count
<1>4. \A k \in Offsets : k \in Nat
  BY BlockSizeAssumption DEF Offsets
<1> QED BY <1>1, <1>2, <1>3, <1>4 DEF SizedAt, Full

LEMMA DirectoryOrNot ==
  ASSUME NEW d, Consistent(d), NEW i \in Used(d)
  PROVE  (i \in Directories(d) <=> d.inode[i].is_directory) /\ d.inode[i].is_directory \in BOOLEAN
<1>1. d.inode[i] \in Inode
  BY ConsistentIs
<1> QED BY <1>1 DEF Directories, Inode

LEMMA FullIsSized ==
  ASSUME NEW d, IsDisk(d), NEW i \in InodeIds, d.inode[i].size <= BlockSize * BlockSize,
         Full(d, i, block_count_from_size(d.inode[i].size))
  PROVE  SizedAt(d, i)
<1> DEFINE size == d.inode[i].size
           c    == block_count_from_size(size)
           q    == size \div BlockSize
           r    == size % BlockSize
<1>1. size \in Nat
  BY Fields DEF Inode
<1>2. c \in Nat /\ c <= BlockSize /\ \A k \in Nat : k < c <=> k * BlockSize < size
  BY <1>1, Count, CountFits
<1>3. q \in Nat /\ r \in Nat /\ size = q * BlockSize + r
  <2> HIDE DEF size
  <2>1. q \in Nat /\ r \in Offsets /\ size = q * BlockSize + r
    BY <1>1, PlaceOf
  <2> HIDE DEF q, r
  <2> QED BY <2>1, BlockSizeAssumption DEF Offsets
<1>4. \A k \in Offsets : k \in Nat /\ (At(d, i, k) # 0 <=> k < c)
  BY BlockSizeAssumption DEF Full, Offsets
<1>5. size <= BlockSize * BlockSize
  OBVIOUS
<1> HIDE DEF size, c, q, r
<1>6. r # 0 => At(d, i, q) # 0
  <2> SUFFICES ASSUME r # 0 PROVE At(d, i, q) # 0
    OBVIOUS
  <2>1. q * BlockSize < size
    BY <1>1, <1>3, BlockSizeAssumption
  <2>2. q < c
    BY <1>2, <1>3, <2>1
  <2>3. q \in Offsets
    BY <1>2, <1>3, <2>2, BlockSizeAssumption DEF Offsets
  <2> QED BY <1>4, <2>2, <2>3
<1>7. \A k \in Offsets : (k >= c => At(d, i, k) = 0) /\ (k < c => At(d, i, k) # 0)
  BY <1>2, <1>4
<1> QED BY <1>5, <1>6, <1>7 DEF SizedAt, size, c, q, r

(* What is the same stays sized and lists the same entries.                *)
LEMMA KeptAt ==
  ASSUME NEW d, Consistent(d), NEW g, IsDisk(g), NEW i \in Used(d), i \in Used(g), Same(d, g, i)
  PROVE  /\ SizedAt(g, i) /\ g.inode[i] = d.inode[i]
         /\ i \in Directories(g) <=> i \in Directories(d)
         /\ i \in Directories(d) => Entries(g, i) = Entries(d, i)
<1>1. /\ IsDisk(d) /\ SizedAt(d, i) /\ i \in InodeIds /\ At(d, i, -1) # 0
      /\ d.inode[i].size \in Nat /\ d.inode[i].size <= BlockSize * BlockSize
  BY ConsistentIs
<1>2. g.inode[i] = d.inode[i]
  BY DEF Same
<1>3. i \in Directories(g) <=> i \in Directories(d)
  BY <1>2 DEF Directories
<1>4. SizedAt(g, i)
  <2> DEFINE q == d.inode[i].size \div BlockSize
  <2>1. \A k \in Offsets : At(g, i, k) = At(d, i, k)
    BY DEF Same, Places
  <2>2. d.inode[i].size % BlockSize # 0 => At(g, i, q) # 0
    <3> SUFFICES ASSUME d.inode[i].size % BlockSize # 0 PROVE At(g, i, q) # 0
      OBVIOUS
    <3>1. At(d, i, q) # 0
      BY <1>1 DEF SizedAt
    <3>2. At(g, i, -1) = At(d, i, -1) /\ g.block[At(d, i, -1)] = d.block[At(d, i, -1)]
      BY <1>1 DEF Same, Places
    <3>3. At(g, i, -1) = g.inode[i].pointer_block /\ At(d, i, -1) = d.inode[i].pointer_block
      BY DEF At
    <3>4. Pointers(g, g.inode[i]) = Pointers(d, d.inode[i])
      BY <1>1, <1>2, <3>2, <3>3 DEF Pointers, block_read
    <3> HIDE DEF q
    <3>5. At(g, i, q) = At(d, i, q)
      BY <1>2, <3>4 DEF At
    <3> QED BY <3>1, <3>5
  <2> HIDE DEF q
  <2> QED BY <1>1, <1>2, <1>3, <2>1, <2>2 DEF SizedAt, q
<1>5. i \in Directories(d) => Entries(g, i) = Entries(d, i)
  BY <1>1, DirectoryIs, EntriesSame DEF Entries
<1> QED BY <1>2, <1>3, <1>4, <1>5

Others(d, g, i) == \A j \in Used(d) \ {i} : Same(d, g, j)

(* Inode i holds the entries of this sequence.                             *)
Holds(d, i, entries) ==
  /\ d.inode[i].size = EntrySize * Len(entries)
  /\ Entries(d, i) = entries
  /\ SizedAt(d, i)
  /\ Full(d, i, block_count_from_size(d.inode[i].size))

LEMMA HoldsIs ==
  ASSUME NEW d, Sound(d), NEW i \in Used(d), NEW entries \in Seq(Entry),
         d.inode[i].size = EntrySize * Len(entries),
         d.inode[i].size <= BlockSize * BlockSize,
         Full(d, i, block_count_from_size(d.inode[i].size)),
         \A k \in Offsets : k < block_count_from_size(d.inode[i].size) =>
           d.block[At(d, i, k)] = EntryWords(entries, k)
  PROVE  Holds(d, i, entries)
<1>1. i \in InodeIds /\ IsDisk(d) /\ At(d, i, -1) # 0
  BY BlockAt DEF Sound
<1>2. SizedAt(d, i)
  BY <1>1, FullIsSized
<1>3. Len(entries) \in Nat /\ entries \in [1 .. Len(entries) -> Entry]
  BY LenProperties
<1>4. \A k \in Offsets : k < block_count_from_size(d.inode[i].size) =>
           At(d, i, k) # 0 /\ d.block[At(d, i, k)] = EntryWords(entries, k)
  BY DEF Full
<1>5. Entries(d, i) = entries
  BY <1>1, <1>3, <1>4, EntriesRead DEF Entries
<1> QED BY <1>2, <1>5 DEF Holds

-----------------------------------------------------------------------------
(* A directory is written.                                                 *)

LEMMA EntriesPut ==
  ASSUME NEW d, Sound(d), NEW p \in Used(d), NEW in \in Inode,
         in.pointer_block = d.inode[p].pointer_block,
         NEW m \in 0 .. BlockSize, Full(d, p, m),
         NEW entries \in Seq(Entry), block_count_from_size(in.size) <= m,
         NEW g, g = entries_write(d, in, entries)
  PROVE  /\ Sound(g) /\ g.inodes = d.inodes /\ g.inode = d.inode /\ Used(g) = Used(d)
         /\ \A j \in Used(d) \ {p} : Same(d, g, j)
         /\ Full(g, p, block_count_from_size(in.size))
         /\ \A k \in Offsets : k < block_count_from_size(in.size) =>
              g.block[At(g, p, k)] = EntryWords(entries, k)
         /\ Available(d) \subseteq Available(g)
<1> DEFINE c   == block_count_from_size(in.size)
           new == [k \in Offsets |-> IF k < c THEN At(d, p, k) ELSE 0]
<1>1. in.size \in Nat /\ c \in Nat
  BY Count DEF Inode
<1>2. c \in 0 .. m
  BY <1>1
<1>3. Len(entries) \in Nat /\ entries \in [1 .. Len(entries) -> Entry]
  BY LenProperties
<1> HIDE DEF c
<1>4. /\ IsDisk(g) /\ g.inode = d.inode /\ Rewrites(d, g, p, new)
      /\ \A k \in Offsets : k < c => g.block[At(d, p, k)] = EntryWords(entries, k)
  BY <1>2, <1>3, EntriesWritten DEF c
<1>5. \A k \in Offsets : new[k] = IF k < c THEN At(d, p, k) ELSE 0
  OBVIOUS
<1> HIDE DEF new
<1>6. /\ Sound(g) /\ Used(g) = Used(d)
      /\ \A k \in Offsets : At(g, p, k) = new[k]
      /\ \A j \in Used(d) \ {p} : Same(d, g, j)
  BY <1>4, Rewritten
<1>7. g.inodes = d.inodes
  BY <1>4 DEF Rewrites
<1>8. \A k \in Offsets : k < c => At(g, p, k) = At(d, p, k)
  BY <1>5, <1>6
<1>9. Full(g, p, c)
  <2> SUFFICES ASSUME NEW k \in Offsets PROVE At(g, p, k) # 0 <=> k < c
    BY DEF Full
  <2>1. k \in Nat /\ (k < c => k < m)
    BY <1>2, BlockSizeAssumption DEF Offsets
  <2>2. At(d, p, k) # 0 <=> k < m
    BY DEF Full
  <2> QED BY <1>5, <1>6, <2>1, <2>2
<1>10. ASSUME NEW b \in Available(d) PROVE b \in Available(g)
  <2>1. b \in BlockIds /\ b # 0 /\ b \notin d.bitmap
    BY Blocks DEF Available
  <2>2. \A k \in Offsets : new[k] # b
    <3>1. \A k \in Offsets : At(d, p, k) # b
      BY <2>1, BlockAt DEF Places
    <3> QED BY <1>5, <2>1, <3>1
  <2> QED BY <1>4, <2>1, <2>2 DEF Rewrites, Available
<1> QED BY <1>4, <1>6, <1>7, <1>8, <1>9, <1>10 DEF c

(* Inode p is now in, and holds these entries; all others are as they were.*)
Put(d, g, p, in, entries) ==
  /\ Sound(g) /\ g.inodes = d.inodes /\ Used(g) = Used(d)
  /\ g.inode[p] = in /\ Holds(g, p, entries) /\ Others(d, g, p)
  /\ Available(d) \subseteq Available(g)

(* The entries are written, then the inode.                                *)
LEMMA DirectoryWritten ==
  ASSUME NEW d, Sound(d), NEW p \in Used(d), NEW in \in Inode,
         in.pointer_block = d.inode[p].pointer_block,
         NEW m \in 0 .. BlockSize, Full(d, p, m),
         NEW entries \in Seq(Entry), block_count_from_size(in.size) <= m,
         in.size = EntrySize * Len(entries), in.size <= BlockSize * BlockSize,
         NEW g, g = inode_write(entries_write(d, in, entries), p, in)
  PROVE  Put(d, g, p, in, entries)
<1> DEFINE h == entries_write(d, in, entries)
           c == block_count_from_size(in.size)
<1>1. /\ Sound(h) /\ h.inodes = d.inodes /\ h.inode = d.inode /\ Used(h) = Used(d)
      /\ \A j \in Used(d) \ {p} : Same(d, h, j)
      /\ Full(h, p, c)
      /\ \A k \in Offsets : k < c => h.block[At(h, p, k)] = EntryWords(entries, k)
      /\ Available(d) \subseteq Available(h)
  BY EntriesPut
<1> HIDE DEF h
<1>2. g = inode_write(h, p, in)
  BY DEF h
<1>3. /\ Sound(g) /\ g.inodes = h.inodes /\ Used(g) = Used(h) /\ g.inode[p] = in
      /\ g.bitmap = h.bitmap /\ g.block = h.block
      /\ \A k \in Places : At(g, p, k) = At(h, p, k)
      /\ \A j \in Used(h) \ {p} : Same(h, g, j)
  BY ONLY <1>1, <1>2, p \in Used(d), in \in Inode, in.pointer_block = d.inode[p].pointer_block, Resized
<1>4. \A k \in Offsets : At(g, p, k) = At(h, p, k)
  BY <1>3 DEF Places
<1>5. /\ Full(g, p, c)
      /\ \A k \in Offsets : k < c => g.block[At(g, p, k)] = EntryWords(entries, k)
  BY <1>1, <1>3, <1>4 DEF Full
<1>6. Holds(g, p, entries)
  BY <1>1, <1>3, <1>5, HoldsIs
<1>7. \A j \in Used(d) \ {p} : Same(d, g, j)
  BY <1>1, <1>3, SameAgain
<1>8. Available(d) \subseteq Available(g)
  BY <1>1, <1>3 DEF Available
<1> QED BY <1>1, <1>3, <1>6, <1>7, <1>8 DEF Others, Put

(* The inode is written, then the entries.                                 *)
LEMMA DirectoryRewritten ==
  ASSUME NEW d, Sound(d), NEW p \in Used(d), NEW in \in Inode,
         in.pointer_block = d.inode[p].pointer_block,
         NEW m \in 0 .. BlockSize, Full(d, p, m),
         NEW entries \in Seq(Entry), block_count_from_size(in.size) <= m,
         in.size = EntrySize * Len(entries), in.size <= BlockSize * BlockSize,
         NEW g, g = entries_write(inode_write(d, p, in), in, entries)
  PROVE  Put(d, g, p, in, entries)
<1> DEFINE h == inode_write(d, p, in)
           c == block_count_from_size(in.size)
<1>1. /\ Sound(h) /\ h.inodes = d.inodes /\ Used(h) = Used(d) /\ h.inode[p] = in
      /\ h.bitmap = d.bitmap
      /\ \A k \in Places : At(h, p, k) = At(d, p, k)
      /\ \A j \in Used(d) \ {p} : Same(d, h, j)
  BY Resized
<1> HIDE DEF h
<1>2. Full(h, p, m)
  BY <1>1 DEF Full, Places
<1>3. g = entries_write(h, in, entries)
  BY DEF h
<1>4. in.pointer_block = h.inode[p].pointer_block
  BY <1>1
<1>5. /\ Sound(g) /\ g.inodes = h.inodes /\ g.inode = h.inode /\ Used(g) = Used(h)
      /\ \A j \in Used(h) \ {p} : Same(h, g, j)
      /\ Full(g, p, c)
      /\ \A k \in Offsets : k < c => g.block[At(g, p, k)] = EntryWords(entries, k)
      /\ Available(h) \subseteq Available(g)
  BY <1>1, <1>2, <1>3, <1>4, EntriesPut
<1>6. Holds(g, p, entries)
  BY <1>1, <1>5, HoldsIs
<1>7. \A j \in Used(d) \ {p} : Same(d, g, j)
  BY <1>1, <1>5, SameAgain
<1>8. Available(d) \subseteq Available(g)
  BY <1>1, <1>5 DEF Available
<1> QED BY <1>1, <1>5, <1>6, <1>7, <1>8 DEF Others, Put

-----------------------------------------------------------------------------
(* What handlers do to the tree.                                           *)

(* Directory i has an entry of this name, which leads to inode x.          *)
Finds(d, i, name, x) ==
  /\ i \in Directories(d)
  /\ \E e \in 1 .. Len(Entries(d, i)) : /\ Entries(d, i)[e].name = name
                                        /\ Entries(d, i)[e].inode_id = x

(* All that is found in d is found in g.                                   *)
Grows(d, g) == \A i, n, y : Finds(d, i, n, y) => Finds(g, i, n, y)

(* These inodes are still files and directories, and a file holds what it  *)
(* held.                                                                   *)
Spares(d, g, S) ==
  \A i \in S : /\ g.inode[i].is_directory = d.inode[i].is_directory
               /\ ~ d.inode[i].is_directory => Same(d, g, i)

(* No inode comes or goes and no entry either.                             *)
SameTree(d, g) == Used(g) = Used(d) /\ Grows(d, g) /\ Grows(g, d)

(* An empty file or directory.                                             *)
Fresh(g, x, is_directory) ==
  /\ g.inode[x].is_directory = is_directory /\ g.inode[x].size = 0
  /\ \A k \in Offsets : At(g, x, k) = 0

(* Inode x comes with an entry.                                            *)
Adds(d, g, p, name, x) ==
  /\ x \notin Used(d) /\ Used(g) = Used(d) \cup {x} /\ Spares(d, g, Used(d))
  /\ Grows(d, g) /\ Finds(g, p, name, x)
  /\ \A i, n, y : Finds(g, i, n, y) => Finds(d, i, n, y) \/ (i = p /\ n = name)

(* What is found in d is found in g, but for one name in p and all of x.   *)
Keeps(d, g, p, name, x) ==
  \A i, n, y : Finds(d, i, n, y) /\ i # x /\ (i # p \/ n # name) => Finds(g, i, n, y)

(* The name and inode x are gone.                                          *)
Forgets(d, g, p, name, x) ==
  /\ p \in Directories(g) /\ Unnamed(Entries(g, p), name)
  /\ Used(g) = Used(d) \ {x} /\ Spares(d, g, Used(g))
  /\ Keeps(d, g, p, name, x) /\ Grows(g, d)

(* An entry leaves its directory for another one, or only its name.        *)
Moves(d, g, src, from, dst, to, x) ==
  /\ Used(g) = Used(d) /\ Spares(d, g, Used(d)) /\ Finds(g, dst, to, x)
  /\ \A i, n, y : Finds(d, i, n, y) /\ (i # src \/ n # from) => Finds(g, i, n, y)
  /\ \A i, n, y : Finds(g, i, n, y) =>
                    \/ i = dst /\ n = to
                    \/ Finds(d, i, n, y) /\ (i # src \/ n # from)

-----------------------------------------------------------------------------
(* Handlers.                                                               *)

LEMMA NamesLeft ==
  ASSUME NEW s, NEW inodes, Lists(s, inodes), NEW name \in Names, Unnamed(s, name)
  PROVE  /\ Len(s) \in Nat /\ Len(s) \in 0 .. (Cardinality(Names) - 1)
         /\ EntrySize * (Len(s) + 1) <= BlockSize * BlockSize
<1> DEFINE n == Len(s)
           N == Names \ {name}
           D == 1 .. n
           f == [e \in D |-> s[e].name]
<1>1. n \in Nat
  BY LenProperties DEF Lists
<1>2. IsFiniteSet(N) /\ Cardinality(N) = Cardinality(Names) - 1 /\ Cardinality(Names) \in Nat
  BY DirectorySizeAssumption, FS_RemoveElement, FS_CardinalityType
<1>3. IsFiniteSet(D) /\ Cardinality(D) = n
  <2>1. 1 \in Int /\ n \in Int /\ n - 1 + 1 = n /\ (1 > n => n = 0)
    BY <1>1
  <2>2. IsFiniteSet(1 .. n) /\ Cardinality(1 .. n) = IF 1 > n THEN 0 ELSE n - 1 + 1
    <3> HIDE DEF n
    <3> QED BY <2>1, FS_Interval
  <2> QED BY <2>1, <2>2
<1>4. f \in [D -> N] /\ \A e, g \in D : f[e] = f[g] => e = g
  BY DEF Lists, Unnamed
<1> HIDE DEF f, N, D, n
<1>5. f \in Injection(D, N)
  BY <1>4, Zenon DEF Injection, IsInjective
<1>6. n <= Cardinality(Names) - 1
  BY <1>2, <1>3, <1>5, FS_Injection
<1>7. n \in 0 .. (Cardinality(Names) - 1)
  BY <1>1, <1>2, <1>6
<1>8. EntrySize * (n + 1) <= BlockSize * BlockSize
  <2>1. BlockSize * BlockSize \in Nat
    BY BlockSizeAssumption
  <2>2. EntrySize * (n + 1) <= EntrySize * Cardinality(Names)
    BY <1>1, <1>2, <1>6 DEF EntrySize
  <2> QED BY <1>1, <1>2, <2>1, <2>2, DirectorySizeAssumption DEF EntrySize
<1> QED BY <1>1, <1>7, <1>8 DEF n

LEMMA EmptyHolds ==
  ASSUME NEW d, Sound(d), NEW i \in Used(d), d.inode[i].size = 0,
         \A k \in Offsets : At(d, i, k) = 0
  PROVE  Holds(d, i, << >>)
<1>1. << >> \in Seq(Entry) /\ Len(<< >>) = 0
  BY EmptySeq
<1>2. block_count_from_size(d.inode[i].size) = 0
  BY CountZero
<1>3. \A k \in Offsets : ~ k < 0
  BY BlockSizeAssumption DEF Offsets
<1>4. Full(d, i, 0)
  BY <1>3 DEF Full
<1>5. 0 = EntrySize * Len(<< >>) /\ 0 <= BlockSize * BlockSize
  BY <1>1, BlockSizeAssumption DEF EntrySize
<1> QED BY <1>1, <1>2, <1>3, <1>4, <1>5, HoldsIs

Shows(d, list) ==
  \A i \in Directories(d) : Entries(d, i) = list[i] /\ d.inode[i].size = EntrySize * Len(list[i])

LEMMA ConsistentAgain ==
  ASSUME NEW d, Sound(d), NEW list, IsTree(Directories(d), list, d.inodes), Sized(d), Shows(d, list)
  PROVE  Consistent(d)
<1>1. Listed(d)
  BY TreeIsListed DEF Shows
<1> QED BY <1>1 DEF Consistent, Sound

(* The directory p, whose inode will be grown, can take one more entry.    *)
Roomy(d, g, p, grown) ==
  /\ Sound(g) /\ g.inodes = d.inodes /\ g.inode = d.inode /\ Used(g) = Used(d)
  /\ block_count_from_size(grown.size) \in 0 .. BlockSize
  /\ Full(g, p, block_count_from_size(grown.size))
  /\ Others(d, g, p)
  /\ block_seek(d, 2) => block_seek(g, 1)
  /\ grown \in Inode /\ grown.pointer_block = d.inode[p].pointer_block
  /\ grown.size = EntrySize * (Len(Entries(d, p)) + 1)
  /\ grown.size <= BlockSize * BlockSize
  /\ grown.is_directory = d.inode[p].is_directory

LEMMA RoomFor ==
  ASSUME EntriesFit, NEW d, Consistent(d), NEW p \in Directories(d), NEW in, in = d.inode[p],
         NEW name \in Names, Unnamed(Entries(d, p), name),
         block_seek(d, ExtendsBy(in)), NEW g, g = entries_extend(d, in),
         NEW grown, grown = [in EXCEPT !.size = in.size + EntrySize]
  PROVE  Roomy(d, g, p, grown)
<1> DEFINE n == Len(Entries(d, p))
<1>1. /\ p \in Used(d) /\ in \in Inode /\ in.size \in Nat
      /\ Full(d, p, block_count_from_size(in.size))
      /\ IsDisk(d) /\ Sound(d) /\ Listed(d)
  BY DirectoryIs, ConsistentIs
<1>2. in.size = EntrySize * n /\ n \in Nat /\ Lists(Entries(d, p), d.inodes)
  BY <1>1, EntriesAre
<1>3. n \in 0 .. (Cardinality(Names) - 1) /\ EntrySize * (n + 1) <= BlockSize * BlockSize
  BY <1>2, NamesLeft
<1> HIDE DEF n
<1>4. block_count_from_size(EntrySize * n + 1) = block_count_from_size(EntrySize * (n + 1))
  BY <1>3 DEF EntriesFit
<1>5. /\ grown \in Inode /\ grown.size = in.size + EntrySize
      /\ grown.pointer_block = in.pointer_block /\ grown.is_directory = in.is_directory
  BY <1>1 DEF Inode, EntrySize
<1>6. grown.size = EntrySize * (n + 1) /\ in.size + 1 <= BlockSize * BlockSize
      /\ grown.size \in Nat
  <2>1. BlockSize * BlockSize \in Nat
    BY BlockSizeAssumption
  <2> QED BY <1>2, <1>3, <1>5, <2>1 DEF EntrySize
<1>7. /\ Sound(g) /\ g.inodes = d.inodes /\ g.inode = d.inode /\ Used(g) = Used(d)
      /\ Full(g, p, block_count_from_size(in.size + 1))
      /\ \A j \in Used(d) \ {p} : Same(d, g, j)
      /\ block_seek(d, 2) => block_seek(g, 1)
  BY <1>1, <1>6, Extended
<1>8. block_count_from_size(in.size + 1) = block_count_from_size(grown.size)
  BY <1>2, <1>4, <1>6
<1>9. block_count_from_size(grown.size) \in 0 .. BlockSize
  <2>1. block_count_from_size(grown.size) \in Nat /\ block_count_from_size(grown.size) <= BlockSize
    BY <1>3, <1>6, Count, CountFits
  <2> QED BY <2>1, BlockSizeAssumption
<1> QED BY <1>3, <1>5, <1>6, <1>7, <1>8, <1>9 DEF n, Others, Roomy

LEMMA MakeIsConsistent ==
  ASSUME EntriesFit, NEW d, Consistent(d), RoomToMake(d), NEW is_directory \in BOOLEAN,
         NEW p \in Directories(d), NEW in, in = d.inode[p],
         NEW name \in Names, Unnamed(Entries(d, p), name),
         NEW grown, grown = [in EXCEPT !.size = in.size + EntrySize],
         NEW extended, extended = entries_extend(d, in),
         NEW x, x = NewInode(extended),
         NEW made, made = inode_initialize(inode_new(extended), x, is_directory),
         NEW g, g = entries_write(inode_write(made, p, grown), grown,
                                  Append(Entries(d, p), [name |-> name, inode_id |-> x]))
  PROVE  /\ block_seek(extended, 1) /\ Consistent(g)
         /\ Adds(d, g, p, name, x) /\ Fresh(g, x, is_directory)
<1> DEFINE c       == block_count_from_size(grown.size)
           entry   == [name |-> name, inode_id |-> x]
           entries == Append(Entries(d, p), entry)
<1>1. /\ p \in Used(d) /\ in \in Inode /\ in.size \in Nat /\ in.is_directory
      /\ IsDisk(d) /\ Sound(d) /\ Listed(d) /\ p \in InodeIds
  BY DirectoryIs, ConsistentIs
<1>2. block_seek(d, 2) /\ inode_seek(d, 1)
  BY DEF RoomToMake
<1>3. block_seek(d, ExtendsBy(in))
  <2>1. ExtendsBy(in) \in {0, 1}
    BY <1>1, CountNext DEF ExtendsBy
  <2> QED BY <1>2, <2>1, AvailableFinite DEF block_seek
<1>4. /\ Sound(extended) /\ extended.inodes = d.inodes /\ extended.inode = d.inode
      /\ Used(extended) = Used(d)
      /\ c \in 0 .. BlockSize /\ Full(extended, p, c)
      /\ Others(d, extended, p)
      /\ block_seek(extended, 1)
      /\ grown \in Inode /\ grown.pointer_block = in.pointer_block
      /\ grown.size = EntrySize * (Len(Entries(d, p)) + 1)
      /\ grown.size <= BlockSize * BlockSize
      /\ grown.is_directory = in.is_directory
  <2>1. Roomy(d, extended, p, grown)
    BY <1>3, RoomFor, Zenon
  <2> QED BY <1>2, <2>1 DEF Roomy
<1>5. inode_seek(extended, 1)
  BY <1>2, <1>4 DEF inode_seek, FreeInodes
<1> HIDE DEF c
<1>6. /\ Sound(made) /\ Used(made) = Used(d) \cup {x} /\ made.inodes = d.inodes \cup {x}
      /\ x \in InodeIds /\ x \notin Used(d) /\ x # ROOT_INODE
      /\ made.inode[x].size = 0 /\ made.inode[x].is_directory = is_directory
      /\ \A k \in Offsets : At(made, x, k) = 0
      /\ \A j \in Used(d) : Same(extended, made, j)
  <2>1. /\ Sound(made) /\ Used(made) = Used(extended) \cup {x} /\ made.inodes = extended.inodes \cup {x}
        /\ x \in InodeIds /\ x \notin Used(extended) /\ x # ROOT_INODE
        /\ made.inode[x].size = 0 /\ made.inode[x].is_directory = is_directory
        /\ \A k \in Offsets : At(made, x, k) = 0
        /\ \A j \in Used(extended) : Same(extended, made, j)
    BY <1>4, <1>5, Made
  <2> QED BY <1>4, <2>1
<1>7. made.inode[p] = in /\ Full(made, p, c)
  <2>1. Same(extended, made, p)
    BY <1>1, <1>6
  <2>2. made.inode[p] = extended.inode[p] /\ \A k \in Offsets : At(made, p, k) = At(extended, p, k)
    BY <2>1 DEF Same, Places
  <2> QED BY <1>4, <2>2 DEF Full
<1>8. /\ Lists(Entries(d, p), d.inodes) /\ Entries(d, p) \in Seq(Entry)
      /\ Len(Entries(d, p)) \in Nat
  BY <1>1, EntriesAre
<1>9. entry \in Entry /\ entry.name = name /\ entry.inode_id = x
  BY <1>6, NamesAssumption, InodeNumAssumption DEF Entry, InodeIds
<1> HIDE DEF entry
<1>10. entries \in Seq(Entry) /\ Len(entries) = Len(Entries(d, p)) + 1
  BY <1>8, <1>9, AppendProperties
<1>11. g = entries_write(inode_write(made, p, grown), grown, entries)
  BY DEF entry
<1> HIDE DEF entries
<1>12. /\ Sound(g) /\ g.inodes = made.inodes /\ Used(g) = Used(made)
       /\ g.inode[p] = grown /\ Holds(g, p, entries) /\ Others(made, g, p)
  <2>1. p \in Used(made) /\ grown.pointer_block = made.inode[p].pointer_block
        /\ c <= c /\ grown.size = EntrySize * Len(entries)
    BY <1>1, <1>4, <1>6, <1>7, <1>10
  <2>2. Put(made, g, p, grown, entries)
    BY <1>4, <1>6, <1>7, <1>10, <1>11, <2>1, DirectoryRewritten DEF c
  <2> QED BY <2>2 DEF Put
<1>13. /\ Used(g) = Used(d) \cup {x} /\ g.inodes = d.inodes \cup {x}
       /\ \A j \in Used(d) \ {p} : Same(d, g, j)
       /\ Same(made, g, x)
  <2>1. \A j \in Used(d) \ {p} : Same(d, extended, j) /\ Same(extended, made, j) /\ Same(made, g, j)
    BY <1>4, <1>6, <1>12 DEF Others
  <2>2. \A j \in Used(d) \ {p} : Same(d, g, j)
    BY <2>1, SameAgain
  <2> QED BY <1>1, <1>6, <1>12, <2>2 DEF Others
<1>14. Holds(g, x, << >>) /\ g.inode[x].is_directory = is_directory
  <2>1. x \in Used(g) /\ g.inode[x] = made.inode[x] /\ \A k \in Offsets : At(g, x, k) = 0
    <3>1. x \in Used(g) /\ \A k \in Offsets : k \in Places
      BY <1>13 DEF Places
    <3>2. /\ g.inode[x] = made.inode[x]
          /\ \A k \in Places : At(g, x, k) = At(made, x, k)
      BY <1>13 DEF Same
    <3>3. \A k \in Offsets : At(made, x, k) = 0
      BY <1>6
    <3> QED BY <3>1, <3>2, <3>3
  <2>2. g.inode[x].size = 0 /\ g.inode[x].is_directory = is_directory
    BY <1>6, <2>1
  <2> QED BY <1>12, <2>1, <2>2, EmptyHolds
<1> DEFINE list == [i \in Used(g) |-> IF i = p THEN entries
                                      ELSE IF i = x THEN << >> ELSE Entries(d, i)]
<1>15. /\ list[p] = entries /\ list[x] = << >> /\ \A i \in Used(d) \ {p} : list[i] = Entries(d, i)
       /\ p # x /\ x \notin Directories(d)
  BY <1>1, <1>6, <1>13 DEF Directories
<1>16. ASSUME NEW i \in Used(d) \ {p}
       PROVE  /\ SizedAt(g, i) /\ g.inode[i] = d.inode[i]
              /\ i \in Directories(g) <=> i \in Directories(d)
              /\ i \in Directories(d) => Entries(g, i) = Entries(d, i)
  <2>1. i \in Used(d) /\ i \in Used(g) /\ Same(d, g, i) /\ IsDisk(g)
    BY <1>12, <1>13 DEF Sound
  <2> QED BY <2>1, KeptAt
<1>17. Directories(g) = Directories(d) \cup (IF is_directory THEN {x} ELSE {})
  <2>1. p \in Directories(g)
    BY <1>1, <1>4, <1>12, <1>13 DEF Directories
  <2>2. x \in Directories(g) <=> is_directory
    BY <1>13, <1>14 DEF Directories
  <2>3. \A i \in Directories(g) : i = x \/ i \in Used(d)
    BY <1>13 DEF Directories
  <2>4. \A i \in Directories(d) : i \in Used(d)
    BY DEF Directories
  <2> QED BY <1>15, <1>16, <2>1, <2>2, <2>3, <2>4
<1>18. \A i \in Used(g) : SizedAt(g, i)
  BY <1>12, <1>13, <1>14, <1>16 DEF Holds
<1>19. \A i \in Directories(g) : Entries(g, i) = list[i] /\ g.inode[i].size = EntrySize * Len(list[i])
  <2> TAKE i \in Directories(g)
  <2>1. CASE i = p
    <3>1. Entries(g, p) = entries /\ g.inode[p].size = EntrySize * Len(entries)
      BY <1>12 DEF Holds
    <3>2. list[p] = entries
      BY <1>15
    <3> HIDE DEF list
    <3> QED BY <2>1, <3>1, <3>2
  <2>2. CASE i = x
    <3>1. Entries(g, x) = << >> /\ g.inode[x].size = EntrySize * Len(<< >>)
      BY <1>14 DEF Holds
    <3>2. list[x] = << >>
      BY <1>15
    <3> HIDE DEF list
    <3> QED BY <2>2, <3>1, <3>2
  <2>3. CASE i # p /\ i # x
    <3>1. i \in Directories(d) /\ i \in Used(d) \ {p}
      BY <1>17, <2>3 DEF Directories
    <3>2. d.inode[i].size = EntrySize * Len(Entries(d, i))
      BY <1>1, <3>1, EntriesAre
    <3>3. g.inode[i] = d.inode[i] /\ Entries(g, i) = Entries(d, i)
      BY <1>16, <3>1
    <3>4. list[i] = Entries(d, i)
      BY <1>15, <3>1
    <3> HIDE DEF list
    <3> QED BY <3>2, <3>3, <3>4
  <2> QED BY <2>1, <2>2, <2>3
<1> DEFINE was == [i \in Directories(d) |-> Entries(d, i)]
<1>20. IsTree(Directories(g), list, g.inodes)
  <2>1. IsTree(Directories(d), was, d.inodes)
    BY <1>1, ListedIsTree
  <2>2. \A i \in Directories(d) : was[i] = Entries(d, i) /\ Lists(was[i], d.inodes)
    BY <1>1, EntriesAre
  <2>3. ASSUME NEW i \in Directories(d), NEW e \in 1 .. Len(was[i]) PROVE was[i][e].inode_id # x
    BY <1>6, <2>2 DEF Lists, Used
  <2>4. list[p] = Append(was[p], entry)
    BY <1>15, <2>2 DEF entries
  <2>5. /\ \A i \in Directories(d) \ {p} : list[i] = was[i]
        /\ \A i \in Directories(g) \ Directories(d) : list[i] = << >>
    <3>1. \A i \in Directories(d) : i \in Used(d)
      BY DEF Directories
    <3> HIDE DEF list
    <3> QED BY <1>15, <1>17, <2>2, <3>1
  <2>6. Unnamed(was[p], name) /\ Unlisted(Directories(d), was, x)
    BY <2>2, <2>3 DEF Unlisted
  <2> HIDE DEF was, list
  <2>7. /\ p \in Directories(d) /\ x \notin Directories(d)
        /\ entry \in Entry /\ entry.name = name /\ entry.inode_id = x /\ name \in Names
    BY <1>9, <1>15
  <2>8. Directories(d) \subseteq Directories(g) /\ Directories(g) \subseteq Directories(d) \cup {x}
    BY <1>17
  <2>9. d.inodes \subseteq g.inodes /\ x \in g.inodes
    BY <1>13
  <2>10. \A i \in Directories(d) \ {p} : list[i] = was[i]
    BY <2>5
  <2>11. \A i \in Directories(g) \ Directories(d) : list[i] = << >>
    BY <2>5
  <2>12. Unnamed(was[p], entry.name) /\ Unlisted(Directories(d), was, entry.inode_id)
    BY <2>6, <2>7
  <2> QED BY <2>1, <2>4, <2>7, <2>8, <2>9, <2>10, <2>11, <2>12, TreeGrows
<1> HIDE DEF list
<1>21. Consistent(g)
  <2>1. Sized(g) /\ Shows(g, list)
    BY <1>18, <1>19 DEF Sized, Shows
  <2> QED BY <1>12, <1>20, <2>1, ConsistentAgain, Zenon
<1>22. Adds(d, g, p, name, x)
  <2> DEFINE s == Entries(d, p)
             n == Len(s)
  <2>1. p \in Directories(g) /\ Entries(g, p) = entries
    BY <1>12, <1>17 DEF Holds
  <2>2. /\ entries[n + 1] = entry /\ n + 1 \in 1 .. Len(entries)
        /\ \A e \in 1 .. n : e \in 1 .. Len(entries) /\ entries[e] = s[e]
    <3> HIDE DEF s
    <3>1. s \in Seq(Entry) /\ n \in Nat
      BY <1>8 DEF s
    <3>2. entries = Append(s, entry)
      BY DEF entries, s
    <3> QED BY <1>9, <3>1, <3>2, AppendProperties
  <2>3. Finds(g, p, name, x)
    BY <1>9, <2>1, <2>2 DEF Finds
  <2>4. ASSUME NEW i, NEW nm, NEW y, Finds(d, i, nm, y) PROVE Finds(g, i, nm, y)
    <3>1. i \in Directories(d) /\ i \in Directories(g)
      BY <1>17, <2>4 DEF Finds
    <3>2. CASE i = p
      <4>1. PICK e \in 1 .. n : s[e].name = nm /\ s[e].inode_id = y
        BY <2>4, <3>2 DEF Finds
      <4>2. e \in 1 .. Len(entries) /\ entries[e].name = nm /\ entries[e].inode_id = y
        BY <2>2, <4>1
      <4> HIDE DEF entries, n, s
      <4> QED BY <2>1, <3>2, <4>2 DEF Finds
    <3>3. CASE i # p
      <4>1. Entries(g, i) = Entries(d, i)
        BY <1>16, <3>1, <3>3 DEF Directories
      <4> QED BY <2>4, <3>1, <4>1 DEF Finds
    <3> QED BY <3>2, <3>3
  <2>5. ASSUME NEW i, NEW nm, NEW y, Finds(g, i, nm, y), i # p \/ nm # name
        PROVE  Finds(d, i, nm, y)
    <3>1. i \in Directories(g) /\ (i \in Directories(d) \/ i = x)
      BY <1>17, <2>5 DEF Finds
    <3>2. PICK e \in 1 .. Len(Entries(g, i)) : /\ Entries(g, i)[e].name = nm
                                              /\ Entries(g, i)[e].inode_id = y
      BY <2>5 DEF Finds
    <3>3. CASE i = p
      <4>1. e \in 1 .. (n + 1) /\ n \in Nat
        <5> HIDE DEF s
        <5> QED BY <1>8, <1>10, <2>1, <3>2, <3>3 DEF s
      <4>2. e # n + 1
        BY <1>9, <2>1, <2>2, <2>5, <3>2, <3>3
      <4>3. e \in 1 .. n
        <5> HIDE DEF n
        <5> QED BY <4>1, <4>2
      <4>4. s[e].name = nm /\ s[e].inode_id = y
        BY <2>1, <2>2, <3>2, <3>3, <4>3
      <4>5. p \in Directories(d)
        OBVIOUS
      <4> QED BY <3>3, <4>3, <4>4, <4>5 DEF Finds
    <3>4. CASE i = x
      <4>1. Entries(g, x) = << >>
        BY <1>14 DEF Holds
      <4> QED BY <3>2, <3>4, <4>1
    <3>5. CASE i # p /\ i # x
      <4>1. i \in Directories(d) /\ Entries(g, i) = Entries(d, i)
        BY <1>16, <3>1, <3>5 DEF Directories
      <4> QED BY <3>2, <4>1 DEF Finds
    <3> QED BY <3>3, <3>4, <3>5
  <2>6. Spares(d, g, Used(d))
    <3>1. g.inode[p].is_directory = d.inode[p].is_directory /\ d.inode[p].is_directory
      BY <1>1, <1>4, <1>12
    <3>2. \A i \in Used(d) \ {p} : Same(d, g, i) /\ g.inode[i] = d.inode[i]
      BY <1>13, <1>16
    <3> QED BY <3>1, <3>2 DEF Spares
  <2> QED BY <1>6, <1>13, <2>3, <2>4, <2>5, <2>6 DEF Adds, Grows
<1>23. Fresh(g, x, is_directory)
  <2>1. \A k \in Offsets : k \in Places
    BY DEF Places
  <2>2. g.inode[x] = made.inode[x] /\ \A k \in Offsets : At(g, x, k) = At(made, x, k)
    BY <1>13, <2>1 DEF Same
  <2>3. g.inode[x].is_directory = is_directory /\ g.inode[x].size = 0
    BY <1>6, <2>2
  <2>4. \A k \in Offsets : At(g, x, k) = 0
    <3>1. \A k \in Offsets : At(made, x, k) = 0
      BY <1>6
    <3> QED BY <2>2, <3>1
  <2> QED BY <1>14, <2>3, <2>4 DEF Fresh
<1> QED BY <1>4, <1>21, <1>22, <1>23

-----------------------------------------------------------------------------
(* Paths.                                                                  *)

Walk(d, path, m, at) ==
  at = [n \in 0 .. m |-> IF n = 0 THEN ROOT_INODE
                         ELSE IF at[n-1] = NoInode THEN NoInode
                         ELSE lookup(d, at[n-1], path[n])]

LEMMA WalkExists ==
  ASSUME NEW d, NEW path, NEW m \in Nat
  PROVE  \E at : Walk(d, path, m, at)
<1> DEFINE T == {k \in Nat : ~ \E at : Walk(d, path, k, at)}
<1> SUFFICES ASSUME T # {} PROVE FALSE
  OBVIOUS
<1>1. PICK k \in T : \A j \in T : k <= j
  <2>1. T \in SUBSET Nat
    OBVIOUS
  <2> HIDE DEF T
  <2> QED BY <2>1, LeastNatural
<1>2. CASE k = 0
  <2> DEFINE at == [n \in 0 .. 0 |-> ROOT_INODE]
  <2>1. at = [n \in 0 .. 0 |-> IF n = 0 THEN ROOT_INODE
                               ELSE IF at[n-1] = NoInode THEN NoInode
                               ELSE lookup(d, at[n-1], path[n])]
    OBVIOUS
  <2> QED BY <1>1, <1>2, <2>1 DEF Walk
<1>3. CASE k # 0
  <2>1. k \in Nat /\ k - 1 \in Nat /\ k - 1 \notin T
    BY <1>1, <1>3
  <2>2. PICK w : Walk(d, path, k - 1, w)
    BY <2>1
  <2> DEFINE at == [n \in 0 .. k |->
                      IF n < k THEN w[n]
                      ELSE IF w[n-1] = NoInode THEN NoInode ELSE lookup(d, w[n-1], path[n])]
  <2>3. \A n \in 0 .. (k - 1) : at[n] = w[n] /\ n \in 0 .. k
    BY <2>1
  <2>4. \A n \in 0 .. (k - 1) : w[n] = IF n = 0 THEN ROOT_INODE
                                      ELSE IF w[n-1] = NoInode THEN NoInode
                                      ELSE lookup(d, w[n-1], path[n])
    BY <2>2 DEF Walk
  <2>5. ASSUME NEW n \in 0 .. k
        PROVE  at[n] = IF n = 0 THEN ROOT_INODE
                       ELSE IF at[n-1] = NoInode THEN NoInode
                       ELSE lookup(d, at[n-1], path[n])
    <3>1. CASE n = 0
      <4>1. 0 \in 0 .. (k - 1)
        BY <2>1
      <4> HIDE DEF at
      <4> QED BY <2>3, <2>4, <3>1, <4>1
    <3>2. CASE n # 0 /\ n < k
      <4>1. n \in 0 .. (k - 1) /\ n - 1 \in 0 .. (k - 1)
        BY <2>1, <3>2
      <4> HIDE DEF at
      <4> QED BY <2>3, <2>4, <3>2, <4>1
    <3>3. CASE n = k
      <4>1. n - 1 \in 0 .. (k - 1) /\ n # 0 /\ ~ n < k
        BY <1>3, <2>1, <3>3
      <4>2. at[n-1] = w[n-1]
        BY <2>3, <4>1
      <4> QED BY <4>1, <4>2
    <3> QED BY <2>1, <3>1, <3>2, <3>3
  <2>6. DOMAIN at = 0 .. k /\ at = [n \in 0 .. k |-> at[n]]
    OBVIOUS
  <2> HIDE DEF at
  <2>7. at = [n \in 0 .. k |-> IF n = 0 THEN ROOT_INODE
                               ELSE IF at[n-1] = NoInode THEN NoInode
                               ELSE lookup(d, at[n-1], path[n])]
    BY <2>5, <2>6
  <2> QED BY <1>1, <2>7 DEF Walk
<1> QED BY <1>2, <1>3

LEMMA ResolveWalks ==
  ASSUME NEW d, NEW path \in Seq(Names)
  PROVE  \E at : Walk(d, path, Len(path), at) /\ resolve_path(d, path) = at[Len(path)]
<1> DEFINE at == CHOOSE at : Walk(d, path, Len(path), at)
<1>1. \E w : Walk(d, path, Len(path), w)
  BY WalkExists, LenProperties
<1>2. Walk(d, path, Len(path), at)
  BY <1>1
<1>3. resolve_path(d, path) = at[Len(path)]
  BY DEF resolve_path, Walk
<1> QED BY <1>2, <1>3

LEMMA FrontLast ==
  ASSUME NEW path \in Seq(Names), path # << >>
  PROVE  /\ Len(path) \in Nat /\ Len(path) # 0
         /\ Front(path) \in Seq(Names) /\ Len(Front(path)) = Len(path) - 1
         /\ \A n \in 1 .. (Len(path) - 1) : Front(path)[n] = path[n]
         /\ Last(path) \in Names /\ Last(path) = path[Len(path)]
<1> DEFINE m == Len(path)
<1>1. m \in Nat \ {0} /\ \A n \in 1 .. m : path[n] \in Names
  BY EmptySeq, ElementOfSeq
<1> HIDE DEF m
<1>2. /\ SubSeq(path, 1, m - 1) \in Seq(Names)
      /\ Len(SubSeq(path, 1, m - 1)) = IF 1 <= m - 1 THEN (m - 1) - 1 + 1 ELSE 0
      /\ \A n \in 1 .. ((m - 1) - 1 + 1) : SubSeq(path, 1, m - 1)[n] = path[1 + n - 1]
  BY <1>1, SubSeqProperties
<1>3. /\ (m - 1) - 1 + 1 = m - 1
      /\ \A n \in 1 .. (m - 1) : 1 + n - 1 = n
      /\ m \in 1 .. m
  BY <1>1
<1> QED BY <1>1, <1>2, <1>3 DEF Front, Last, m

LEMMA FrontLastInjective ==
  ASSUME NEW p \in Seq(Names), NEW q \in Seq(Names), p # << >>, q # << >>,
         Front(p) = Front(q), Last(p) = Last(q)
  PROVE  p = q
<1>1. /\ Len(p) \in Nat /\ Len(q) \in Nat /\ Len(p) = Len(q)
      /\ \A n \in 1 .. (Len(p) - 1) : p[n] = q[n]
      /\ p[Len(p)] = q[Len(p)]
  <2>1. /\ Len(p) \in Nat /\ Len(Front(p)) = Len(p) - 1 /\ Last(p) = p[Len(p)]
        /\ \A n \in 1 .. (Len(p) - 1) : Front(p)[n] = p[n]
    BY FrontLast
  <2>2. /\ Len(q) \in Nat /\ Len(Front(q)) = Len(q) - 1 /\ Last(q) = q[Len(q)]
        /\ \A n \in 1 .. (Len(q) - 1) : Front(q)[n] = q[n]
    BY FrontLast
  <2>3. Len(p) = Len(q)
    BY <2>1, <2>2
  <2>4. \A n \in 1 .. (Len(p) - 1) : p[n] = q[n]
    BY <2>1, <2>2, <2>3
  <2> QED BY <2>1, <2>2, <2>3, <2>4
<1>2. \A n \in 1 .. Len(p) : n \in 1 .. (Len(p) - 1) \/ n = Len(p)
  BY <1>1
<1>3. \A n \in 1 .. Len(p) : p[n] = q[n]
  BY <1>1, <1>2
<1> QED BY <1>1, <1>3, SeqEqual

LEMMA ResolveStep ==
  ASSUME NEW d, NEW path \in Seq(Names), path # << >>
  PROVE  resolve_path(d, path) = lookup(d, resolve_path(d, Front(path)), Last(path))
<1> DEFINE m == Len(path)
<1>1. /\ m \in Nat /\ m # 0 /\ Front(path) \in Seq(Names) /\ Len(Front(path)) = m - 1
      /\ \A n \in 1 .. (m - 1) : Front(path)[n] = path[n]
      /\ Last(path) = path[m]
  BY FrontLast
<1>2. PICK a : Walk(d, path, m, a) /\ resolve_path(d, path) = a[m]
  BY ResolveWalks
<1>3. PICK b : Walk(d, Front(path), m - 1, b) /\ resolve_path(d, Front(path)) = b[m - 1]
  BY <1>1, ResolveWalks
<1> HIDE DEF m
<1>4. \A n \in 0 .. m : a[n] = IF n = 0 THEN ROOT_INODE
                               ELSE IF a[n-1] = NoInode THEN NoInode
                               ELSE lookup(d, a[n-1], path[n])
  BY <1>2 DEF Walk
<1>5. \A n \in 0 .. (m - 1) : b[n] = IF n = 0 THEN ROOT_INODE
                                    ELSE IF b[n-1] = NoInode THEN NoInode
                                    ELSE lookup(d, b[n-1], Front(path)[n])
  BY <1>3 DEF Walk
<1> DEFINE T == {n \in 0 .. (m - 1) : a[n] # b[n]}
<1>6. T = {}
  <2> SUFFICES ASSUME T # {} PROVE FALSE
    OBVIOUS
  <2>1. T \in SUBSET Nat
    OBVIOUS
  <2>2. PICK n \in T : \A k \in T : n <= k
    <3> HIDE DEF T
    <3> QED BY <2>1, LeastNatural
  <2>3. n \in 0 .. (m - 1) /\ n \in 0 .. m /\ a[n] # b[n]
    BY <1>1, <2>2
  <2>4. n # 0
    BY <1>4, <1>5, <2>3
  <2>5. n - 1 \in 0 .. (m - 1) /\ n \in 1 .. (m - 1)
    BY <1>1, <2>3, <2>4
  <2>6. a[n-1] = b[n-1]
    BY <2>2, <2>5
  <2> QED BY <1>1, <1>4, <1>5, <2>3, <2>4, <2>5, <2>6
<1>7. m - 1 \in 0 .. (m - 1) /\ m \in 0 .. m
  BY <1>1
<1>8. a[m - 1] = b[m - 1]
  BY <1>6, <1>7
<1>9. resolve_path(d, path) = IF a[m-1] = NoInode THEN NoInode ELSE lookup(d, a[m-1], path[m])
  BY <1>1, <1>2, <1>4, <1>7
<1>10. lookup(d, NoInode, path[m]) = NoInode
  BY DEF lookup
<1> QED BY <1>1, <1>3, <1>8, <1>9, <1>10

LEMMA ResolveRoot ==
  ASSUME NEW d
  PROVE  resolve_path(d, << >>) = ROOT_INODE
<1>1. << >> \in Seq(Names) /\ Len(<< >>) = 0
  BY EmptySeq
<1>2. PICK a : Walk(d, << >>, 0, a) /\ resolve_path(d, << >>) = a[0]
  BY <1>1, ResolveWalks
<1>3. 0 \in 0 .. 0
  OBVIOUS
<1>4. a[0] = ROOT_INODE
  BY <1>2, <1>3 DEF Walk
<1> QED BY <1>2, <1>4

Reached(d) == Used(d) \cup {NoInode}

LEMMA InodesAre ==
  ASSUME NEW d, IsDisk(d)
  PROVE  /\ NoInode \notin InodeIds /\ NoInode \notin Used(d) /\ NoInode \notin d.inodes
         /\ ROOT_INODE \notin d.inodes /\ ROOT_INODE # NoInode
         /\ \A x \in d.inodes : x \in Used(d)
BY Fields, InodeNumAssumption DEF InodeIds, NoInode, ROOT_INODE, Used

LEMMA LookupFinds ==
  ASSUME NEW d, Consistent(d), NEW i \in Reached(d), NEW name
  PROVE  /\ lookup(d, i, name) \in d.inodes \cup {NoInode}
         /\ lookup(d, i, name) # NoInode => Finds(d, i, name, lookup(d, i, name))
         /\ \A x : Finds(d, i, name, x) => lookup(d, i, name) = x /\ x \in d.inodes /\ x # NoInode
<1> DEFINE s == Entries(d, i)
           found == entries_find(s, name)
<1>1. IsDisk(d) /\ Listed(d) /\ NoInode \notin Used(d) /\ NoInode \notin d.inodes
  BY ConsistentIs, InodesAre
<1>2. CASE i \notin Directories(d)
  <2>1. i = NoInode \/ ~ d.inode[i].is_directory
    BY <1>2 DEF Directories, Reached
  <2>2. lookup(d, i, name) = NoInode
    BY <2>1 DEF lookup
  <2> QED BY <1>2, <2>2 DEF Finds
<1>3. CASE i \in Directories(d)
  <2>1. /\ i # NoInode /\ d.inode[i].is_directory
        /\ Lists(s, d.inodes) /\ DOMAIN s = 1 .. Len(s) /\ Len(s) \in Nat
    BY <1>1, <1>3, EntriesAre DEF Directories
  <2>2. lookup(d, i, name) = IF found = {} THEN NoInode
                             ELSE s[CHOOSE e \in found : \A f \in found : e <= f].inode_id
    BY <2>1 DEF lookup, Entries
  <2> HIDE DEF s
  <2>3. found = {e \in 1 .. Len(s) : s[e].name = name}
    BY <2>1 DEF entries_find
  <2>4. ASSUME NEW e \in 1 .. Len(s), s[e].name = name
        PROVE  lookup(d, i, name) = s[e].inode_id /\ s[e].inode_id \in d.inodes
    <3>1. found = {e}
      BY <2>1, <2>3, <2>4 DEF Lists
    <3>2. e <= e
      BY <2>1
    <3>3. (CHOOSE c \in found : \A f \in found : c <= f) = e
      BY <3>1, <3>2
    <3> QED BY <2>1, <2>2, <3>1, <3>3 DEF Lists
  <2>5. ASSUME \A e \in 1 .. Len(s) : s[e].name # name PROVE lookup(d, i, name) = NoInode
    BY <2>2, <2>3, <2>5
  <2>6. \A x : Finds(d, i, name, x) => lookup(d, i, name) = x /\ x \in d.inodes /\ x # NoInode
    BY <1>1, <2>4 DEF Finds, s
  <2>7. lookup(d, i, name) # NoInode => Finds(d, i, name, lookup(d, i, name))
    BY <1>3, <2>4, <2>5 DEF Finds, s
  <2> QED BY <2>4, <2>5, <2>6, <2>7
<1> QED BY <1>2, <1>3

(* A path leads to an inode in use, or to none.                            *)
LEMMA ResolveReaches ==
  ASSUME NEW d, Consistent(d)
  PROVE  \A path \in Seq(Names) : resolve_path(d, path) \in Reached(d)
<1> DEFINE T == {n \in Nat : \E p \in Seq(Names) : Len(p) = n /\ resolve_path(d, p) \notin Reached(d)}
<1>1. T = {}
  <2> SUFFICES ASSUME T # {} PROVE FALSE
    OBVIOUS
  <2>1. T \in SUBSET Nat
    OBVIOUS
  <2>2. PICK n \in T : \A k \in T : n <= k
    <3> HIDE DEF T
    <3> QED BY <2>1, LeastNatural
  <2>3. PICK p \in Seq(Names) : Len(p) = n /\ resolve_path(d, p) \notin Reached(d)
    BY <2>2
  <2>4. CASE p = << >>
    <3>1. resolve_path(d, p) = ROOT_INODE
      BY <2>4, ResolveRoot
    <3> QED BY <2>3, <3>1 DEF Reached, Used
  <2>5. CASE p # << >>
    <3>1. Front(p) \in Seq(Names) /\ Len(Front(p)) = n - 1 /\ n - 1 \in Nat /\ n \in Nat
      BY <2>3, <2>5, FrontLast
    <3>2. n - 1 \notin T
      BY <2>2, <3>1
    <3>3. resolve_path(d, Front(p)) \in Reached(d)
      BY <3>1, <3>2
    <3>4. resolve_path(d, p) \in d.inodes \cup {NoInode}
      BY <2>5, <3>3, ResolveStep, LookupFinds
    <3> QED BY <2>3, <3>4 DEF Reached, Used
  <2> QED BY <2>4, <2>5
<1>2. ASSUME NEW p \in Seq(Names) PROVE resolve_path(d, p) \in Reached(d)
  <2>1. Len(p) \in Nat /\ Len(p) \notin T
    BY <1>1, LenProperties
  <2> QED BY <2>1
<1> QED BY <1>2

LEMMA ResolveFinds ==
  ASSUME NEW d, Consistent(d), NEW path \in Seq(Names), path # << >>
  PROVE  /\ resolve_path(d, path) \in d.inodes \cup {NoInode}
         /\ resolve_path(d, path) # NoInode =>
              Finds(d, resolve_path(d, Front(path)), Last(path), resolve_path(d, path))
         /\ \A x : Finds(d, resolve_path(d, Front(path)), Last(path), x) =>
                     resolve_path(d, path) = x /\ x \in d.inodes /\ x # NoInode
<1>1. Front(path) \in Seq(Names)
  BY FrontLast
<1>2. resolve_path(d, Front(path)) \in Reached(d)
  BY <1>1, ResolveReaches
<1> QED BY <1>2, LookupFinds, ResolveStep

(* No inode is at the end of two paths.                                    *)
LEMMA ResolveInjective ==
  ASSUME NEW d, Consistent(d)
  PROVE  \A p, q \in Seq(Names) :
           resolve_path(d, p) = resolve_path(d, q) /\ resolve_path(d, p) # NoInode => p = q
<1> DEFINE Twins(p, q) == /\ resolve_path(d, p) = resolve_path(d, q)
                          /\ resolve_path(d, p) # NoInode /\ p # q
           T == {n \in Nat : \E p, q \in Seq(Names) : Len(p) = n /\ Twins(p, q)}
<1>0. IsDisk(d) /\ Listed(d) /\ ROOT_INODE \notin d.inodes /\ ROOT_INODE # NoInode
  BY ConsistentIs, InodesAre
<1>1. T = {}
  <2> SUFFICES ASSUME T # {} PROVE FALSE
    OBVIOUS
  <2>1. T \in SUBSET Nat
    OBVIOUS
  <2>2. PICK n \in T : \A k \in T : n <= k
    <3> HIDE DEF T
    <3> QED BY <2>1, LeastNatural
  <2>3. PICK p \in Seq(Names), q \in Seq(Names) : Len(p) = n /\ Twins(p, q)
    BY <2>2
  <2>4. CASE p = << >>
    <3>1. q # << >> /\ resolve_path(d, q) = ROOT_INODE
      BY <2>3, <2>4, ResolveRoot
    <3> QED BY <1>0, <3>1, ResolveFinds
  <2>5. CASE q = << >>
    <3>1. p # << >> /\ resolve_path(d, p) = ROOT_INODE
      BY <2>3, <2>5, ResolveRoot
    <3> QED BY <1>0, <3>1, ResolveFinds
  <2>6. CASE p # << >> /\ q # << >>
    <3> DEFINE x == resolve_path(d, p)
               a == resolve_path(d, Front(p))
               b == resolve_path(d, Front(q))
    <3>1. Finds(d, a, Last(p), x) /\ Finds(d, b, Last(q), x)
      BY <2>3, <2>6, ResolveFinds
    <3>2. Front(p) \in Seq(Names) /\ Len(Front(p)) = n - 1 /\ n - 1 \in Nat /\ n \in Nat
          /\ Front(q) \in Seq(Names)
      BY <2>3, <2>6, FrontLast
    <3> HIDE DEF a, b, x
    <3>3. PICK e \in 1 .. Len(Entries(d, a)) : Entries(d, a)[e].name = Last(p)
                                               /\ Entries(d, a)[e].inode_id = x
      BY <3>1 DEF Finds
    <3>4. PICK f \in 1 .. Len(Entries(d, b)) : Entries(d, b)[f].name = Last(q)
                                               /\ Entries(d, b)[f].inode_id = x
      BY <3>1 DEF Finds
    <3>5. /\ a \in Directories(d) /\ b \in Directories(d)
          /\ e \in DOMAIN Entries(d, a) /\ f \in DOMAIN Entries(d, b)
      BY <1>0, <3>1, <3>3, <3>4, EntriesAre DEF Finds
    <3>6. a = b /\ e = f
      BY <3>3, <3>4, <3>5, <1>0 DEF Listed
    <3>7. Last(p) = Last(q)
      BY <3>3, <3>4, <3>6
    <3>8. a # NoInode
      BY <1>0, <3>5, InodesAre DEF Directories
    <3>9. Front(p) # Front(q)
      BY <2>3, <2>6, <3>7, FrontLastInjective
    <3>10. Twins(Front(p), Front(q))
      BY <3>6, <3>8, <3>9 DEF a, b
    <3>11. n - 1 \in T
      BY <3>2, <3>10
    <3>12. n <= n - 1
      <4> HIDE DEF T
      <4> QED BY <2>2, <3>11
    <3> QED BY <3>2, <3>12
  <2> QED BY <2>4, <2>5, <2>6
<1>2. ASSUME NEW p \in Seq(Names), NEW q \in Seq(Names), Twins(p, q) PROVE FALSE
  <2>1. Len(p) \in Nat /\ Len(p) \notin T
    BY <1>1, LenProperties
  <2> QED BY <1>2, <2>1
<1> QED BY <1>2

-----------------------------------------------------------------------------
(* An entry is removed with its inode.                                     *)

LEMMA TreeWithout ==
  ASSUME NEW dirs, NEW list, NEW inodes, IsTree(dirs, list, inodes),
         NEW x, Unlisted(dirs, list, x), x # ROOT_INODE
  PROVE  IsTree(dirs \ {x}, list, inodes \ {x})
BY DEF IsTree, Lists, Unlisted

LEMMA RemovedEntry ==
  ASSUME NEW d, Consistent(d), NEW p \in Directories(d), NEW in, in = d.inode[p],
         NEW e \in 1 .. Len(Entries(d, p)), NEW x, x = Entries(d, p)[e].inode_id, x # p,
         NEW name, name = Entries(d, p)[e].name,
         NEW shrunk, shrunk = [in EXCEPT !.size = in.size - EntrySize],
         NEW g, g = inode_write(entries_write(inode_finalize(d, x), shrunk,
                                              RemoveAt(Entries(d, p), e)), p, shrunk)
  PROVE  Consistent(g) /\ Available(g) # {} /\ Forgets(d, g, p, name, x)
<1> DEFINE s       == Entries(d, p)
           n       == Len(s)
           m       == block_count_from_size(in.size)
           entries == RemoveAt(s, e)
           h       == inode_finalize(d, x)
<1>1. /\ p \in Used(d) /\ in \in Inode /\ in.size \in Nat /\ in.is_directory
      /\ in.size <= BlockSize * BlockSize /\ Full(d, p, m)
      /\ IsDisk(d) /\ Sound(d) /\ Listed(d) /\ p \in InodeIds
  BY DirectoryIs, ConsistentIs
<1>2. /\ Lists(s, d.inodes) /\ s \in Seq(Entry) /\ n \in Nat /\ in.size = EntrySize * n
  BY <1>1, EntriesAre
<1>3. x \in d.inodes /\ x \in Used(d) /\ x # ROOT_INODE
  BY <1>1, <1>2, InodesAre DEF Lists
<1>4. m \in Nat /\ m <= BlockSize
  BY <1>1, Count, CountFits
<1> HIDE DEF h, m
<1>5. /\ Sound(h) /\ Used(h) = Used(d) \ {x} /\ h.inodes = d.inodes \ {x}
      /\ h.inode = d.inode /\ Available(h) # {}
      /\ \A j \in Used(d) \ {x} : Same(d, h, j)
  <2>1. SizedAt(d, x) /\ d.inode[x].size <= BlockSize * BlockSize
    BY <1>3, ConsistentIs
  <2>2. \A k \in Offsets : k >= block_count_from_size(d.inode[x].size) => At(d, x, k) = 0
    BY <2>1 DEF SizedAt
  <2> QED BY <1>1, <1>3, <2>1, <2>2, Freed DEF h
<1>6. Full(h, p, m) /\ p \in Used(h) /\ m \in 0 .. BlockSize
  <2>1. Full(h, p, m)
    BY <1>1, <1>5 DEF Same, Full, Places
  <2> QED BY <1>1, <1>4, <1>5, <2>1, BlockSizeAssumption
<1>7. /\ entries \in Seq(Entry) /\ Len(entries) = n - 1
  BY <1>2, RemovedAt
<1>8. n - 1 \in Nat
  BY <1>2
<1> HIDE DEF entries
<1>9. /\ shrunk \in Inode /\ shrunk.size = EntrySize * (n - 1)
      /\ shrunk.pointer_block = in.pointer_block /\ shrunk.is_directory = in.is_directory
      /\ shrunk.size \in Nat /\ shrunk.size <= in.size
  <2> HIDE DEF n
  <2>1. in.size - EntrySize = EntrySize * (n - 1) /\ in.size - EntrySize \in Nat
        /\ in.size - EntrySize <= in.size
    BY <1>1, <1>2, <1>8 DEF EntrySize
  <2>2. /\ shrunk \in Inode /\ shrunk.size = in.size - EntrySize
        /\ shrunk.pointer_block = in.pointer_block /\ shrunk.is_directory = in.is_directory
    BY <1>1, <2>1 DEF Inode
  <2> QED BY <2>1, <2>2
<1>10. block_count_from_size(shrunk.size) <= m /\ shrunk.size <= BlockSize * BlockSize
  <2>1. BlockSize * BlockSize \in Nat
    BY BlockSizeAssumption
  <2> QED BY <1>1, <1>9, <2>1, CountGrows DEF m
<1>11. Put(h, g, p, shrunk, entries)
  <2>1. g = inode_write(entries_write(h, shrunk, entries), p, shrunk)
    BY DEF h, entries
  <2>2. shrunk.pointer_block = h.inode[p].pointer_block /\ shrunk.size = EntrySize * Len(entries)
    BY <1>5, <1>7, <1>9
  <2> QED BY <1>5, <1>6, <1>7, <1>9, <1>10, <2>1, <2>2, DirectoryWritten
<1>12. /\ Sound(g) /\ g.inodes = d.inodes \ {x} /\ Used(g) = Used(d) \ {x}
       /\ g.inode[p] = shrunk /\ Holds(g, p, entries) /\ Available(g) # {}
       /\ \A j \in Used(d) \ {x, p} : Same(d, g, j)
  <2>1. /\ Sound(g) /\ g.inodes = h.inodes /\ Used(g) = Used(h)
        /\ g.inode[p] = shrunk /\ Holds(g, p, entries)
        /\ \A j \in Used(h) \ {p} : Same(h, g, j)
        /\ Available(h) \subseteq Available(g)
    BY <1>11 DEF Put, Others
  <2>2. \A j \in Used(d) \ {x, p} : Same(d, h, j) /\ Same(h, g, j)
    BY <1>5, <2>1
  <2>3. \A j \in Used(d) \ {x, p} : Same(d, g, j)
    BY <2>2, SameAgain
  <2> QED BY <1>5, <2>1, <2>3
<1>13. ASSUME NEW i \in Used(d) \ {x, p}
       PROVE  /\ SizedAt(g, i) /\ g.inode[i] = d.inode[i]
              /\ i \in Directories(g) <=> i \in Directories(d)
              /\ i \in Directories(d) => Entries(g, i) = Entries(d, i)
  <2>1. i \in Used(d) /\ i \in Used(g) /\ Same(d, g, i) /\ IsDisk(g)
    BY <1>12 DEF Sound
  <2> QED BY <2>1, KeptAt
<1>14. Directories(g) = Directories(d) \ {x} /\ p \in Directories(g)
  <2>1. p \in Directories(g)
    BY <1>1, <1>3, <1>9, <1>12 DEF Directories
  <2>2. /\ \A i \in Directories(g) : i \in Used(d) /\ i # x
        /\ \A i \in Directories(d) : i \in Used(d)
    BY <1>12 DEF Directories
  <2> QED BY <1>13, <2>1, <2>2
<1>15. Entries(g, p) = entries /\ g.inode[p].size = EntrySize * Len(entries) /\ SizedAt(g, p)
  BY <1>12 DEF Holds
<1> DEFINE was  == [i \in Directories(d) |-> Entries(d, i)]
           list == [i \in Directories(d) |-> IF i = p THEN entries ELSE Entries(d, i)]
<1>16. /\ list[p] = entries /\ was[p] = s
       /\ \A i \in Directories(d) \ {p} : list[i] = Entries(d, i) /\ list[i] = was[i]
       /\ \A i \in Directories(d) : was[i] = Entries(d, i)
  OBVIOUS
<1> HIDE DEF was, list
<1>17. /\ IsTree(Directories(d), list, d.inodes)
       /\ Unnamed(list[p], name) /\ Unlisted(Directories(d), list, x)
       /\ \A f \in 1 .. n : f # e => \E k \in 1 .. Len(entries) : entries[k] = s[f]
  <2>1. IsTree(Directories(d), was, d.inodes)
    BY <1>1, <1>16, ListedIsTree
  <2>2. list[p] = RemoveAt(was[p], e) /\ e \in 1 .. Len(was[p])
        /\ was[p][e].name = name /\ was[p][e].inode_id = x
    BY <1>16 DEF entries
  <2>3. \A i \in Directories(d) \ {p} : list[i] = was[i]
    BY <1>16
  <2>4. /\ IsTree(Directories(d), list, d.inodes)
        /\ Unnamed(list[p], was[p][e].name) /\ Unlisted(Directories(d), list, was[p][e].inode_id)
        /\ \A f \in 1 .. Len(was[p]) :
             f # e => \E k \in 1 .. Len(list[p]) : list[p][k] = was[p][f]
    BY <2>1, <2>2, <2>3, TreeShrinks
  <2> QED BY <1>16, <2>2, <2>4
<1>18. IsTree(Directories(g), list, g.inodes)
  <2>1. IsTree(Directories(d) \ {x}, list, d.inodes \ {x})
    <3>1. x # ROOT_INODE
      BY <1>3
    <3> QED BY ONLY <1>17, <3>1, TreeWithout
  <2>2. g.inodes = d.inodes \ {x}
    BY <1>12
  <2> QED BY <1>14, <2>1, <2>2
<1>19. Sized(g) /\ Shows(g, list)
  <2>1. \A i \in Used(g) : SizedAt(g, i)
    BY <1>12, <1>13, <1>15
  <2>2. ASSUME NEW i \in Directories(g)
        PROVE  Entries(g, i) = list[i] /\ g.inode[i].size = EntrySize * Len(list[i])
    <3>1. CASE i = p
      BY <1>15, <1>16, <3>1
    <3>2. CASE i # p
      <4>1. i \in Directories(d) /\ i \in Used(d) \ {x, p}
        BY <1>14, <3>2 DEF Directories
      <4>2. d.inode[i].size = EntrySize * Len(Entries(d, i))
        BY <1>1, <4>1, EntriesAre
      <4> QED BY <1>13, <1>16, <4>1, <4>2
    <3> QED BY <3>1, <3>2
  <2> QED BY <2>1, <2>2 DEF Sized, Shows
<1>20. Consistent(g)
  BY <1>12, <1>18, <1>19, ConsistentAgain
<1>21. ASSUME NEW i, NEW nm, NEW y, Finds(d, i, nm, y), i # x, i # p \/ nm # name
       PROVE  Finds(g, i, nm, y)
  <2>1. i \in Directories(g) /\ i \in Directories(d)
    BY <1>14, <1>21 DEF Finds
  <2>2. PICK f \in 1 .. Len(Entries(d, i)) : Entries(d, i)[f].name = nm
                                             /\ Entries(d, i)[f].inode_id = y
    BY <1>21 DEF Finds
  <2>3. CASE i # p
    <3>1. Entries(g, i) = Entries(d, i)
      BY <1>13, <1>21, <2>1, <2>3 DEF Directories
    <3> QED BY <2>1, <2>2, <3>1 DEF Finds
  <2>4. CASE i = p
    <3>1. f \in 1 .. n /\ f # e
      BY <1>21, <2>2, <2>4
    <3>2. PICK k \in 1 .. Len(entries) : entries[k] = s[f]
      BY <1>17, <3>1
    <3> QED BY <1>15, <2>1, <2>2, <2>4, <3>2 DEF Finds
  <2> QED BY <2>3, <2>4
<1>22. ASSUME NEW i, NEW nm, NEW y, Finds(g, i, nm, y)
       PROVE  Finds(d, i, nm, y)
  <2>1. i \in Directories(g) /\ i \in Directories(d)
    BY <1>14, <1>22 DEF Finds
  <2>2. PICK k \in 1 .. Len(Entries(g, i)) : Entries(g, i)[k].name = nm
                                             /\ Entries(g, i)[k].inode_id = y
    BY <1>22 DEF Finds
  <2>3. CASE i # p
    <3>1. Entries(g, i) = Entries(d, i)
      BY <1>13, <1>22, <2>1, <2>3, <1>14 DEF Directories
    <3> QED BY <2>1, <2>2, <3>1 DEF Finds
  <2>4. CASE i = p
    <3>1. Entries(g, i) = entries /\ k \in 1 .. (n - 1)
      <4> HIDE DEF s, n
      <4> QED BY <1>7, <1>15, <2>2, <2>4
    <3>2. PICK f \in 1 .. n : entries[k] = s[f]
      <4>1. entries[k] = IF k < e THEN s[k] ELSE s[k + 1]
        BY <1>2, <3>1, RemovedAt DEF entries
      <4>2. k \in 1 .. n /\ k + 1 \in 1 .. n
        <5> HIDE DEF n
        <5> QED BY <1>2, <3>1
      <4> QED BY <4>1, <4>2
    <3> QED BY <2>1, <2>2, <2>4, <3>1, <3>2 DEF Finds
  <2> QED BY <2>3, <2>4
<1>23. Spares(d, g, Used(g))
  <2>1. g.inode[p].is_directory = d.inode[p].is_directory /\ d.inode[p].is_directory
    BY <1>1, <1>9, <1>12
  <2>2. \A i \in Used(g) \ {p} : Same(d, g, i) /\ g.inode[i] = d.inode[i]
    BY <1>12, <1>13
  <2> SUFFICES ASSUME NEW i \in Used(g)
               PROVE  /\ g.inode[i].is_directory = d.inode[i].is_directory
                      /\ ~ d.inode[i].is_directory => Same(d, g, i)
    BY Zenon DEF Spares
  <2> QED BY ONLY <2>1, <2>2, Zenon
<1>24. Forgets(d, g, p, name, x)
  BY <1>12, <1>14, <1>15, <1>16, <1>17, <1>21, <1>22, <1>23 DEF Forgets, Keeps, Grows
<1> QED BY <1>12, <1>20, <1>24

(* The entry that a name is found at.                                      *)
LEMMA FoundAt ==
  ASSUME NEW d, Consistent(d), NEW i, NEW name, NEW x, Finds(d, i, name, x),
         NEW found, found = entries_find(Entries(d, i), name)
  PROVE  \E e \in 1 .. Len(Entries(d, i)) :
           /\ found = {e} /\ found # {}
           /\ Entries(d, i)[e].name = name /\ Entries(d, i)[e].inode_id = x
           /\ (CHOOSE c \in found : TRUE) = e
           /\ (CHOOSE c \in found : \A f \in found : c <= f) = e
<1> DEFINE s == Entries(d, i)
<1>1. /\ Lists(s, d.inodes) /\ DOMAIN s = 1 .. Len(s) /\ Len(s) \in Nat
  BY ConsistentIs, EntriesAre DEF Finds
<1>2. PICK e \in 1 .. Len(s) : s[e].name = name /\ s[e].inode_id = x
  BY DEF Finds
<1> HIDE DEF s
<1>3. found = {e}
  <2>1. found = {f \in 1 .. Len(s) : s[f].name = name}
    BY <1>1 DEF entries_find, s
  <2> QED BY <1>1, <1>2, <2>1 DEF Lists
<1>4. e <= e
  BY <1>1
<1>5. (CHOOSE c \in found : \A f \in found : c <= f) = e
  BY <1>3, <1>4
<1>6. (CHOOSE c \in found : TRUE) = e
  BY <1>3
<1> QED BY <1>2, <1>3, <1>5, <1>6 DEF s

(* remove is what makes the parent directory forget a name.                *)
LEMMA RemoveIs ==
  ASSUME NEW d, Consistent(d), NEW path \in Seq(Names), path # << >>,
         NEW p, p = resolve_path(d, Front(path)), p \in Directories(d),
         NEW x, x = resolve_path(d, path), NEW g, g = remove(d, path)
  PROVE  /\ x = NoInode => g = d
         /\ x # NoInode => /\ Consistent(g) /\ Available(g) # {}
                           /\ Forgets(d, g, p, Last(path), x)
<1> DEFINE name   == Last(path)
           in     == d.inode[p]
           found  == entries_find(Entries(d, p), name)
           shrunk == [in EXCEPT !.size = in.size - EntrySize]
<1>1. /\ p # NoInode /\ Front(path) \in Seq(Names) /\ IsDisk(d)
      /\ Len(Front(path)) = Len(path) - 1 /\ Len(path) \in Nat
  BY InodesAre, ConsistentIs, FrontLast DEF Directories
<1>2. g = IF found = {} THEN d
          ELSE LET e == CHOOSE e \in found : \A f \in found : e <= f
               IN  inode_write(entries_write(inode_finalize(d, Entries(d, p)[e].inode_id), shrunk,
                                             RemoveAt(Entries(d, p), e)), p, shrunk)
  BY <1>1 DEF remove, resolve_parent_path, Entries
<1> HIDE DEF found
<1>3. CASE x = NoInode
  <2>1. found = {}
    <3> SUFFICES ASSUME found # {} PROVE FALSE
      OBVIOUS
    <3>1. PICK e \in DOMAIN Entries(d, p) : Entries(d, p)[e].name = name
      BY DEF found, entries_find
    <3>2. e \in 1 .. Len(Entries(d, p))
      BY <3>1, ConsistentIs, EntriesAre
    <3>3. Finds(d, p, name, Entries(d, p)[e].inode_id)
      BY <3>1, <3>2 DEF Finds
    <3> QED BY <3>3, <1>3, ResolveFinds
  <2> QED BY <1>2, <1>3, <2>1
<1>4. CASE x # NoInode
  <2>1. Finds(d, p, name, x)
    BY <1>4, ResolveFinds
  <2>2. PICK e \in 1 .. Len(Entries(d, p)) :
           /\ found # {}
           /\ Entries(d, p)[e].name = name /\ Entries(d, p)[e].inode_id = x
           /\ (CHOOSE c \in found : \A f \in found : c <= f) = e
    BY <2>1, FoundAt DEF found
  <2>3. g = inode_write(entries_write(inode_finalize(d, x), shrunk, RemoveAt(Entries(d, p), e)),
                        p, shrunk)
    BY <1>2, <2>2
  <2>4. x # p
    <3> SUFFICES ASSUME x = p PROVE FALSE
      OBVIOUS
    <3>1. path = Front(path)
      BY <1>1, <1>4, ResolveInjective
    <3> QED BY <1>1, <3>1
  <2> HIDE DEF shrunk, in, name
  <2>5. in = d.inode[p] /\ name = Entries(d, p)[e].name /\ shrunk = [in EXCEPT !.size = in.size - EntrySize]
        /\ x = Entries(d, p)[e].inode_id
    BY <2>2 DEF in, shrunk
  <2>6. Consistent(g) /\ Available(g) # {} /\ Forgets(d, g, p, name, x)
    BY <2>3, <2>4, <2>5, RemovedEntry
  <2> QED BY <1>4, <2>6 DEF name
<1> QED BY <1>3, <1>4

(* Prefixes.                                                               *)

LEMMA StartOf ==
  ASSUME NEW s \in Seq(Names), NEW m \in 0 .. Len(s)
  PROVE  /\ SubSeq(s, 1, m) \in Seq(Names) /\ Len(SubSeq(s, 1, m)) = m
         /\ \A n \in 1 .. m : SubSeq(s, 1, m)[n] = s[n]
<1>1. Len(s) \in Nat /\ \A n \in 1 .. Len(s) : s[n] \in Names
  BY LenProperties, ElementOfSeq
<1>2. m \in Nat /\ \A n \in 1 .. m : s[n] \in Names
  BY <1>1
<1>3. /\ SubSeq(s, 1, m) \in Seq(Names)
      /\ Len(SubSeq(s, 1, m)) = IF 1 <= m THEN m - 1 + 1 ELSE 0
      /\ \A n \in 1 .. (m - 1 + 1) : SubSeq(s, 1, m)[n] = s[1 + n - 1]
  BY <1>2, SubSeqProperties
<1>4. m - 1 + 1 = m /\ \A n \in 1 .. m : 1 + n - 1 = n
  BY <1>2
<1> QED BY <1>2, <1>3, <1>4

LEMMA PrefixIs ==
  ASSUME NEW s \in Seq(Names), NEW t \in Seq(Names)
  PROVE  IsPrefix(s, t) <=> Len(s) <= Len(t) /\ \A n \in 1 .. Len(s) : s[n] = t[n]
<1>1. Len(s) \in Nat /\ Len(t) \in Nat
  BY LenProperties
<1>2. SUFFICES ASSUME Len(s) <= Len(t)
               PROVE  SubSeq(s, 1, Len(s)) = SubSeq(t, 1, Len(s))
                        <=> \A n \in 1 .. Len(s) : s[n] = t[n]
  BY <1>2 DEF IsPrefix
<1> DEFINE m == Len(s)
           a == SubSeq(s, 1, m)
           b == SubSeq(t, 1, m)
<1>3. m \in 0 .. Len(s) /\ m \in 0 .. Len(t)
  BY <1>1, <1>2
<1>4. a \in Seq(Names) /\ Len(a) = m /\ \A n \in 1 .. m : a[n] = s[n]
  BY <1>3, StartOf
<1>5. b \in Seq(Names) /\ Len(b) = m /\ \A n \in 1 .. m : b[n] = t[n]
  BY <1>3, StartOf
<1> HIDE DEF a, b, m
<1>6. (\A n \in 1 .. m : a[n] = b[n]) => a = b
  BY <1>4, <1>5, SeqEqual
<1>7. a = b <=> \A n \in 1 .. m : s[n] = t[n]
  BY <1>4, <1>5, <1>6
<1> QED BY <1>7 DEF a, b, m

LEMMA PrefixOfFront ==
  ASSUME NEW s \in Seq(Names), NEW t \in Seq(Names), t # << >>
  PROVE  /\ IsPrefix(t, t) /\ ~ IsPrefix(t, Front(t))
         /\ IsPrefix(s, Front(t)) => IsPrefix(s, t)
<1>1. /\ Len(t) \in Nat /\ Len(s) \in Nat /\ Front(t) \in Seq(Names) /\ Len(Front(t)) = Len(t) - 1
      /\ \A n \in 1 .. (Len(t) - 1) : Front(t)[n] = t[n]
  BY FrontLast, LenProperties
<1>2. IsPrefix(t, t)
  BY <1>1, PrefixIs
<1>3. ~ IsPrefix(t, Front(t))
  BY <1>1 DEF IsPrefix
<1>4. ASSUME IsPrefix(s, Front(t)) PROVE IsPrefix(s, t)
  <2>1. Len(s) <= Len(t) - 1 /\ \A n \in 1 .. Len(s) : s[n] = Front(t)[n]
    BY <1>1, <1>4, PrefixIs
  <2>2. Len(s) <= Len(t) /\ \A n \in 1 .. Len(s) : s[n] = t[n]
    BY <1>1, <2>1
  <2> QED BY <2>2, PrefixIs
<1> QED BY <1>2, <1>3, <1>4

(* The path m[q] leads in g where q led in d, for every q of S: it does    *)
(* for the shortest of them, and entries are found again for the others.   *)
Follows(d, g, S, m, q) ==
  \/ resolve_path(g, m[q]) = resolve_path(d, q)
  \/ /\ q # << >> /\ m[q] # << >> /\ Front(q) \in S
     /\ m[Front(q)] = Front(m[q]) /\ Last(m[q]) = Last(q)
     /\ \A a, y : Finds(d, a, Last(q), y) /\ a = resolve_path(d, Front(q)) /\ y = resolve_path(d, q)
                   => Finds(g, a, Last(q), y)

LEMMA Carried ==
  ASSUME NEW d, Consistent(d), NEW g, Consistent(g), NEW S, \A q \in S : q \in Seq(Names),
         NEW m \in [S -> Seq(Names)],
         \A q \in S : resolve_path(d, q) # NoInode => Follows(d, g, S, m, q)
  PROVE  \A q \in S : resolve_path(d, q) # NoInode => resolve_path(g, m[q]) = resolve_path(d, q)
<1> DEFINE Lost(q) == resolve_path(d, q) # NoInode /\ resolve_path(g, m[q]) # resolve_path(d, q)
           T == {n \in Nat : \E q \in S : Len(q) = n /\ Lost(q)}
<1>1. T = {}
  <2> SUFFICES ASSUME T # {} PROVE FALSE
    OBVIOUS
  <2>1. T \in SUBSET Nat
    OBVIOUS
  <2>2. PICK n \in T : \A k \in T : n <= k
    <3> HIDE DEF T
    <3> QED BY <2>1, LeastNatural
  <2>3. PICK q \in S : Len(q) = n /\ Lost(q)
    BY <2>2
  <2> DEFINE y == resolve_path(d, q)
             a == resolve_path(d, Front(q))
  <2>4. /\ q # << >> /\ m[q] # << >> /\ Front(q) \in S
        /\ m[Front(q)] = Front(m[q]) /\ Last(m[q]) = Last(q)
        /\ Finds(d, a, Last(q), y) => Finds(g, a, Last(q), y)
    BY <2>3 DEF Follows
  <2>5. Finds(d, a, Last(q), y)
    BY <2>3, <2>4, ResolveFinds
  <2>6. Front(q) \in Seq(Names) /\ Len(Front(q)) = n - 1 /\ n - 1 \in Nat /\ n \in Nat
    BY <2>3, <2>4, FrontLast
  <2>7. a # NoInode
    BY <2>5, InodesAre, ConsistentIs DEF Finds, Directories
  <2>8. n - 1 \notin T
    BY <2>2, <2>6
  <2>9. resolve_path(g, Front(m[q])) = a
    BY <2>4, <2>6, <2>7, <2>8
  <2>10. resolve_path(g, m[q]) = y
    BY <2>4, <2>5, <2>9, ResolveFinds
  <2> QED BY <2>3, <2>10
<1>2. ASSUME NEW q \in S, Lost(q) PROVE FALSE
  <2>1. Len(q) \in Nat /\ Len(q) \notin T
    BY <1>1, <1>2, LenProperties
  <2> QED BY <1>2, <2>1
<1> QED BY <1>2

(* A path stays when a name is removed that it does not go through.        *)
LEMMA Survives ==
  ASSUME NEW d, Consistent(d), NEW g, Consistent(g), NEW path \in Seq(Names), path # << >>,
         NEW p, p = resolve_path(d, Front(path)), p \in Directories(d),
         NEW x, x = resolve_path(d, path), x # NoInode, Keeps(d, g, p, Last(path), x)
  PROVE  \A q \in Seq(Names) : resolve_path(d, q) # NoInode /\ ~ IsPrefix(path, q) =>
                                 resolve_path(g, q) = resolve_path(d, q)
<1> DEFINE S == {q \in Seq(Names) : ~ IsPrefix(path, q)}
           m == [q \in S |-> q]
<1>1. ASSUME NEW q \in S, resolve_path(d, q) # NoInode PROVE Follows(d, g, S, m, q)
  <2> DEFINE y == resolve_path(d, q)
             a == resolve_path(d, Front(q))
  <2>1. CASE q = << >>
    BY <2>1, ResolveRoot DEF Follows
  <2>2. CASE q # << >>
    <3>1. Front(q) \in Seq(Names) /\ ~ IsPrefix(path, Front(q))
      BY <2>2, FrontLast, PrefixOfFront
    <3>2. Front(q) \in S /\ m[q] = q /\ m[Front(q)] = Front(q)
      BY <3>1
    <3>3. Finds(d, a, Last(q), y) /\ a # NoInode
      BY <1>1, <2>2, ResolveFinds, InodesAre, ConsistentIs DEF Finds, Directories
    <3>4. a # x
      <4> SUFFICES ASSUME a = x PROVE FALSE
        OBVIOUS
      <4>1. Front(q) = path
        BY <3>1, <3>3, ResolveInjective
      <4> QED BY <3>1, <4>1, PrefixOfFront
    <3>5. a # p \/ Last(q) # Last(path)
      <4> SUFFICES ASSUME a = p, Last(q) = Last(path) PROVE FALSE
        OBVIOUS
      <4>1. Front(path) \in Seq(Names)
        BY FrontLast
      <4>2. Front(q) = Front(path)
        BY <3>1, <3>3, <4>1, ResolveInjective
      <4>3. q = path
        BY <2>2, <4>2, FrontLastInjective
      <4> QED BY <4>3, PrefixOfFront
    <3>6. Finds(g, a, Last(q), y)
      BY <3>3, <3>4, <3>5 DEF Keeps
    <3> HIDE DEF S, m
    <3> QED BY <2>2, <3>2, <3>6 DEF Follows
  <2> QED BY <2>1, <2>2
<1>2. \A q \in S : resolve_path(d, q) # NoInode => resolve_path(g, m[q]) = resolve_path(d, q)
  <2>1. m \in [S -> Seq(Names)] /\ \A q \in S : q \in Seq(Names)
    OBVIOUS
  <2> HIDE DEF S, m
  <2> QED BY <1>1, <2>1, Carried
<1>3. \A q \in S : m[q] = q
  OBVIOUS
<1> QED BY <1>2, <1>3

(* A path stays where nothing that is found is lost.                       *)
LEMMA PathsStay ==
  ASSUME NEW d, Consistent(d), NEW g, Consistent(g), Grows(d, g)
  PROVE  \A q \in Seq(Names) : resolve_path(d, q) # NoInode =>
                                 resolve_path(g, q) = resolve_path(d, q)
<1> DEFINE m == [q \in Seq(Names) |-> q]
<1>1. ASSUME NEW q \in Seq(Names), resolve_path(d, q) # NoInode
      PROVE  Follows(d, g, Seq(Names), m, q)
  <2>1. CASE q = << >>
    BY <2>1, ResolveRoot DEF Follows
  <2>2. CASE q # << >>
    <3>1. Front(q) \in Seq(Names) /\ m[q] = q /\ m[Front(q)] = Front(q)
      BY <2>2, FrontLast
    <3> HIDE DEF m
    <3> QED BY <2>2, <3>1 DEF Follows, Grows
  <2> QED BY <2>1, <2>2
<1>2. m \in [Seq(Names) -> Seq(Names)] /\ \A q \in Seq(Names) : m[q] = q
  OBVIOUS
<1> HIDE DEF m
<1>3. \A q \in Seq(Names) : resolve_path(d, q) # NoInode => resolve_path(g, m[q]) = resolve_path(d, q)
  BY <1>1, <1>2, Carried
<1> QED BY <1>2, <1>3

LEMMA PrefixGoesOn ==
  ASSUME NEW s \in Seq(Names), NEW t \in Seq(Names), IsPrefix(s, t), s # t
  PROVE  t # << >> /\ IsPrefix(s, Front(t)) /\ Len(s) < Len(t)
<1>1. /\ Len(s) \in Nat /\ Len(t) \in Nat
      /\ Len(s) <= Len(t) /\ \A n \in 1 .. Len(s) : s[n] = t[n]
  BY LenProperties, PrefixIs
<1>2. Len(s) < Len(t)
  <2>1. Len(s) # Len(t)
    BY <1>1, SeqEqual
  <2> QED BY <1>1, <2>1
<1>3. t # << >>
  BY <1>1, <1>2
<1>4. /\ Front(t) \in Seq(Names) /\ Len(Front(t)) = Len(t) - 1
      /\ \A n \in 1 .. (Len(t) - 1) : Front(t)[n] = t[n]
  BY <1>3, FrontLast
<1>5. Len(s) <= Len(Front(t)) /\ \A n \in 1 .. Len(s) : s[n] = Front(t)[n]
  BY <1>1, <1>2, <1>4
<1>6. IsPrefix(s, Front(t))
  BY <1>4, <1>5, PrefixIs
<1> QED BY <1>2, <1>3, <1>6

(* A path that goes on behind another one finds something in what that one *)
(* leads to.                                                               *)
Childless(d, x) == \A n, y : ~ Finds(d, x, n, y)

LEMMA PathsEnd ==
  ASSUME NEW d, Consistent(d), NEW path \in Seq(Names), NEW x, x = resolve_path(d, path),
         Childless(d, x)
  PROVE  \A q \in Seq(Names) : IsPrefix(path, q) /\ resolve_path(d, q) # NoInode => q = path
<1> DEFINE Behind(q) == IsPrefix(path, q) /\ resolve_path(d, q) # NoInode /\ q # path
           T == {n \in Nat : \E q \in Seq(Names) : Len(q) = n /\ Behind(q)}
<1>1. T = {}
  <2> SUFFICES ASSUME T # {} PROVE FALSE
    OBVIOUS
  <2>1. T \in SUBSET Nat
    OBVIOUS
  <2>2. PICK n \in T : \A k \in T : n <= k
    <3> HIDE DEF T
    <3> QED BY <2>1, LeastNatural
  <2>3. PICK q \in Seq(Names) : Len(q) = n /\ Behind(q)
    BY <2>2
  <2>4. q # << >> /\ IsPrefix(path, Front(q))
    BY <2>3, PrefixGoesOn
  <2>5. Front(q) \in Seq(Names) /\ Len(Front(q)) = n - 1 /\ n - 1 \in Nat /\ n \in Nat
    BY <2>3, <2>4, FrontLast
  <2>6. Finds(d, resolve_path(d, Front(q)), Last(q), resolve_path(d, q))
    BY <2>3, <2>4, ResolveFinds
  <2>7. Front(q) # path
    BY <2>6 DEF Childless
  <2>8. resolve_path(d, Front(q)) # NoInode
    BY <2>6, InodesAre, ConsistentIs DEF Finds, Directories
  <2>9. n - 1 \in T
    BY <2>4, <2>5, <2>7, <2>8
  <2> QED BY <2>2, <2>5, <2>9
<1>2. ASSUME NEW q \in Seq(Names), Behind(q) PROVE FALSE
  <2>1. Len(q) \in Nat /\ Len(q) \notin T
    BY <1>1, <1>2, LenProperties
  <2> QED BY <1>2, <2>1
<1> QED BY <1>2

(* q with another start: new in the place of old.                          *)
Restarted(old, new, q) ==
  [n \in 1 .. (Len(q) - Len(old) + Len(new)) |->
     IF n <= Len(new) THEN new[n] ELSE q[n - Len(new) + Len(old)]]

LEMMA RestartedIs ==
  ASSUME NEW old \in Seq(Names), NEW new \in Seq(Names), new # << >>,
         NEW q \in Seq(Names), IsPrefix(old, q)
  PROVE  /\ Restarted(old, new, q) \in Seq(Names)
         /\ Len(Restarted(old, new, q)) = Len(q) - Len(old) + Len(new)
         /\ Restarted(old, new, q) # << >>
         /\ q = old => Restarted(old, new, q) = new
<1> DEFINE r == Restarted(old, new, q)
           m == Len(q) - Len(old) + Len(new)
<1>1. /\ Len(old) \in Nat /\ Len(new) \in Nat /\ Len(q) \in Nat /\ Len(old) <= Len(q)
      /\ (\A n \in 1 .. Len(new) : new[n] \in Names) /\ \A n \in 1 .. Len(q) : q[n] \in Names
  BY LenProperties, ElementOfSeq, PrefixIs
<1>2. m \in Nat /\ m >= Len(new) /\ Len(new) > 0
  <2>1. Len(new) # 0
    BY EmptySeq
  <2> QED BY <1>1, <2>1
<1>3. r = [n \in 1 .. m |-> IF n <= Len(new) THEN new[n] ELSE q[n - Len(new) + Len(old)]]
  BY DEF Restarted
<1> HIDE DEF r
<1>4. \A n \in 1 .. m : r[n] \in Names
  <2> TAKE n \in 1 .. m
  <2>1. CASE n <= Len(new)
    BY <1>1, <1>2, <1>3, <2>1
  <2>2. CASE n > Len(new)
    <3>1. n - Len(new) + Len(old) \in 1 .. Len(q)
      BY <1>1, <1>2, <2>2
    <3>2. r[n] = q[n - Len(new) + Len(old)]
      BY <1>1, <1>2, <1>3, <2>2
    <3> QED BY <1>1, <3>1, <3>2
  <2> QED BY <1>1, <1>2, <2>1, <2>2
<1>5. r \in [1 .. m -> Names]
  <2> HIDE DEF m
  <2> QED BY <1>3, <1>4
<1>6. r \in Seq(Names) /\ Len(r) = m
  <2> HIDE DEF m
  <2> QED BY <1>2, <1>5
<1>7. r # << >>
  BY <1>2, <1>6
<1>8. ASSUME q = old PROVE r = new
  <2>1. m = Len(new)
    BY <1>1, <1>8
  <2>2. \A n \in 1 .. Len(new) : r[n] = new[n]
    BY <1>1, <1>2, <1>3, <2>1
  <2> QED BY <1>6, <2>1, <2>2, SeqEqual
<1> QED BY <1>6, <1>7, <1>8 DEF r

LEMMA RestartedFront ==
  ASSUME NEW old \in Seq(Names), NEW new \in Seq(Names), new # << >>,
         NEW q \in Seq(Names), IsPrefix(old, q), q # old
  PROVE  /\ q # << >> /\ Front(q) \in Seq(Names) /\ IsPrefix(old, Front(q))
         /\ Restarted(old, new, Front(q)) = Front(Restarted(old, new, q))
         /\ Last(Restarted(old, new, q)) = Last(q)
<1> DEFINE r == Restarted(old, new, q)
           f == Restarted(old, new, Front(q))
           m == Len(q) - Len(old) + Len(new)
<1>1. /\ q # << >> /\ IsPrefix(old, Front(q)) /\ Len(old) < Len(q)
      /\ Len(old) \in Nat /\ Len(new) \in Nat /\ Len(q) \in Nat
  BY PrefixGoesOn, LenProperties
<1>2. /\ Front(q) \in Seq(Names) /\ Len(Front(q)) = Len(q) - 1
      /\ (\A n \in 1 .. (Len(q) - 1) : Front(q)[n] = q[n]) /\ Last(q) = q[Len(q)]
  BY <1>1, FrontLast DEF Last
<1>3. /\ r \in Seq(Names) /\ Len(r) = m /\ r # << >>
      /\ f \in Seq(Names) /\ Len(f) = Len(q) - 1 - Len(old) + Len(new)
  <2>1. r \in Seq(Names) /\ Len(r) = m /\ r # << >>
    BY RestartedIs
  <2>2. f \in Seq(Names) /\ Len(f) = Len(Front(q)) - Len(old) + Len(new)
    BY <1>1, <1>2, RestartedIs
  <2> QED BY <1>2, <2>1, <2>2
<1>4. Len(f) = m - 1 /\ m \in Nat /\ m > Len(new)
  BY <1>1, <1>3
<1>5. /\ Front(r) \in Seq(Names) /\ Len(Front(r)) = m - 1
      /\ (\A n \in 1 .. (m - 1) : Front(r)[n] = r[n]) /\ Last(r) = r[m]
  BY <1>3, FrontLast DEF Last
<1>6. /\ \A n \in 1 .. m : r[n] = IF n <= Len(new) THEN new[n] ELSE q[n - Len(new) + Len(old)]
      /\ \A n \in 1 .. (m - 1) : f[n] = IF n <= Len(new) THEN new[n]
                                        ELSE Front(q)[n - Len(new) + Len(old)]
  BY <1>1, <1>2 DEF Restarted
<1> HIDE DEF r, f
<1>7. ASSUME NEW n \in 1 .. (m - 1) PROVE f[n] = r[n]
  <2>1. n \in 1 .. m
    BY <1>4
  <2>2. CASE n <= Len(new)
    BY <1>6, <2>1, <2>2
  <2>3. CASE n > Len(new)
    <3>1. n - Len(new) + Len(old) \in 1 .. (Len(q) - 1)
      BY <1>1, <2>3
    <3>2. f[n] = Front(q)[n - Len(new) + Len(old)] /\ r[n] = q[n - Len(new) + Len(old)]
      BY <1>1, <1>6, <2>1, <2>3
    <3> QED BY <1>2, <3>1, <3>2
  <2> QED BY <1>1, <2>2, <2>3
<1>8. f = Front(r)
  BY <1>3, <1>4, <1>5, <1>7, SeqEqual
<1>9. Last(r) = Last(q)
  <2>1. m \in 1 .. m /\ ~ m <= Len(new) /\ m - Len(new) + Len(old) = Len(q)
    BY <1>1, <1>4
  <2> QED BY <1>2, <1>5, <1>6, <2>1
<1> QED BY <1>1, <1>2, <1>8, <1>9 DEF f, r

(* An entry moves, and with it all paths that go through it.               *)
LEMMA PathsMove ==
  ASSUME NEW d, Consistent(d), NEW g, Consistent(g),
         NEW old \in Seq(Names), old # << >>, NEW new \in Seq(Names), new # << >>,
         ~ IsPrefix(old, new),
         NEW src, src = resolve_path(d, Front(old)), NEW dst, dst = resolve_path(d, Front(new)),
         dst # NoInode, NEW x, x = resolve_path(d, old), x # NoInode,
         Moves(d, g, src, Last(old), dst, Last(new), x)
  PROVE  \A q \in Seq(Names) : resolve_path(d, q) # NoInode =>
           resolve_path(d, q) = IF IsPrefix(old, q) THEN resolve_path(g, Restarted(old, new, q))
                                ELSE resolve_path(g, q)
<1>1. /\ Finds(d, src, Last(old), x) /\ src \in Directories(d) /\ src # NoInode
      /\ Front(old) \in Seq(Names) /\ Front(new) \in Seq(Names)
  <2>1. Finds(d, src, Last(old), x)
    BY ResolveFinds
  <2>2. src \in Directories(d)
    BY <2>1 DEF Finds
  <2>3. src # NoInode
    BY <2>2, InodesAre, ConsistentIs DEF Directories
  <2> QED BY <2>1, <2>2, <2>3, FrontLast
<1>2. Keeps(d, g, src, Last(old), x)
  BY DEF Moves, Keeps
<1>3. \A q \in Seq(Names) : resolve_path(d, q) # NoInode /\ ~ IsPrefix(old, q) =>
                              resolve_path(g, q) = resolve_path(d, q)
  BY <1>1, <1>2, Survives
<1>4. resolve_path(g, new) = x
  <2>1. ~ IsPrefix(old, Front(new))
    BY PrefixOfFront
  <2>2. resolve_path(g, Front(new)) = dst
    BY <1>1, <1>3, <2>1
  <2> QED BY <2>2, ResolveFinds DEF Moves
<1> DEFINE S == {q \in Seq(Names) : IsPrefix(old, q)}
           m == [q \in S |-> Restarted(old, new, q)]
<1>5. ASSUME NEW q \in S, resolve_path(d, q) # NoInode PROVE Follows(d, g, S, m, q)
  <2>1. q \in Seq(Names) /\ IsPrefix(old, q) /\ m[q] = Restarted(old, new, q)
    OBVIOUS
  <2>2. CASE q = old
    <3>1. m[q] = new
      BY <2>1, <2>2, RestartedIs
    <3> QED BY <1>4, <2>2, <3>1 DEF Follows
  <2>3. CASE q # old
    <3>1. /\ q # << >> /\ Front(q) \in Seq(Names) /\ IsPrefix(old, Front(q))
          /\ Restarted(old, new, Front(q)) = Front(m[q]) /\ Last(m[q]) = Last(q) /\ m[q] # << >>
      BY <2>1, <2>3, RestartedFront, RestartedIs
    <3>2. Front(q) \in S /\ m[Front(q)] = Front(m[q])
      BY <3>1
    <3>3. ASSUME NEW a, NEW y, Finds(d, a, Last(q), y), a = resolve_path(d, Front(q))
          PROVE  Finds(g, a, Last(q), y)
      <4>1. a # src
        <5> SUFFICES ASSUME a = src PROVE FALSE
          OBVIOUS
        <5>1. Front(q) = Front(old)
          BY <1>1, <3>1, <3>3, ResolveInjective
        <5> QED BY <3>1, <5>1, PrefixOfFront
      <4> QED BY <3>3, <4>1 DEF Moves
    <3> HIDE DEF S, m
    <3> QED BY <3>1, <3>2, <3>3 DEF Follows
  <2> QED BY <2>2, <2>3
<1>6. \A q \in S : resolve_path(d, q) # NoInode => resolve_path(g, m[q]) = resolve_path(d, q)
  <2>1. \A q \in S : Restarted(old, new, q) \in Seq(Names)
    BY RestartedIs
  <2>2. m \in [S -> Seq(Names)] /\ \A q \in S : q \in Seq(Names)
    BY <2>1
  <2> HIDE DEF S, m
  <2> QED BY <1>5, <2>2, Carried
<1>7. \A q \in Seq(Names) : IsPrefix(old, q) => q \in S /\ m[q] = Restarted(old, new, q)
  OBVIOUS
<1> HIDE DEF S, m
<1> QED BY <1>3, <1>6, <1>7

-----------------------------------------------------------------------------
(* Every inode in use is at the end of a path.                             *)

LEMMA PathsAre ==
  /\ \A path \in Paths : path \in Seq(Names) /\ Len(path) <= MaxDepth
  /\ \A path \in Named : path \in Paths /\ path # << >>
  /\ \A path \in Seq(Names) : Len(path) <= MaxDepth => path \in Paths
<1>1. ASSUME NEW path \in Paths PROVE path \in Seq(Names) /\ Len(path) <= MaxDepth
  <2>1. PICK n \in 0 .. MaxDepth : path \in [1 .. n -> Names]
    BY DEF Paths
  <2>2. n \in Nat
    BY <2>1, DepthAssumption
  <2> QED BY <2>1, <2>2
<1>2. ASSUME NEW path \in Seq(Names), Len(path) <= MaxDepth PROVE path \in Paths
  <2>1. Len(path) \in 0 .. MaxDepth /\ path \in [1 .. Len(path) -> Names]
    BY <1>2, LenProperties, DepthAssumption
  <2> QED BY <2>1 DEF Paths
<1> QED BY <1>1, <1>2 DEF Named

LEMMA LedIs ==
  ASSUME NEW d, IsDisk(d), Led(d), NEW i \in Used(d)
  PROVE  \E q \in Seq(Names) : /\ q \in Paths /\ Len(q) <= MaxDepth
                               /\ resolve_path(d, q) = i /\ resolve_path(d, q) # NoInode
<1>1. PICK q \in Paths : resolve_path(d, q) = i
  BY DEF Led
<1>2. q \in Seq(Names) /\ Len(q) <= MaxDepth
  BY PathsAre
<1> QED BY <1>1, <1>2, InodesAre

LEMMA StillLed ==
  ASSUME NEW d, Consistent(d), NEW g, Consistent(g), SameTree(d, g), Led(d)
  PROVE  Led(g)
<1> SUFFICES ASSUME NEW i \in Used(g) PROVE \E q \in Paths : resolve_path(g, q) = i
  BY DEF Led
<1>1. i \in Used(d) /\ Grows(d, g)
  BY DEF SameTree
<1>2. PICK q \in Seq(Names) : q \in Paths /\ resolve_path(d, q) = i /\ resolve_path(d, q) # NoInode
  BY <1>1, LedIs, ConsistentIs
<1>3. resolve_path(g, q) = i
  BY <1>1, <1>2, PathsStay
<1> QED BY <1>2, <1>3

LEMMA AddedIsLed ==
  ASSUME NEW d, Consistent(d), NEW g, Consistent(g), Led(d), NEW path \in Named,
         NEW p, p = resolve_path(d, Front(path)), p \in Directories(d),
         NEW x, Adds(d, g, p, Last(path), x)
  PROVE  Led(g)
<1> SUFFICES ASSUME NEW i \in Used(g) PROVE \E q \in Paths : resolve_path(g, q) = i
  BY DEF Led
<1>1. path \in Seq(Names) /\ path # << >> /\ path \in Paths
  BY PathsAre
<1>2. Grows(d, g) /\ Finds(g, p, Last(path), x)
  BY DEF Adds
<1>3. CASE i = x
  <2>1. Front(path) \in Seq(Names) /\ p # NoInode
    BY <1>1, FrontLast, InodesAre, ConsistentIs DEF Directories
  <2>2. resolve_path(g, Front(path)) = p
    BY <1>2, <2>1, PathsStay
  <2>3. resolve_path(g, path) = x
    BY <1>1, <1>2, <2>2, ResolveFinds
  <2> QED BY <1>1, <1>3, <2>3
<1>4. CASE i # x
  <2>1. i \in Used(d)
    BY <1>4 DEF Adds
  <2>2. PICK q \in Seq(Names) : q \in Paths /\ resolve_path(d, q) = i /\ resolve_path(d, q) # NoInode
    BY <2>1, LedIs, ConsistentIs
  <2>3. resolve_path(g, q) = i
    BY <1>2, <2>2, PathsStay
  <2> QED BY <2>2, <2>3
<1> QED BY <1>3, <1>4

(* Paths to other inodes do not go through one that has no entries.        *)
LEMMA OthersStay ==
  ASSUME NEW d, Consistent(d), NEW g, Consistent(g), NEW path \in Seq(Names), path # << >>,
         NEW p, p = resolve_path(d, Front(path)), p \in Directories(d),
         NEW x, x = resolve_path(d, path), x # NoInode, Childless(d, x),
         Keeps(d, g, p, Last(path), x)
  PROVE  \A q \in Seq(Names) : resolve_path(d, q) # NoInode /\ resolve_path(d, q) # x =>
                                 resolve_path(g, q) = resolve_path(d, q)
<1>1. \A q \in Seq(Names) : resolve_path(d, q) # NoInode /\ ~ IsPrefix(path, q) =>
                              resolve_path(g, q) = resolve_path(d, q)
  BY Survives
<1>2. \A q \in Seq(Names) : IsPrefix(path, q) /\ resolve_path(d, q) # NoInode => q = path
  BY PathsEnd
<1> QED BY <1>1, <1>2

LEMMA RemovedIsLed ==
  ASSUME NEW d, Consistent(d), NEW g, Consistent(g), Led(d), NEW path \in Seq(Names), path # << >>,
         NEW p, p = resolve_path(d, Front(path)), p \in Directories(d),
         NEW x, x = resolve_path(d, path), x # NoInode, Childless(d, x),
         Forgets(d, g, p, Last(path), x)
  PROVE  Led(g)
<1> SUFFICES ASSUME NEW i \in Used(g) PROVE \E q \in Paths : resolve_path(g, q) = i
  BY DEF Led
<1>1. i \in Used(d) /\ i # x /\ Keeps(d, g, p, Last(path), x)
  BY DEF Forgets
<1>2. PICK q \in Seq(Names) : q \in Paths /\ resolve_path(d, q) = i /\ resolve_path(d, q) # NoInode
  BY <1>1, LedIs, ConsistentIs
<1>3. resolve_path(g, q) = i
  BY <1>1, <1>2, OthersStay
<1> QED BY <1>2, <1>3

(* The longest path through old still fits when new takes its place.       *)
StaysShort(d, old, new) ==
  \A q \in Paths : IsPrefix(old, q) /\ resolve_path(d, q) # NoInode =>
                     Len(q) - Len(old) + Len(new) <= MaxDepth

LEMMA MovedIsLed ==
  ASSUME NEW d, IsDisk(d), Led(d), NEW u, Consistent(u), NEW g, Consistent(g),
         NEW old \in Seq(Names), old # << >>, NEW new \in Seq(Names), new # << >>,
         ~ IsPrefix(old, new), StaysShort(d, old, new),
         NEW src, src = resolve_path(u, Front(old)), NEW dst, dst = resolve_path(u, Front(new)),
         dst # NoInode, NEW y, y = resolve_path(u, old), y # NoInode,
         Moves(u, g, src, Last(old), dst, Last(new), y),
         \A i \in Used(u) : i \in Used(d),
         \A q \in Seq(Names) : resolve_path(d, q) \in Used(u) =>
                                 resolve_path(u, q) = resolve_path(d, q)
  PROVE  Led(g)
<1> SUFFICES ASSUME NEW i \in Used(g) PROVE \E q \in Paths : resolve_path(g, q) = i
  BY DEF Led
<1>1. i \in Used(u) /\ i \in Used(d)
  BY DEF Moves
<1>2. PICK q \in Seq(Names) : /\ q \in Paths /\ Len(q) <= MaxDepth
                              /\ resolve_path(d, q) = i /\ resolve_path(d, q) # NoInode
  BY <1>1, LedIs
<1>3. resolve_path(u, q) = i /\ i # NoInode
  BY <1>1, <1>2
<1>4. i = IF IsPrefix(old, q) THEN resolve_path(g, Restarted(old, new, q)) ELSE resolve_path(g, q)
  BY <1>3, PathsMove
<1>5. CASE IsPrefix(old, q)
  <2>1. Len(q) - Len(old) + Len(new) <= MaxDepth
    BY <1>2, <1>5 DEF StaysShort
  <2>2. /\ Restarted(old, new, q) \in Seq(Names)
        /\ Len(Restarted(old, new, q)) = Len(q) - Len(old) + Len(new)
    BY <1>5, RestartedIs
  <2>3. Restarted(old, new, q) \in Paths
    BY <2>1, <2>2, PathsAre
  <2> QED BY <1>4, <1>5, <2>3
<1>6. CASE ~ IsPrefix(old, q)
  BY <1>2, <1>4, <1>6
<1> QED BY <1>5, <1>6

-----------------------------------------------------------------------------
(* The directories of P are written, and all else is as it was.            *)
Relists(d, g, P, list) ==
  /\ Sound(g) /\ g.inodes = d.inodes /\ Used(g) = Used(d)
  /\ IsTree(Directories(d), list, d.inodes)
  /\ \A i \in P : i \in Directories(d) /\ g.inode[i].is_directory /\ Holds(g, i, list[i])
  /\ \A i \in Used(d) \ P : Same(d, g, i)
  /\ \A i \in Directories(d) \ P : list[i] = Entries(d, i)

LEMMA Relisted ==
  ASSUME NEW d, Consistent(d), NEW g, NEW P, NEW list, Relists(d, g, P, list)
  PROVE  /\ Consistent(g) /\ Used(g) = Used(d) /\ Directories(g) = Directories(d)
         /\ \A i \in Directories(d) : Entries(g, i) = list[i]
         /\ Spares(d, g, Used(d))
<1> USE DEF Relists
<1>1. IsDisk(d) /\ Listed(d) /\ IsDisk(g)
  BY ConsistentIs DEF Sound
<1>2. ASSUME NEW i \in Used(d) \ P
      PROVE  /\ SizedAt(g, i) /\ g.inode[i] = d.inode[i]
             /\ i \in Directories(g) <=> i \in Directories(d)
             /\ i \in Directories(d) => Entries(g, i) = Entries(d, i)
  <2>1. i \in Used(d) /\ i \in Used(g) /\ Same(d, g, i)
    OBVIOUS
  <2> QED BY <1>1, <2>1, KeptAt
<1>3. Directories(g) = Directories(d)
  <2>1. \A i \in P : i \in Directories(g) /\ i \in Directories(d)
    BY DEF Directories
  <2>2. (\A i \in Directories(g) : i \in Used(d)) /\ \A i \in Directories(d) : i \in Used(d)
    BY DEF Directories
  <2> QED BY <1>2, <2>1, <2>2
<1>4. Sized(g)
  <2>1. \A i \in P : SizedAt(g, i)
    BY DEF Holds
  <2>2. \A i \in Used(g) : SizedAt(g, i)
    BY <1>2, <2>1
  <2> QED BY <2>2 DEF Sized
<1>5. Shows(g, list)
  <2> SUFFICES ASSUME NEW i \in Directories(g)
               PROVE  Entries(g, i) = list[i] /\ g.inode[i].size = EntrySize * Len(list[i])
    BY DEF Shows
  <2>1. CASE i \in P
    BY <2>1 DEF Holds
  <2>2. CASE i \notin P
    <3>1. i \in Directories(d) /\ i \in Used(d) \ P
      BY <1>3, <2>2 DEF Directories
    <3>2. d.inode[i].size = EntrySize * Len(Entries(d, i))
      BY <1>1, <3>1, EntriesAre
    <3> QED BY <1>2, <2>2, <3>1, <3>2
  <2> QED BY <2>1, <2>2
<1>6. Consistent(g)
  BY <1>3, <1>4, <1>5, ConsistentAgain
<1>7. Spares(d, g, Used(d))
  <2>1. \A i \in P : d.inode[i].is_directory /\ g.inode[i].is_directory /\ i \in Used(d)
    BY DEF Directories
  <2>2. \A i \in Used(d) \ P : Same(d, g, i) /\ g.inode[i] = d.inode[i]
    BY <1>2
  <2>3. d.inode \in [InodeIds -> Inode] /\ g.inode \in [InodeIds -> Inode]
        /\ \A i \in Used(d) : i \in InodeIds
    BY <1>1, Fields
  <2>4. \A i \in InodeIds : d.inode[i].is_directory \in BOOLEAN /\ g.inode[i].is_directory \in BOOLEAN
    BY <2>3 DEF Inode
  <2> QED BY <2>1, <2>2, <2>3, <2>4 DEF Spares
<1> QED BY <1>3, <1>5, <1>6, <1>7 DEF Shows

LEMMA HoldsKept ==
  ASSUME NEW d, IsDisk(d), NEW g, IsDisk(g), NEW i \in InodeIds, At(d, i, -1) # 0, Same(d, g, i),
         d.inode[i].size <= BlockSize * BlockSize, NEW s, Holds(d, i, s)
  PROVE  Holds(g, i, s)
<1>1. /\ Full(d, i, block_count_from_size(d.inode[i].size))
      /\ d.inode[i].size = EntrySize * Len(s) /\ Entries(d, i) = s
  BY DEF Holds
<1>2. Entries(g, i) = Entries(d, i)
  BY <1>1, EntriesSame DEF Entries
<1>3. g.inode[i] = d.inode[i] /\ \A k \in Offsets : At(g, i, k) = At(d, i, k)
  BY DEF Same, Places
<1>4. Full(g, i, block_count_from_size(g.inode[i].size))
  BY <1>1, <1>3 DEF Full
<1>5. SizedAt(g, i)
  BY <1>3, <1>4, FullIsSized
<1> QED BY <1>1, <1>2, <1>3, <1>4, <1>5 DEF Holds

(* An entry gets another name in its directory.                            *)
LEMMA RenamedEntry ==
  ASSUME NEW d, Consistent(d), NEW p \in Directories(d), NEW from, NEW x, Finds(d, p, from, x),
         NEW to \in Names, Unnamed(Entries(d, p), to), NEW g, g = rename_entry(d, p, from, to)
  PROVE  Consistent(g) /\ Moves(d, g, p, from, p, to, x)
<1> DEFINE in == d.inode[p]
           s  == Entries(d, p)
           m  == block_count_from_size(in.size)
           found == entries_find(s, from)
<1>1. /\ p \in Used(d) /\ in \in Inode /\ in.size \in Nat /\ in.is_directory
      /\ in.size <= BlockSize * BlockSize /\ Full(d, p, m)
      /\ IsDisk(d) /\ Sound(d) /\ Listed(d)
  BY DirectoryIs, ConsistentIs
<1>2. /\ Lists(s, d.inodes) /\ s \in Seq(Entry) /\ Len(s) \in Nat /\ in.size = EntrySize * Len(s)
  BY <1>1, EntriesAre
<1>3. m \in 0 .. BlockSize /\ m <= m
  <2>1. m \in Nat /\ m <= BlockSize
    BY <1>1, Count, CountFits
  <2> QED BY <2>1, BlockSizeAssumption
<1>4. PICK e \in 1 .. Len(s) : s[e].name = from /\ s[e].inode_id = x /\ (CHOOSE c \in found : TRUE) = e
  BY FoundAt
<1> DEFINE entries == [s EXCEPT ![e].name = to]
<1>5. g = inode_write(entries_write(d, in, entries), p, in)
  BY <1>4 DEF rename_entry, Entries
<1>6. /\ entries \in Seq(Entry) /\ Len(entries) = Len(s)
      /\ entries[e].name = to /\ entries[e].inode_id = s[e].inode_id
      /\ \A f \in 1 .. Len(s) : f # e => entries[f] = s[f]
  <2>1. to \in Nat
    BY NamesAssumption
  <2>2. s[e] \in Entry
    BY <1>2, ElementOfSeq
  <2> DEFINE renamed == [s[e] EXCEPT !.name = to]
  <2>3. renamed \in Entry /\ renamed.name = to /\ renamed.inode_id = s[e].inode_id
    BY <2>1, <2>2 DEF Entry
  <2>4. entries = [s EXCEPT ![e] = renamed]
    OBVIOUS
  <2> HIDE DEF s, renamed, entries
  <2>5. /\ entries \in Seq(Entry) /\ Len(entries) = Len(s)
        /\ \A f \in 1 .. Len(s) : entries[f] = IF f = e THEN renamed ELSE s[f]
    BY <1>2, <2>3, <2>4, ExceptSeq
  <2> QED BY <2>3, <2>5
<1> DEFINE was  == [i \in Directories(d) |-> Entries(d, i)]
           list == [i \in Directories(d) |-> IF i = p THEN entries ELSE Entries(d, i)]
<1>7. /\ list[p] = entries /\ was[p] = s
      /\ \A i \in Directories(d) \ {p} : list[i] = Entries(d, i) /\ list[i] = was[i]
      /\ \A i \in Directories(d) : was[i] = Entries(d, i)
  OBVIOUS
<1> HIDE DEF was, list, m, in
<1>8. IsTree(Directories(d), list, d.inodes)
  <2>1. IsTree(Directories(d), was, d.inodes)
    BY <1>1, <1>7, ListedIsTree
  <2>2. list[p] = [was[p] EXCEPT ![e].name = to] /\ e \in 1 .. Len(was[p]) /\ Unnamed(was[p], to)
    BY <1>7
  <2>3. \A i \in Directories(d) \ {p} : list[i] = was[i]
    BY <1>7
  <2> QED BY <2>1, <2>2, <2>3, TreeRenamed
<1> HIDE DEF entries, s
<1>9. Put(d, g, p, in, entries)
  <2>1. in.size = EntrySize * Len(entries)
    BY <1>2, <1>6
  <2>2. in.pointer_block = d.inode[p].pointer_block
    BY DEF in
  <2> QED BY <1>1, <1>3, <1>5, <1>6, <2>1, <2>2, DirectoryWritten DEF m
<1>10. Relists(d, g, {p}, list)
  BY <1>1, <1>7, <1>8, <1>9 DEF Put, Others, Relists
<1>11. /\ Consistent(g) /\ Used(g) = Used(d) /\ Directories(g) = Directories(d)
       /\ \A i \in Directories(d) : Entries(g, i) = list[i]
       /\ Spares(d, g, Used(d))
  BY <1>10, Relisted
<1>12. Finds(g, p, to, x)
  BY <1>4, <1>6, <1>7, <1>11 DEF Finds
<1>13. ASSUME NEW i, NEW nm, NEW y, Finds(d, i, nm, y), i # p \/ nm # from
       PROVE  Finds(g, i, nm, y)
  <2>1. i \in Directories(d)
    BY <1>13 DEF Finds
  <2>2. CASE i # p
    BY <1>7, <1>11, <1>13, <2>1, <2>2 DEF Finds
  <2>3. CASE i = p
    <3>1. PICK f \in 1 .. Len(s) : s[f].name = nm /\ s[f].inode_id = y
      BY <1>13, <2>3 DEF Finds, s
    <3>2. f # e /\ entries[f] = s[f]
      BY <1>4, <1>6, <1>13, <2>3, <3>1
    <3> QED BY <1>6, <1>7, <1>11, <2>3, <3>1, <3>2 DEF Finds
  <2> QED BY <2>2, <2>3
<1>14. ASSUME NEW i, NEW nm, NEW y, Finds(g, i, nm, y), i # p \/ nm # to
       PROVE  Finds(d, i, nm, y) /\ (i # p \/ nm # from)
  <2>1. i \in Directories(d) /\ i \in Directories(g)
    BY <1>11, <1>14 DEF Finds
  <2>2. CASE i # p
    BY <1>7, <1>11, <1>14, <2>1, <2>2 DEF Finds
  <2>3. CASE i = p
    <3>1. PICK f \in 1 .. Len(entries) : entries[f].name = nm /\ entries[f].inode_id = y
      BY <1>7, <1>11, <1>14, <2>3 DEF Finds
    <3>2. f \in 1 .. Len(s) /\ f # e /\ s[f].name = nm /\ s[f].inode_id = y
      BY <1>6, <1>14, <2>3, <3>1
    <3>3. nm # from
      BY <1>2, <1>4, <3>2 DEF Lists
    <3> QED BY <2>1, <2>3, <3>2, <3>3 DEF Finds, s
  <2> QED BY <2>2, <2>3
<1> QED BY <1>11, <1>12, <1>13, <1>14 DEF Moves

(* An entry moves from one directory to another.                           *)
LEMMA MovedEntry ==
  ASSUME EntriesFit, NEW d, Consistent(d), NEW src \in Directories(d), NEW dst \in Directories(d),
         src # dst, NEW from, NEW x, Finds(d, src, from, x),
         NEW to \in Names, Unnamed(Entries(d, dst), to),
         block_seek(d, ExtendsBy(d.inode[dst])), NEW g, g = move_entry(d, src, from, dst, to)
  PROVE  Consistent(g) /\ Moves(d, g, src, from, dst, to, x)
<1> DEFINE src_in   == d.inode[src]
           dst_in   == d.inode[dst]
           ss       == Entries(d, src)
           ds       == Entries(d, dst)
           n        == Len(ss)
           m        == block_count_from_size(src_in.size)
           found    == entries_find(ss, from)
           entry    == [name |-> to, inode_id |-> x]
           grown    == [dst_in EXCEPT !.size = dst_in.size + EntrySize]
           shrunk   == [src_in EXCEPT !.size = src_in.size - EntrySize]
           extended == entries_extend(d, dst_in)
           longer   == Append(ds, entry)
           added    == inode_write(entries_write(extended, grown, longer), dst, grown)
<1>1. /\ src \in Used(d) /\ src_in \in Inode /\ src_in.size \in Nat /\ src_in.is_directory
      /\ src_in.size <= BlockSize * BlockSize /\ Full(d, src, m)
      /\ IsDisk(d) /\ Sound(d) /\ Listed(d) /\ src \in InodeIds
      /\ dst \in Used(d) /\ dst_in.is_directory /\ dst \in InodeIds
  BY DirectoryIs, ConsistentIs
<1>2. /\ Lists(ss, d.inodes) /\ ss \in Seq(Entry) /\ n \in Nat /\ src_in.size = EntrySize * n
      /\ ds \in Seq(Entry)
  BY <1>1, EntriesAre
<1>3. m \in Nat /\ m \in 0 .. BlockSize
  <2>1. m \in Nat /\ m <= BlockSize
    BY <1>1, Count, CountFits
  <2> QED BY <2>1, BlockSizeAssumption
<1>4. PICK e \in 1 .. n : ss[e].name = from /\ ss[e].inode_id = x /\ (CHOOSE c \in found : TRUE) = e
  BY FoundAt
<1> DEFINE shorter == RemoveAt(ss, e)
<1>5. g = inode_write(entries_write(added, shrunk, shorter), src, shrunk)
  BY <1>4 DEF move_entry, Entries
<1>6. x \in d.inodes /\ entry \in Entry /\ entry.name = to /\ entry.inode_id = x
  <2>1. x \in d.inodes
    BY <1>2, <1>4 DEF Lists
  <2>2. x \in Nat
    BY <1>1, <2>1, Fields, InodeNumAssumption DEF InodeIds
  <2>3. to \in Nat
    BY NamesAssumption
  <2> QED BY <2>1, <2>2, <2>3 DEF Entry
<1>7. /\ longer \in Seq(Entry) /\ Len(longer) = Len(ds) + 1
      /\ longer[Len(ds) + 1] = entry /\ Len(ds) + 1 \in 1 .. Len(longer)
      /\ \A f \in 1 .. Len(ds) : f \in 1 .. Len(longer) /\ longer[f] = ds[f]
      /\ shorter \in Seq(Entry) /\ Len(shorter) = n - 1 /\ n - 1 \in Nat
  <2>1. /\ longer \in Seq(Entry) /\ Len(longer) = Len(ds) + 1
        /\ longer[Len(ds) + 1] = entry /\ Len(ds) + 1 \in 1 .. Len(longer)
        /\ \A f \in 1 .. Len(ds) : f \in 1 .. Len(longer) /\ longer[f] = ds[f]
    <3> HIDE DEF ds, entry
    <3>1. Len(ds) \in Nat
      BY <1>2, LenProperties
    <3> QED BY <1>2, <1>6, <3>1, AppendProperties
  <2>2. shorter \in Seq(Entry) /\ Len(shorter) = n - 1
    BY <1>2, RemovedAt
  <2> QED BY <1>2, <2>1, <2>2
<1> DEFINE was  == [i \in Directories(d) |-> Entries(d, i)]
           mid  == [i \in Directories(d) |-> IF i = src THEN shorter ELSE Entries(d, i)]
           list == [i \in Directories(d) |-> IF i = src THEN shorter
                                             ELSE IF i = dst THEN longer ELSE Entries(d, i)]
<1>8. /\ \A i \in Directories(d) : was[i] = Entries(d, i)
      /\ was[src] = ss /\ mid[src] = shorter /\ mid[dst] = ds /\ list[src] = shorter /\ list[dst] = longer
      /\ \A i \in Directories(d) \ {src} : mid[i] = was[i]
      /\ \A i \in Directories(d) \ {dst} : list[i] = mid[i]
      /\ \A i \in Directories(d) \ {src, dst} : list[i] = Entries(d, i)
  OBVIOUS
<1> HIDE DEF was, mid, list
<1>9. /\ IsTree(Directories(d), mid, d.inodes) /\ Unlisted(Directories(d), mid, x)
      /\ \A f \in 1 .. n : f # e => \E k \in 1 .. Len(shorter) : shorter[k] = ss[f]
  <2>1. IsTree(Directories(d), was, d.inodes)
    BY <1>1, <1>8, ListedIsTree
  <2>2. mid[src] = RemoveAt(was[src], e) /\ e \in 1 .. Len(was[src]) /\ was[src][e].inode_id = x
    BY <1>4, <1>8
  <2>3. /\ IsTree(Directories(d), mid, d.inodes) /\ Unlisted(Directories(d), mid, was[src][e].inode_id)
        /\ \A f \in 1 .. Len(was[src]) :
             f # e => \E k \in 1 .. Len(mid[src]) : mid[src][k] = was[src][f]
    <3>1. src \in Directories(d) /\ \A i \in Directories(d) \ {src} : mid[i] = was[i]
      BY <1>8
    <3> QED BY ONLY <2>1, <2>2, <3>1, TreeShrinks
  <2> QED BY <1>8, <2>2, <2>3
<1>10. IsTree(Directories(d), list, d.inodes)
  <2>1. list[dst] = Append(mid[dst], entry) /\ Unnamed(mid[dst], entry.name)
    BY <1>6, <1>8
  <2>2. \A i \in Directories(d) \ Directories(d) : list[i] = << >>
    OBVIOUS
  <2> HIDE DEF entry
  <2> QED BY <1>6, <1>8, <1>9, <2>1, <2>2, TreeGrows
<1>11. Roomy(d, extended, dst, grown)
  <2> HIDE DEF extended, grown, dst_in
  <2>1. dst_in = d.inode[dst] /\ extended = entries_extend(d, dst_in)
        /\ grown = [dst_in EXCEPT !.size = dst_in.size + EntrySize]
    BY DEF extended, grown, dst_in
  <2> QED BY <2>1, RoomFor
<1> HIDE DEF extended, grown, shrunk, longer, shorter, m, n, ss, ds, src_in, dst_in, found, entry
<1>12. Put(extended, added, dst, grown, longer)
  <2> DEFINE c == block_count_from_size(grown.size)
  <2>1. /\ Sound(extended) /\ dst \in Used(extended) /\ grown \in Inode
        /\ grown.pointer_block = extended.inode[dst].pointer_block
        /\ c \in 0 .. BlockSize /\ Full(extended, dst, c) /\ c <= c
        /\ grown.size = EntrySize * Len(longer) /\ grown.size <= BlockSize * BlockSize
    BY <1>1, <1>7, <1>11 DEF Roomy, ds
  <2> HIDE DEF c
  <2>2. block_count_from_size(grown.size) <= c
    BY <2>1 DEF c
  <2> HIDE DEF added
  <2>3. added = inode_write(entries_write(extended, grown, longer), dst, grown)
    BY DEF added
  <2> QED BY <1>7, <2>1, <2>2, <2>3, DirectoryWritten
<1> HIDE DEF added
<1>13. /\ Sound(added) /\ added.inodes = d.inodes /\ Used(added) = Used(d)
       /\ added.inode[dst] = grown /\ Holds(added, dst, longer)
       /\ \A j \in Used(d) \ {dst} : Same(d, added, j)
  <2>1. /\ Used(extended) = Used(d) /\ extended.inodes = d.inodes
        /\ \A j \in Used(d) \ {dst} : Same(d, extended, j)
    BY <1>11 DEF Roomy, Others
  <2>2. /\ Sound(added) /\ added.inodes = extended.inodes /\ Used(added) = Used(extended)
        /\ added.inode[dst] = grown /\ Holds(added, dst, longer)
        /\ \A j \in Used(extended) \ {dst} : Same(extended, added, j)
    BY <1>12 DEF Put, Others
  <2>3. \A j \in Used(d) \ {dst} : Same(d, added, j)
    BY <2>1, <2>2, SameAgain
  <2> QED BY <2>1, <2>2, <2>3
<1>14. added.inode[src] = src_in /\ Full(added, src, m) /\ src \in Used(added)
  BY <1>1, <1>13 DEF Same, Full, Places, src_in
<1>15. /\ shrunk \in Inode /\ shrunk.size = EntrySize * (n - 1)
       /\ shrunk.pointer_block = src_in.pointer_block /\ shrunk.is_directory = src_in.is_directory
       /\ shrunk.size \in Nat /\ shrunk.size <= src_in.size
  <2>1. src_in.size - EntrySize = EntrySize * (n - 1) /\ src_in.size - EntrySize \in Nat
        /\ src_in.size - EntrySize <= src_in.size
    <3> DEFINE z == src_in.size
    <3>1. z \in Nat /\ n \in Nat /\ z = EntrySize * n /\ 1 <= n
      BY <1>1, <1>2, <1>7
    <3> HIDE DEF z, n
    <3>2. z - EntrySize = EntrySize * (n - 1) /\ z - EntrySize \in Nat /\ z - EntrySize <= z
      BY <3>1 DEF EntrySize
    <3> QED BY <3>2 DEF z
  <2>2. /\ shrunk \in Inode /\ shrunk.size = src_in.size - EntrySize
        /\ shrunk.pointer_block = src_in.pointer_block /\ shrunk.is_directory = src_in.is_directory
    BY <1>1, <2>1 DEF Inode, shrunk
  <2> QED BY <2>1, <2>2
<1>16. block_count_from_size(shrunk.size) <= m /\ shrunk.size <= BlockSize * BlockSize
  <2>1. BlockSize * BlockSize \in Nat
    BY BlockSizeAssumption
  <2> QED BY <1>1, <1>15, <2>1, CountGrows DEF m
<1>17. Put(added, g, src, shrunk, shorter)
  <2>1. shrunk.pointer_block = added.inode[src].pointer_block /\ shrunk.size = EntrySize * Len(shorter)
    BY <1>7, <1>14, <1>15
  <2> QED BY <1>3, <1>5, <1>7, <1>13, <1>14, <1>15, <1>16, <2>1, DirectoryWritten
<1>18. /\ Sound(g) /\ g.inodes = d.inodes /\ Used(g) = Used(d)
       /\ g.inode[src] = shrunk /\ Holds(g, src, shorter)
       /\ \A j \in Used(d) \ {src} : Same(added, g, j)
  BY <1>13, <1>17 DEF Put, Others
<1>19. g.inode[dst] = grown /\ Holds(g, dst, longer)
  <2>1. Same(added, g, dst) /\ IsDisk(added) /\ IsDisk(g) /\ At(added, dst, -1) # 0
    BY <1>1, <1>13, <1>18, BlockAt DEF Sound
  <2>2. added.inode[dst].size <= BlockSize * BlockSize
    BY <1>11, <1>13 DEF Roomy
  <2> QED BY <1>1, <1>13, <2>1, <2>2, HoldsKept DEF Same
<1>20. \A j \in Used(d) \ {src, dst} : Same(d, g, j)
  <2>1. \A j \in Used(d) \ {src, dst} : Same(d, added, j) /\ Same(added, g, j)
    BY <1>13, <1>18
  <2> QED BY <2>1, SameAgain
<1>21. shrunk.is_directory /\ grown.is_directory
  BY <1>1, <1>11, <1>15 DEF Roomy, dst_in
<1>22. \A i \in {src, dst} : i \in Directories(d) /\ g.inode[i].is_directory /\ Holds(g, i, list[i])
  BY <1>8, <1>18, <1>19, <1>21
<1>23. Relists(d, g, {src, dst}, list)
  BY <1>8, <1>10, <1>18, <1>20, <1>22 DEF Relists
<1>24. /\ Consistent(g) /\ Used(g) = Used(d) /\ Directories(g) = Directories(d)
       /\ \A i \in Directories(d) : Entries(g, i) = list[i]
       /\ Spares(d, g, Used(d))
  BY <1>23, Relisted
<1>25. Entries(g, src) = shorter /\ Entries(g, dst) = longer
  BY <1>8, <1>24
<1>26. Finds(g, dst, to, x)
  BY <1>6, <1>7, <1>24, <1>25 DEF Finds
<1>27. ASSUME NEW i, NEW nm, NEW y, Finds(d, i, nm, y), i # src \/ nm # from
       PROVE  Finds(g, i, nm, y)
  <2>1. PICK f \in 1 .. Len(Entries(d, i)) : Entries(d, i)[f].name = nm /\ Entries(d, i)[f].inode_id = y
    BY <1>27 DEF Finds
  <2>2. i \in Directories(d) /\ i \in Directories(g)
    BY <1>24, <1>27 DEF Finds
  <2>3. CASE i = src
    <3>1. f \in 1 .. n /\ ss[f].name = nm /\ ss[f].inode_id = y
      BY <2>1, <2>3 DEF n, ss
    <3>2. f # e
      BY <1>4, <1>27, <2>3, <3>1
    <3>3. PICK k \in 1 .. Len(shorter) : shorter[k] = ss[f]
      BY <1>9, <3>1, <3>2
    <3> QED BY <1>25, <2>2, <2>3, <3>1, <3>3 DEF Finds
  <2>4. CASE i = dst
    <3>1. f \in 1 .. Len(ds) /\ ds[f].name = nm /\ ds[f].inode_id = y
      BY <2>1, <2>4 DEF ds
    <3>2. f \in 1 .. Len(longer) /\ longer[f] = ds[f]
      BY <1>7, <3>1
    <3> QED BY <1>25, <2>2, <2>4, <3>1, <3>2 DEF Finds
  <2>5. CASE i # src /\ i # dst
    <3>1. Entries(g, i) = Entries(d, i)
      BY <1>8, <1>24, <2>2, <2>5
    <3> QED BY <2>1, <2>2, <3>1 DEF Finds
  <2> QED BY <2>3, <2>4, <2>5
<1>28. ASSUME NEW i, NEW nm, NEW y, Finds(g, i, nm, y), i # dst \/ nm # to
       PROVE  Finds(d, i, nm, y) /\ (i # src \/ nm # from)
  <2>1. PICK f \in 1 .. Len(Entries(g, i)) : Entries(g, i)[f].name = nm /\ Entries(g, i)[f].inode_id = y
    BY <1>28 DEF Finds
  <2>2. i \in Directories(d) /\ i \in Directories(g)
    BY <1>24, <1>28 DEF Finds
  <2>3. CASE i = src
    <3>1. f \in 1 .. (n - 1) /\ shorter[f].name = nm /\ shorter[f].inode_id = y
      BY <1>7, <1>25, <2>1, <2>3
    <3>2. PICK k \in 1 .. n : k # e /\ shorter[f] = ss[k]
      <4>1. shorter[f] = IF f < e THEN ss[f] ELSE ss[f + 1]
        BY <1>2, <3>1, RemovedAt DEF n, shorter
      <4>2. f \in 1 .. n /\ f + 1 \in 1 .. n /\ f \in Nat /\ e \in Nat
        BY <1>2, <3>1
      <4> QED BY <4>1, <4>2
    <3>3. nm # from
      BY <1>2, <1>4, <3>1, <3>2 DEF Lists, n
    <3> QED BY <2>2, <2>3, <3>1, <3>2, <3>3 DEF Finds, n, ss
  <2>4. CASE i = dst
    <3>1. f \in 1 .. Len(longer) /\ longer[f].name = nm /\ longer[f].inode_id = y
      BY <1>25, <2>1, <2>4
    <3>2. f # Len(ds) + 1
      BY <1>6, <1>7, <1>28, <2>4, <3>1
    <3>3. f \in 1 .. Len(ds)
      <4>1. Len(ds) \in Nat
        BY <1>2, LenProperties
      <4> QED BY <1>7, <3>1, <3>2, <4>1
    <3>4. ds[f].name = nm /\ ds[f].inode_id = y
      BY <1>7, <3>1, <3>3
    <3> QED BY <2>2, <2>4, <3>3, <3>4 DEF Finds, ds
  <2>5. CASE i # src /\ i # dst
    <3>1. Entries(g, i) = Entries(d, i)
      BY <1>8, <1>24, <2>2, <2>5
    <3> QED BY <2>1, <2>2, <2>5, <3>1 DEF Finds
  <2> QED BY <2>3, <2>4, <2>5
<1> QED BY <1>24, <1>26, <1>27, <1>28 DEF Moves

(* What a handler is to return: a consistent disk, and the disk as it was  *)
(* when it says that there is no space.                                    *)
Good(d, result) ==
  /\ Consistent(result.disk) /\ result.reply \in {"OK", "ENOSPC"}
  /\ result.reply = "ENOSPC" => result.disk = d

(* Every inode in use stays at the end of a path.                          *)
Leads(d, result) == Led(d) => Led(result.disk)

LEMMA DoneIsGood ==
  ASSUME NEW d, NEW g, Consistent(g)
  PROVE  Good(d, Done(g))
BY DEF Good, Done

LEMMA FailedIsGood ==
  ASSUME NEW d, Consistent(d)
  PROVE  Good(d, Failed(d))
BY DEF Good, Failed

LEMMA DirectoryAt ==
  ASSUME NEW d, Consistent(d), NEW path \in Seq(Names), IsDirectory(d, path)
  PROVE  resolve_path(d, path) \in Directories(d)
BY ResolveReaches DEF IsDirectory, Reached, Directories

(* What a rename does: whatever the new path leads to is forgotten, then   *)
(* the entry moves.                                                        *)
Forgotten(d, u, path) ==
  IF resolve_path(d, path) = NoInode THEN u = d
  ELSE Forgets(d, u, resolve_path(d, Front(path)), Last(path), resolve_path(d, path))

Renames(d, u, g, old, new) ==
  LET p == resolve_path(d, Front(new))
  IN  /\ Consistent(u) /\ Forgotten(d, u, new)
      /\ p \in Directories(u) /\ Unnamed(Entries(u, p), Last(new))
      /\ Moves(u, g, resolve_path(u, Front(old)), Last(old), p, Last(new), resolve_path(d, old))

LEMMA RenameIsGood ==
  ASSUME EntriesFit, NEW d, Consistent(d),
         NEW old \in Seq(Names), old # << >>, NEW new \in Seq(Names), new # << >>,
         resolve_path(d, old) # NoInode, IsDirectory(d, Front(new)),
         ~ IsPrefix(old, new), ~ IsPrefix(new, old)
  PROVE  /\ Good(d, fs_rename(d, old, new))
         /\ Childless(d, resolve_path(d, new)) /\ StaysShort(d, old, new) =>
              Leads(d, fs_rename(d, old, new))
         /\ fs_rename(d, old, new).reply = "OK" =>
              \E u : Renames(d, u, fs_rename(d, old, new).disk, old, new)
<1> DEFINE p    == resolve_path(d, Front(new))
           x    == resolve_path(d, new)
           y    == resolve_path(d, old)
           u    == remove(d, new)
           src  == resolve_path(u, Front(old))
           from == Last(old)
           to   == Last(new)
<1>1. /\ Front(new) \in Seq(Names) /\ Front(old) \in Seq(Names) /\ to \in Names /\ from \in Names
      /\ p \in Directories(d)
  BY FrontLast, DirectoryAt
<1>2. /\ Consistent(u) /\ p \in Directories(u) /\ Unnamed(Entries(u, p), to)
      /\ resolve_path(u, Front(new)) = p /\ resolve_path(u, old) = y
      /\ u = d \/ Available(u) # {}
      /\ \A i \in Used(u) : i \in Used(d)
      /\ Childless(d, x) => \A q \in Seq(Names) : resolve_path(d, q) \in Used(u) =>
                                                  resolve_path(u, q) = resolve_path(d, q)
      /\ Forgotten(d, u, new)
  <2>1. CASE x = NoInode
    <3>1. u = d
      BY <1>1, <2>1, RemoveIs
    <3>2. Unnamed(Entries(d, p), to)
      <4> SUFFICES ASSUME NEW e \in 1 .. Len(Entries(d, p)), Entries(d, p)[e].name = to PROVE FALSE
        BY DEF Unnamed
      <4>1. Finds(d, p, to, Entries(d, p)[e].inode_id)
        BY <1>1 DEF Finds
      <4> QED BY <2>1, <4>1, ResolveFinds
    <3> HIDE DEF u
    <3> QED BY <1>1, <2>1, <3>1, <3>2 DEF Forgotten
  <2>2. CASE x # NoInode
    <3>1. Consistent(u) /\ Available(u) # {} /\ Forgets(d, u, p, to, x)
      BY <1>1, <2>2, RemoveIs
    <3>2. p # NoInode
      BY <1>1, InodesAre, ConsistentIs DEF Directories
    <3> HIDE DEF u
    <3>3. \A q \in Seq(Names) : resolve_path(d, q) # NoInode /\ ~ IsPrefix(new, q) =>
                                  resolve_path(u, q) = resolve_path(d, q)
      BY <1>1, <2>2, <3>1, Survives DEF Forgets
    <3>4. resolve_path(u, Front(new)) = p /\ resolve_path(u, old) = y
      BY <1>1, <3>2, <3>3, PrefixOfFront
    <3>5. \A i \in Used(u) : i \in Used(d) /\ i # x /\ i # NoInode
      BY <3>1, InodesAre, ConsistentIs DEF Forgets
    <3>6. Childless(d, x) => \A q \in Seq(Names) : resolve_path(d, q) # NoInode /\ resolve_path(d, q) # x =>
                                                   resolve_path(u, q) = resolve_path(d, q)
      BY <1>1, <2>2, <3>1, OthersStay DEF Forgets
    <3>7. Forgotten(d, u, new)
      BY <2>2, <3>1 DEF Forgotten
    <3> QED BY <3>1, <3>4, <3>5, <3>6, <3>7 DEF Forgets
  <2> QED BY <2>1, <2>2
<1> HIDE DEF u, p, y
<1>3. Finds(u, src, from, y) /\ src \in Directories(u)
  <2>1. Finds(u, src, from, y)
    BY <1>2, ResolveFinds DEF y
  <2> QED BY <2>1 DEF Finds
<1> HIDE DEF src, from, to
<1>4. fs_rename(d, old, new) =
        IF src = p THEN Done(rename_entry(u, src, from, to))
        ELSE IF ~ block_seek(u, ExtendsBy(u.inode[p])) THEN Failed(u)
        ELSE Done(move_entry(u, src, from, p, to))
  BY <1>2 DEF fs_rename, resolve_parent_path, u, src, from, to
<1>8. ASSUME NEW g, Consistent(g), Moves(u, g, src, from, p, to, y),
             fs_rename(d, old, new) = Done(g)
      PROVE  /\ Good(d, fs_rename(d, old, new))
             /\ Childless(d, x) /\ StaysShort(d, old, new) => Leads(d, fs_rename(d, old, new))
             /\ \E v : Renames(d, v, fs_rename(d, old, new).disk, old, new)
  <2>1. y # NoInode /\ p # NoInode /\ IsDisk(d)
    BY <1>1, InodesAre, ConsistentIs DEF y, Directories
  <2>2. ASSUME Childless(d, x), StaysShort(d, old, new), Led(d) PROVE Led(g)
    BY <1>2, <1>8, <2>1, <2>2, MovedIsLed DEF src, from, to
  <2>3. Renames(d, u, g, old, new)
    BY <1>2, <1>8 DEF Renames, p, src, from, to, y
  <2> QED BY <1>8, <2>2, <2>3, DoneIsGood DEF Leads, Done
<1> HIDE DEF x
<1>5. CASE src = p
  <2>1. Consistent(rename_entry(u, src, from, to))
        /\ Moves(u, rename_entry(u, src, from, to), src, from, p, to, y)
    BY <1>1, <1>2, <1>3, <1>5, RenamedEntry
  <2> QED BY <1>4, <1>5, <1>8, <2>1 DEF x
<1>6. CASE src # p /\ block_seek(u, ExtendsBy(u.inode[p]))
  <2>1. Consistent(move_entry(u, src, from, p, to))
        /\ Moves(u, move_entry(u, src, from, p, to), src, from, p, to, y)
    BY <1>1, <1>2, <1>3, <1>6, MovedEntry
  <2> QED BY <1>4, <1>6, <1>8, <2>1 DEF x
<1>7. CASE src # p /\ ~ block_seek(u, ExtendsBy(u.inode[p]))
  <2>1. u.inode[p].size \in Nat
    BY <1>2, ConsistentIs DEF Directories
  <2>2. ExtendsBy(u.inode[p]) \in {0, 1}
    BY <2>1, CountNext DEF ExtendsBy
  <2>3. Cardinality(Available(u)) \in Nat /\ IsFiniteSet(Available(u))
    BY AvailableFinite
  <2>4. Cardinality(Available(u)) = 0
    BY <1>7, <2>2, <2>3 DEF block_seek
  <2>5. Available(u) = {}
    BY <2>3, <2>4, FS_EmptySet
  <2>6. u = d
    BY <1>2, <2>5
  <2> QED BY <1>4, <1>7, <2>6, FailedIsGood DEF Leads, Failed
<1> QED BY <1>5, <1>6, <1>7 DEF x

-----------------------------------------------------------------------------
(* Files.                                                                  *)

LEMMA FileChanged ==
  ASSUME NEW d, Consistent(d), NEW i \in Used(d), ~ d.inode[i].is_directory,
         NEW g, Sound(g), g.inodes = d.inodes, Used(g) = Used(d), Others(d, g, i),
         ~ g.inode[i].is_directory, SizedAt(g, i)
  PROVE  Consistent(g) /\ SameTree(d, g) /\ Spares(d, g, Used(d) \ {i})
<1> DEFINE list == [j \in Directories(d) |-> Entries(d, j)]
<1>1. IsDisk(d) /\ Listed(d) /\ IsDisk(g)
  BY ConsistentIs DEF Sound
<1>2. ASSUME NEW j \in Used(d) \ {i}
      PROVE  /\ SizedAt(g, j) /\ g.inode[j] = d.inode[j]
             /\ j \in Directories(g) <=> j \in Directories(d)
             /\ j \in Directories(d) => Entries(g, j) = Entries(d, j)
  <2>1. j \in Used(d) /\ j \in Used(g) /\ Same(d, g, j)
    BY DEF Others
  <2> QED BY <1>1, <2>1, KeptAt
<1>3. Directories(g) = Directories(d) /\ i \notin Directories(d)
  <2>1. (\A j \in Directories(g) : j \in Used(d) /\ j # i) /\ \A j \in Directories(d) : j \in Used(d) /\ j # i
    BY DEF Directories
  <2> QED BY <1>2, <2>1
<1>4. \A j \in Directories(d) : list[j] = Entries(d, j)
  OBVIOUS
<1> HIDE DEF list
<1>5. IsTree(Directories(d), list, d.inodes)
  BY <1>1, <1>4, ListedIsTree
<1>6. Sized(g)
  BY <1>2 DEF Sized
<1>7. Shows(g, list)
  <2> SUFFICES ASSUME NEW j \in Directories(g)
               PROVE  Entries(g, j) = list[j] /\ g.inode[j].size = EntrySize * Len(list[j])
    BY DEF Shows
  <2>1. j \in Directories(d) /\ j \in Used(d) \ {i}
    BY <1>3 DEF Directories
  <2>2. d.inode[j].size = EntrySize * Len(Entries(d, j))
    BY <1>1, <2>1, EntriesAre
  <2> QED BY <1>2, <1>4, <2>1, <2>2
<1>8. Consistent(g)
  BY <1>3, <1>5, <1>6, <1>7, ConsistentAgain
<1>9. SameTree(d, g)
  <2>1. \A j \in Directories(d) : Entries(g, j) = Entries(d, j)
    BY <1>3, <1>4, <1>7 DEF Shows
  <2> QED BY <1>3, <2>1 DEF SameTree, Grows, Finds
<1>10. Spares(d, g, Used(d) \ {i})
  BY <1>2 DEF Spares, Others
<1> QED BY <1>8, <1>9, <1>10

(* The empty places H of inode i get the first n blocks that are available,*)
(* the one at place k the block of rank r[k].                              *)
Fills(d, i, H, n, r) ==
  /\ \A k \in H : k \in Offsets /\ At(d, i, k) = 0
  /\ block_seek(d, n)
  /\ \A k \in H : r[k] \in 0 .. (n - 1)
  /\ \A k, l \in H : r[k] = r[l] => k = l
  /\ \A m \in 0 .. (n - 1) : \E k \in H : r[k] = m

Filled(d, i, H, r) == [k \in Offsets |-> IF k \in H THEN NewBlock(d, r[k]) ELSE At(d, i, k)]

(* The pointers that such a filling leaves.                                *)
Placed(d, i, H, n, new) ==
  /\ new \in [Offsets -> Nat]
  /\ \A k \in Offsets : new[k] # 0 => new[k] \in BlockIds /\ new[k] # d.inode[i].pointer_block
  /\ \A k, l \in Offsets : new[k] = new[l] /\ new[k] # 0 => k = l
  /\ \A k \in H : new[k] \in Available(d) /\ new[k] # 0
  /\ \A k \in Offsets : k \notin H => new[k] = At(d, i, k)
  /\ \A b \in NewBlocks(d, n) : b \in BlockIds /\ b \in Available(d) /\ \E k \in H : new[k] = b
  /\ \A k \in H : new[k] \in NewBlocks(d, n)

LEMMA FilledIs ==
  ASSUME NEW d, Sound(d), NEW i \in Used(d), NEW H, NEW n \in Nat, NEW r, Fills(d, i, H, n, r),
         NEW new, new = Filled(d, i, H, r)
  PROVE  Placed(d, i, H, n, new)
<1> DEFINE pb == d.inode[i].pointer_block
<1>1. /\ \A k \in 0 .. (n - 1) : NewBlock(d, k) \in Available(d)
      /\ \A k, l \in 0 .. (n - 1) : NewBlock(d, k) = NewBlock(d, l) => k = l
      /\ NewBlocks(d, n) = {NewBlock(d, k) : k \in 0 .. (n - 1)}
  BY NewBlockIs DEF Fills
<1>2. \A b \in Available(d) : b \in Nat /\ b \in BlockIds /\ b # 0 /\ b \notin d.bitmap
  BY AvailableFinite
<1>3. /\ pb \in d.bitmap /\ i \in InodeIds /\ IsDisk(d)
      /\ \A k \in Offsets : At(d, i, k) \in Nat
      /\ \A k \in Offsets : At(d, i, k) # 0 => At(d, i, k) \in d.bitmap /\ At(d, i, k) \in BlockIds
                                               /\ At(d, i, k) # pb
      /\ \A k, l \in Offsets : At(d, i, k) = At(d, i, l) /\ At(d, i, k) # 0 => k = l
  <2>1. IsDisk(d) /\ i \in InodeIds /\ At(d, i, -1) # 0 /\ pb = At(d, i, -1)
    BY BlockAt DEF Sound
  <2>2. /\ \A k \in Places : At(d, i, k) # 0 => At(d, i, k) \in d.bitmap /\ At(d, i, k) \in BlockIds
        /\ \A j \in Used(d), k, l \in Places :
             At(d, i, k) = At(d, j, l) /\ At(d, i, k) # 0 => i = j /\ k = l
    BY BlockAt
  <2>3. \A k \in Offsets : k \in Places /\ k # -1
    BY <2>1, PlacesOf DEF Places
  <2>4. \A k \in Offsets : At(d, i, k) \in Nat
    <3>1. \A k \in Offsets : At(d, i, k) = d.block[d.inode[i].pointer_block][k]
      BY <2>1, PlacesOf
    <3>2. d.block[pb] \in [Offsets -> Nat]
      BY <2>1, PlacesOf
    <3> QED BY <3>1, <3>2
  <2>5. -1 \in Places
    BY DEF Places
  <2> HIDE DEF pb
  <2> QED BY <2>1, <2>2, <2>3, <2>4, <2>5
<1>4. \A k \in Offsets : new[k] = IF k \in H THEN NewBlock(d, r[k]) ELSE At(d, i, k)
  BY DEF Filled
<1>5. \A k \in H : k \in Offsets /\ r[k] \in 0 .. (n - 1)
  BY DEF Fills
<1> HIDE DEF pb
<1>6. \A k \in H : new[k] \in Available(d) /\ new[k] # 0 /\ new[k] \in BlockIds /\ new[k] \in Nat
                   /\ new[k] \notin d.bitmap
  BY <1>1, <1>2, <1>4, <1>5
<1>7. \A k \in Offsets : k \notin H => new[k] = At(d, i, k)
  BY <1>4
<1>8. new \in [Offsets -> Nat]
  <2>1. \A k \in Offsets : new[k] \in Nat
    BY <1>3, <1>6, <1>7
  <2> QED BY <2>1 DEF Filled
<1>9. \A k \in Offsets : new[k] # 0 => new[k] \in BlockIds /\ new[k] # pb
  BY <1>3, <1>6, <1>7
<1>10. ASSUME NEW k \in Offsets, NEW l \in Offsets, new[k] = new[l], new[k] # 0
       PROVE  k = l
  <2>1. CASE k \in H /\ l \in H
    <3>1. NewBlock(d, r[k]) = NewBlock(d, r[l])
      BY <1>4, <1>10, <2>1
    <3>2. r[k] = r[l]
      BY <1>1, <1>5, <2>1, <3>1
    <3> QED BY <2>1, <3>2 DEF Fills
  <2>2. CASE k \notin H /\ l \notin H
    BY <1>3, <1>7, <1>10, <2>2
  <2>3. CASE (k \in H) # (l \in H)
    BY <1>3, <1>6, <1>7, <1>10, <2>3
  <2> QED BY <2>1, <2>2, <2>3
<1>11. ASSUME NEW b \in NewBlocks(d, n)
       PROVE  b \in BlockIds /\ b \in Available(d) /\ \E k \in H : new[k] = b
  <2>1. PICK m \in 0 .. (n - 1) : b = NewBlock(d, m)
    BY <1>1
  <2>2. PICK k \in H : r[k] = m
    BY DEF Fills
  <2> QED BY <1>4, <1>5, <1>6, <2>1, <2>2
<1>12. \A k \in H : new[k] \in NewBlocks(d, n)
  BY <1>1, <1>4, <1>5
<1> QED BY <1>6, <1>7, <1>8, <1>9, <1>10, <1>11, <1>12 DEF Placed, pb

(* Such a filling is sound.                                                *)
Takes(d, g, i, n, new) ==
  /\ g.inodes = d.inodes /\ g.inode = d.inode /\ g.bitmap = d.bitmap \cup NewBlocks(d, n)
  /\ g.block[d.inode[i].pointer_block] = new
  /\ \A b \in BlockIds : /\ b # d.inode[i].pointer_block
                         /\ \A k \in Offsets : new[k] # b
                         => g.block[b] = d.block[b]

LEMMA FillingRewrites ==
  ASSUME NEW d, Sound(d), NEW i \in Used(d), NEW H, NEW n \in Nat, NEW r, Fills(d, i, H, n, r),
         NEW new, new = Filled(d, i, H, r), NEW g, Takes(d, g, i, n, new)
  PROVE  Rewrites(d, g, i, new)
<1> USE DEF Takes
<1>1. /\ new \in [Offsets -> Nat]
      /\ \A k, l \in Offsets : new[k] = new[l] /\ new[k] # 0 => k = l
      /\ \A k \in H : new[k] \in Available(d) /\ new[k] # 0 /\ k \in Offsets /\ At(d, i, k) = 0
      /\ \A k \in Offsets : k \notin H => new[k] = At(d, i, k)
      /\ \A b \in NewBlocks(d, n) : \E k \in H : new[k] = b
      /\ \A k \in H : new[k] \in NewBlocks(d, n)
  <2>1. \A k \in H : k \in Offsets /\ At(d, i, k) = 0
    BY DEF Fills
  <2>2. /\ new \in [Offsets -> Nat]
        /\ \A k, l \in Offsets : new[k] = new[l] /\ new[k] # 0 => k = l
        /\ \A k \in H : new[k] \in Available(d) /\ new[k] # 0
        /\ \A k \in Offsets : k \notin H => new[k] = At(d, i, k)
        /\ \A b \in NewBlocks(d, n) : b \in BlockIds /\ b \in Available(d) /\ \E k \in H : new[k] = b
        /\ \A k \in H : new[k] \in NewBlocks(d, n)
    <3>1. Placed(d, i, H, n, new)
      BY FilledIs
    <3> QED BY <3>1 DEF Placed
  <2> QED BY <2>1, <2>2
<1>2. /\ \A b \in BlockIds : b # 0
      /\ \A k \in Offsets : At(d, i, k) # 0 => At(d, i, k) \in d.bitmap
  BY Blocks, BlockAt DEF Places
<1>3. \A k \in Offsets : At(d, i, k) # 0 => new[k] = At(d, i, k)
  BY <1>1
<1>4. \A b \in BlockIds : b \in g.bitmap <=> \/ b \in d.bitmap /\ \A k \in Offsets : At(d, i, k) # b
                                             \/ \E k \in Offsets : new[k] = b
  <2> TAKE b \in BlockIds
  <2>1. b # 0
    BY <1>2
  <2>2. ASSUME b \in g.bitmap, b \notin d.bitmap PROVE \E k \in Offsets : new[k] = b
    BY <1>1, <2>2
  <2>3. ASSUME NEW k \in Offsets, new[k] = b PROVE b \in g.bitmap
    BY <1>1, <1>2, <2>1, <2>3
  <2>4. b \in d.bitmap => b \in g.bitmap
    OBVIOUS
  <2> QED BY <1>3, <2>1, <2>2, <2>3, <2>4
<1>5. \A b \in BlockIds : ~ ((\E k \in Offsets : At(d, i, k) = b) /\ (\A k \in Offsets : new[k] # b))
  BY <1>2, <1>3
<1>6. \A k \in Offsets : new[k] = 0 \/ new[k] = At(d, i, k) \/ new[k] \in Available(d)
  BY <1>1
<1> QED BY <1>1, <1>4, <1>5, <1>6 DEF Rewrites

LEMMA FileSized ==
  ASSUME NEW g, NEW i \in InodeIds, ~ g.inode[i].is_directory,
         NEW size, size = g.inode[i].size, size <= BlockSize * BlockSize,
         \A k \in Offsets : k >= block_count_from_size(size) => At(g, i, k) = 0,
         size % BlockSize # 0 => At(g, i, size \div BlockSize) # 0
  PROVE  SizedAt(g, i)
BY DEF SizedAt, Directories

LEMMA FileAt ==
  ASSUME NEW d, Consistent(d), NEW i \in Used(d), NEW in, in = d.inode[i], NEW c,
         c = block_count_from_size(in.size)
  PROVE  /\ Sound(d) /\ IsDisk(d) /\ i \in InodeIds /\ in \in Inode
         /\ in.size \in Nat /\ in.size <= BlockSize * BlockSize
         /\ c \in Nat /\ c <= BlockSize
         /\ in.pointer_block \in BlockIds /\ in.pointer_block # 0
         /\ \A k \in Offsets : k \in Nat /\ k < BlockSize
         /\ \A k \in Nat : k < BlockSize => k \in Offsets
         /\ \A k \in Offsets : k >= c => At(d, i, k) = 0
         /\ in.size % BlockSize # 0 => At(d, i, in.size \div BlockSize) # 0
         /\ Pointers(d, in) \in [Offsets -> Nat]
         /\ \A k \in Offsets : Pointers(d, in)[k] = At(d, i, k)
         /\ \A b \in BlockIds : block_read(d, b) = d.block[b] /\ d.block[b] \in [Offsets -> Nat]
<1>1. /\ Sound(d) /\ IsDisk(d) /\ i \in InodeIds /\ in \in Inode
      /\ in.size \in Nat /\ in.size <= BlockSize * BlockSize /\ SizedAt(d, i)
      /\ At(d, i, -1) # 0 /\ in.pointer_block = At(d, i, -1) /\ At(d, i, -1) \in BlockIds
  <2>1. Sound(d) /\ SizedAt(d, i)
    BY ConsistentIs
  <2> QED BY <2>1, ConsistentIs, BlockAt DEF Places
<1>2. c \in Nat /\ c <= BlockSize
  BY <1>1, Count, CountFits
<1>3. /\ \A k \in Offsets : k \in Nat /\ k < BlockSize
      /\ \A k \in Nat : k < BlockSize => k \in Offsets
  BY BlockSizeAssumption DEF Offsets
<1>4. /\ \A k \in Offsets : k >= c => At(d, i, k) = 0
      /\ in.size % BlockSize # 0 => At(d, i, in.size \div BlockSize) # 0
  BY <1>1 DEF SizedAt
<1>5. /\ Pointers(d, in) \in [Offsets -> Nat]
      /\ \A k \in Offsets : Pointers(d, in)[k] = At(d, i, k)
  <2>1. Pointers(d, in) = d.block[in.pointer_block] /\ Pointers(d, in) \in [Offsets -> Nat]
    BY <1>1, PlacesOf
  <2>2. \A k \in Offsets : At(d, i, k) = d.block[in.pointer_block][k]
    BY <1>1, PlacesOf
  <2> QED BY <2>1, <2>2
<1>6. \A b \in BlockIds : block_read(d, b) = d.block[b] /\ d.block[b] \in [Offsets -> Nat]
  BY <1>1, Fields DEF block_read
<1> QED BY <1>1, <1>2, <1>3, <1>4, <1>5, <1>6

(* Handlers that change a file.                                            *)
GoodFile(d, result) == Good(d, result) /\ SameTree(d, result.disk)

LEMMA GoodFiles ==
  ASSUME NEW d, Consistent(d)
  PROVE  /\ GoodFile(d, Failed(d))
         /\ \A g : Consistent(g) /\ SameTree(d, g) => GoodFile(d, Done(g))
<1>1. SameTree(d, d)
  BY DEF SameTree, Grows
<1> QED BY <1>1, DoneIsGood, FailedIsGood DEF GoodFile, Failed, Done

(* What becomes of the words of a file.  Word w of the block at place k is *)
(* x; or it is what it was, where that was in a hole perhaps 0.            *)
Has(g, i, k, w, x) == At(g, i, k) # 0 /\ g.block[At(g, i, k)][w] = x

Stays(d, g, i, k, w) ==
  /\ At(d, i, k) # 0 => Has(g, i, k, w, d.block[At(d, i, k)][w])
  /\ At(d, i, k) = 0 => At(g, i, k) = 0 \/ Has(g, i, k, w, 0)

IsNow(d, g, i, size) ==
  /\ ~ g.inode[i].is_directory /\ g.inode[i].size = size
  /\ Spares(d, g, Used(d) \ {i})

Grown(d, g, i, size) ==
  /\ IsNow(d, g, i, size)
  /\ \A k, w \in Offsets : Stays(d, g, i, k, w)
  /\ \A k \in Offsets : /\ block_count_from_size(d.inode[i].size) <= k
                         /\ k < block_count_from_size(size)
                         => At(g, i, k) # 0

Shrunk(d, g, i, size) ==
  /\ IsNow(d, g, i, size)
  /\ \A k, w \in Offsets : IF k * BlockSize + w < size THEN Stays(d, g, i, k, w)
                            ELSE At(g, i, k) = 0 \/ Has(g, i, k, w, 0)

Overwritten(d, g, i, offset, words) ==
  LET end == offset + Len(words)
  IN  /\ IsNow(d, g, i, IF d.inode[i].size < end THEN end ELSE d.inode[i].size)
      /\ \A k, w \in Offsets :
           LET n == k * BlockSize + w
           IN  IF offset <= n /\ n < end THEN Has(g, i, k, w, words[n - offset + 1])
               ELSE Stays(d, g, i, k, w)

(* A block that keeps its words, or is new.                                *)
LEMMA WordsStay ==
  ASSUME NEW d, Sound(d), NEW i \in Used(d), NEW H, NEW n, NEW r, Fills(d, i, H, n, r),
         NEW new, Placed(d, i, H, n, new), NEW g, NEW k \in Offsets, At(g, i, k) = new[k],
         NEW w \in Offsets,
         new[k] # 0 => g.block[new[k]][w] = d.block[new[k]][w]
  PROVE  Stays(d, g, i, k, w)
<1>1. CASE k \in H
  <2>1. At(d, i, k) = 0 /\ new[k] \in Available(d) /\ new[k] # 0
    BY <1>1 DEF Fills, Placed
  <2>2. d.block[new[k]] = EmptyBlock
    BY <2>1 DEF Sound, Emptied
  <2>3. d.block[new[k]][w] = 0
    BY <2>2 DEF EmptyBlock
  <2> QED BY <2>1, <2>3 DEF Stays, Has
<1>2. CASE k \notin H
  <2>1. new[k] = At(d, i, k)
    BY <1>2 DEF Placed
  <2> QED BY <2>1 DEF Stays, Has
<1> QED BY <1>1, <1>2

(* A file grows.                                                           *)
LEMMA GrowIsGood ==
  ASSUME NEW d, Consistent(d), NEW i \in Used(d), ~ d.inode[i].is_directory,
         NEW size \in Nat, size > d.inode[i].size, size <= BlockSize * BlockSize
  PROVE  /\ GoodFile(d, grow(d, i, size))
         /\ grow(d, i, size).reply = "OK" => Grown(d, grow(d, i, size).disk, i, size)
<1> DEFINE in     == d.inode[i]
           old    == block_count_from_size(in.size)
           new    == block_count_from_size(size)
           ids    == Pointers(d, in)
           n      == new - old
           H      == old .. (new - 1)
           r      == [k \in H |-> new - 1 - k]
           filled == Filled(d, i, H, r)
           marked == Mark(d, NewBlocks(d, n))
           e      == block_write(marked, in.pointer_block, filled)
           in2    == [in EXCEPT !.size = size]
           g      == inode_write(e, i, in2)
<1>1. /\ Sound(d) /\ IsDisk(d) /\ i \in InodeIds /\ in \in Inode
      /\ in.size \in Nat /\ in.size <= BlockSize * BlockSize
      /\ old \in Nat /\ old <= BlockSize
      /\ in.pointer_block \in BlockIds /\ in.pointer_block # 0
      /\ \A k \in Offsets : k \in Nat /\ k < BlockSize
      /\ \A k \in Nat : k < BlockSize => k \in Offsets
      /\ \A k \in Offsets : k >= old => At(d, i, k) = 0
      /\ in.size % BlockSize # 0 => At(d, i, in.size \div BlockSize) # 0
      /\ \A k \in Offsets : ids[k] = At(d, i, k)
  BY FileAt
<1>2. old \in Nat /\ new \in Nat /\ new <= BlockSize /\ old <= new /\ n \in Nat
  BY <1>1, Count, CountFits, CountGrows
<1>3. grow(d, i, size) = IF ~ block_seek(d, n) THEN Failed(d) ELSE Done(g)
  <2>1. ASSUME NEW k \in Offsets
        PROVE  (IF old <= k /\ k < new THEN NewBlock(d, new - 1 - k) ELSE ids[k])
                 = IF k \in H THEN NewBlock(d, r[k]) ELSE At(d, i, k)
    <3> HIDE DEF old, new
    <3>1. k \in Nat /\ (k \in H <=> old <= k /\ k < new)
      BY <1>1, <1>2
    <3>2. k \in H => r[k] = new - 1 - k
      OBVIOUS
    <3> HIDE DEF H, r
    <3> QED BY <1>1, <3>1, <3>2
  <2>2. filled = [k \in Offsets |->
                    IF old <= k /\ k < new THEN NewBlock(d, new - 1 - k) ELSE ids[k]]
    <3> HIDE DEF old, new, ids, H, r
    <3> QED BY <2>1 DEF Filled
  <2> HIDE DEF filled
  <2> QED BY <2>2 DEF grow
<1> HIDE DEF old, new, ids
<1>4. CASE ~ block_seek(d, n)
  BY <1>3, <1>4, GoodFiles DEF Failed
<1>5. CASE block_seek(d, n)
  <2>1. Fills(d, i, H, n, r)
    <3>1. \A k \in H : k \in Nat /\ k \in Offsets /\ k >= old /\ r[k] = new - 1 - k /\ r[k] \in 0 .. (n - 1)
      <4>1. \A k \in H : r[k] = new - 1 - k
        OBVIOUS
      <4> HIDE DEF r
      <4>2. \A k \in H : k \in Nat /\ k < BlockSize /\ k >= old /\ new - 1 - k \in 0 .. (n - 1)
        BY <1>1, <1>2, BlockSizeAssumption
      <4> QED BY <1>1, <4>1, <4>2
    <3>2. \A k, l \in H : r[k] = r[l] => k = l
      <4> HIDE DEF r, H
      <4> QED BY <1>2, <3>1
    <3>3. ASSUME NEW m \in 0 .. (n - 1) PROVE \E k \in H : r[k] = m
      <4>1. new - 1 - m \in H /\ new - 1 - (new - 1 - m) = m
        BY <1>2
      <4> HIDE DEF r, H
      <4>2. r[new - 1 - m] = m
        BY <3>1, <4>1
      <4> QED BY <4>1, <4>2
    <3> HIDE DEF H, r, n
    <3> QED BY <1>1, <1>5, <3>1, <3>2, <3>3 DEF Fills
  <2>2. Placed(d, i, H, n, filled)
    <3> HIDE DEF H, r, n
    <3> QED BY <1>1, <1>2, <2>1, FilledIs DEF n
  <2>3. \A k \in Offsets : (k \in H => filled[k] # 0) /\ (k \notin H => filled[k] = At(d, i, k))
    <3> HIDE DEF filled, H, n
    <3> QED BY <2>2 DEF Placed
  <2>4. filled \in [Offsets -> Nat] /\ \A b \in NewBlocks(d, n) : b \in BlockIds
    <3> HIDE DEF filled, H, n
    <3> QED BY <2>2 DEF Placed
  <2>5. IsDisk(marked) /\ marked.bitmap = d.bitmap \cup NewBlocks(d, n) /\ marked.inodes = d.inodes
        /\ marked.inode = d.inode /\ marked.block = d.block
    <3> HIDE DEF n
    <3>1. NewBlocks(d, n) \subseteq BlockIds
      BY <2>4
    <3> QED BY <1>1, <3>1, Marked
  <2> HIDE DEF marked
  <2>6. /\ IsDisk(e) /\ e.bitmap = marked.bitmap /\ e.inodes = marked.inodes /\ e.inode = marked.inode
        /\ e.block[in.pointer_block] = filled
        /\ \A b \in BlockIds : b # in.pointer_block => e.block[b] = marked.block[b]
    <3> HIDE DEF filled, in
    <3> QED BY <1>1, <2>4, <2>5, Written
  <2> HIDE DEF e
  <2>7. Rewrites(d, e, i, filled)
    <3> HIDE DEF H, r, n
    <3>1. n \in Nat
      BY <1>2 DEF n
    <3>2. Takes(d, e, i, n, filled)
      BY <2>5, <2>6 DEF Takes
    <3> QED BY <1>1, <2>1, <3>1, <3>2, FillingRewrites
  <2> HIDE DEF filled
  <2>8. /\ Sound(e) /\ Used(e) = Used(d)
        /\ \A k \in Offsets : At(e, i, k) = filled[k]
        /\ \A j \in Used(d) \ {i} : Same(d, e, j)
    BY <1>1, <2>6, <2>7, Rewritten
  <2>9. /\ in2 \in Inode /\ in2.size = size /\ in2.pointer_block = in.pointer_block
        /\ in2.is_directory = in.is_directory
    BY <1>1 DEF Inode
  <2>10. in2.pointer_block = e.inode[i].pointer_block
    BY <2>5, <2>6, <2>9
  <2> HIDE DEF in2, in
  <2>11. /\ Sound(g) /\ g.inodes = e.inodes /\ Used(g) = Used(e) /\ g.inode[i] = in2
         /\ g.block = e.block
         /\ \A k \in Places : At(g, i, k) = At(e, i, k)
         /\ \A j \in Used(e) \ {i} : Same(e, g, j)
    BY <2>8, <2>9, <2>10, Resized
  <2> HIDE DEF g
  <2>12. /\ Sound(g) /\ g.inodes = d.inodes /\ Used(g) = Used(d) /\ Others(d, g, i)
         /\ \A k \in Offsets : At(g, i, k) = filled[k]
    <3>1. \A j \in Used(d) \ {i} : Same(d, g, j)
      BY <2>8, <2>11, SameAgain
    <3> QED BY <2>5, <2>6, <2>8, <2>11, <3>1 DEF Others, Places
  <2>13. ~ g.inode[i].is_directory /\ g.inode[i].size = size
    BY <2>9, <2>11 DEF in
  <2>14. \A k \in Offsets : k >= new => At(g, i, k) = 0
    <3> TAKE k \in Offsets
    <3>1. k >= new => k >= old /\ k \notin H
      BY <1>1, <1>2
    <3> QED BY <1>1, <2>3, <2>12, <3>1
  <2>15. size % BlockSize # 0 => At(g, i, size \div BlockSize) # 0
    <3> SUFFICES ASSUME size % BlockSize # 0 PROVE At(g, i, size \div BlockSize) # 0
      OBVIOUS
    <3> DEFINE q == size \div BlockSize
    <3>1. q \in Nat /\ q = new - 1
      BY CountAt DEF new
    <3> HIDE DEF q
    <3>2. q \in Offsets
      BY <1>1, <1>2, <3>1, BlockSizeAssumption
    <3>3. CASE old < new
      <4>1. q \in H
        BY <1>2, <3>1, <3>3
      <4>2. At(g, i, q) # 0
        BY <2>3, <2>12, <3>2, <4>1
      <4> QED BY <4>2 DEF q
    <3>4. CASE old = new
      <4>1. q * BlockSize < in.size
        BY <1>1, <1>2, <3>1, <3>4, Count DEF old
      <4>2. in.size < (q + 1) * BlockSize /\ (q + 1) * BlockSize = q * BlockSize + BlockSize
        <5>1. ~ new * BlockSize < size /\ new * BlockSize \in Nat
          BY <1>2, BlockSizeAssumption, Count DEF new
        <5>2. q + 1 = new
          BY <1>2, <3>1
        <5>3. in.size < size
          BY DEF in
        <5>4. (q + 1) * BlockSize = q * BlockSize + BlockSize
          BY <3>1, BlockSizeAssumption
        <5> QED BY <1>1, <5>1, <5>2, <5>3, <5>4
      <4>3. in.size - q * BlockSize \in 1 .. (BlockSize - 1)
            /\ in.size = q * BlockSize + (in.size - q * BlockSize)
        <5>1. q * BlockSize \in Nat /\ BlockSize \in Nat
          BY <3>1, BlockSizeAssumption
        <5> QED BY <1>1, <4>1, <4>2, <5>1
      <4>4. in.size \div BlockSize = q /\ in.size % BlockSize # 0
        <5> DEFINE w == in.size - q * BlockSize
        <5>1. w \in 0 .. (BlockSize - 1) /\ w # 0 /\ in.size = q * BlockSize + w
          BY <4>3
        <5> HIDE DEF w
        <5>2. (q * BlockSize + w) \div BlockSize = q /\ (q * BlockSize + w) % BlockSize = w
          BY <3>1, <5>1, BlockSizeAssumption, Quotient
        <5>3. in.size \div BlockSize = q /\ in.size % BlockSize = w
          BY <5>1, <5>2
        <5> QED BY <5>1, <5>3
      <4>5. At(d, i, q) # 0
        BY <1>1, <4>4
      <4>6. q \notin H
        BY <1>2, <3>4
      <4>7. At(g, i, q) # 0
        BY <2>3, <2>12, <3>2, <4>5, <4>6
      <4> QED BY <4>7 DEF q
    <3>5. old < new \/ old = new
      BY <1>2
    <3> QED BY <3>3, <3>4, <3>5
  <2>16. SizedAt(g, i)
    BY <1>1, <2>13, <2>14, <2>15, FileSized DEF new
  <2>17. Consistent(g) /\ SameTree(d, g) /\ Spares(d, g, Used(d) \ {i})
    BY <2>12, <2>13, <2>16, FileChanged
  <2>18. ASSUME NEW k \in Offsets, NEW w \in Offsets PROVE Stays(d, g, i, k, w)
    <3>1. filled[k] # 0 => filled[k] \in BlockIds /\ filled[k] # in.pointer_block
      BY <2>2 DEF Placed, in
    <3>2. filled[k] # 0 => g.block[filled[k]] = d.block[filled[k]]
      BY <2>5, <2>6, <2>11, <3>1
    <3> HIDE DEF H, r, n
    <3> QED BY <1>1, <2>1, <2>2, <2>12, <3>2, WordsStay
  <2>19. \A k \in Offsets : old <= k /\ k < new => At(g, i, k) # 0
    <3> TAKE k \in Offsets
    <3>1. old <= k /\ k < new => k \in H
      BY <1>1, <1>2
    <3> QED BY <2>3, <2>12, <3>1
  <2>20. Grown(d, g, i, size)
    BY <2>13, <2>17, <2>18, <2>19 DEF Grown, IsNow, old, new, in
  <2> QED BY <1>3, <1>5, <2>17, <2>20, GoodFiles DEF Done
<1> QED BY <1>4, <1>5

(* A file shrinks.                                                         *)
LEMMA ShrinkIsConsistent ==
  ASSUME NEW d, Consistent(d), NEW i \in Used(d), ~ d.inode[i].is_directory,
         NEW size \in Nat, size <= d.inode[i].size,
         size < d.inode[i].size /\ size % BlockSize # 0 =>
           Pointers(d, d.inode[i])[size \div BlockSize] # 0
  PROVE  /\ Consistent(shrink(d, i, size)) /\ SameTree(d, shrink(d, i, size))
         /\ Shrunk(d, shrink(d, i, size), i, size)
<1> DEFINE in   == d.inode[i]
           old  == block_count_from_size(in.size)
           new  == block_count_from_size(size)
           ids  == Pointers(d, in)
           cut  == new .. (old - 1)
           last == IF size = 0 THEN 0 ELSE ids[new - 1]
           tail == size % BlockSize
           gone == {ids[k] : k \in cut}
           zeroed == zerotail(d, last, tail)
           rest == block_delete(zeroed, gone)
           kept == [k \in Offsets |-> IF k \in cut THEN 0 ELSE ids[k]]
           e    == block_write(rest, in.pointer_block, kept)
           in2  == [in EXCEPT !.size = size]
           g    == inode_write(e, i, in2)
<1>1. /\ Sound(d) /\ IsDisk(d) /\ i \in InodeIds /\ in \in Inode
      /\ in.size \in Nat /\ in.size <= BlockSize * BlockSize
      /\ old \in Nat /\ old <= BlockSize
      /\ in.pointer_block \in BlockIds /\ in.pointer_block # 0
      /\ \A k \in Offsets : k \in Nat /\ k < BlockSize
      /\ \A k \in Nat : k < BlockSize => k \in Offsets
      /\ \A k \in Offsets : k >= old => At(d, i, k) = 0
      /\ in.size % BlockSize # 0 => At(d, i, in.size \div BlockSize) # 0
      /\ \A k \in Offsets : ids[k] = At(d, i, k)
  BY FileAt
<1>2. /\ ids \in [Offsets -> Nat]
      /\ \A b \in BlockIds : block_read(d, b) = d.block[b] /\ d.block[b] \in [Offsets -> Nat]
  BY FileAt
<1>3. new \in Nat /\ new <= old /\ size <= BlockSize * BlockSize
  <2>1. BlockSize * BlockSize \in Nat
    BY BlockSizeAssumption
  <2>2. new \in Nat /\ new <= old
    BY <1>1, Count, CountGrows
  <2> HIDE DEF new, old
  <2> QED BY <1>1, <2>1, <2>2
<1>4. shrink(d, i, size) = g
  BY DEF shrink
<1>5. /\ \A k \in Offsets : ids[k] # 0 => ids[k] \in BlockIds /\ ids[k] # in.pointer_block
                                          /\ ids[k] \in d.bitmap
      /\ \A k, l \in Offsets : ids[k] = ids[l] /\ ids[k] # 0 => k = l
  <2>1. /\ \A k \in Places : At(d, i, k) # 0 => At(d, i, k) \in d.bitmap /\ At(d, i, k) \in BlockIds
        /\ \A j \in Used(d), k, l \in Places :
             At(d, i, k) = At(d, j, l) /\ At(d, i, k) # 0 => i = j /\ k = l
        /\ in.pointer_block = At(d, i, -1)
    BY <1>1, BlockAt
  <2>2. -1 \in Places /\ \A k \in Offsets : k \in Places /\ k # -1
    BY <1>1 DEF Places
  <2> HIDE DEF in, ids
  <2> QED BY <1>1, <2>1, <2>2
<1> HIDE DEF old, new, ids
<1>6. \A k \in cut : k \in Offsets /\ k \in Nat /\ k >= new
  <2>1. \A k \in cut : k \in Nat /\ k < BlockSize /\ k >= new
    BY <1>1, <1>3, BlockSizeAssumption
  <2> QED BY <1>1, <2>1
<1>7. tail # 0 => /\ size # 0 /\ new - 1 \in Offsets /\ new - 1 \notin cut
                  /\ size \div BlockSize = new - 1
                  /\ last = ids[new - 1] /\ last # 0 /\ last \in BlockIds
  <2> SUFFICES ASSUME tail # 0
               PROVE  /\ size # 0 /\ new - 1 \in Offsets /\ new - 1 \notin cut
                      /\ size \div BlockSize = new - 1
                      /\ last = ids[new - 1] /\ last # 0 /\ last \in BlockIds
    OBVIOUS
  <2>1. size \div BlockSize \in Nat /\ size \div BlockSize = new - 1 /\ size # 0
    BY CountAt DEF new
  <2>2. new - 1 \in Offsets /\ new - 1 \notin cut
    <3>1. new - 1 \in Nat /\ new - 1 < BlockSize
      BY <1>1, <1>3, <2>1, BlockSizeAssumption
    <3>2. new - 1 \notin cut
      BY <1>1, <1>3
    <3> QED BY <1>1, <3>1, <3>2
  <2>3. ids[new - 1] # 0
    <3>1. CASE size < in.size
      BY <2>1, <3>1 DEF ids
    <3>2. CASE size = in.size
      <4>1. At(d, i, new - 1) # 0
        BY <1>1, <2>1, <3>2
      <4> QED BY <1>1, <2>2, <4>1
    <3>3. size < in.size \/ size = in.size
      BY <1>1
    <3> QED BY <3>1, <3>2, <3>3
  <2> QED BY <1>5, <2>1, <2>2, <2>3
<1> HIDE DEF cut, last, tail
<1>8. /\ IsDisk(zeroed) /\ zeroed.bitmap = d.bitmap /\ zeroed.inodes = d.inodes /\ zeroed.inode = d.inode
      /\ \A b \in BlockIds : tail = 0 \/ b # last => zeroed.block[b] = d.block[b]
      /\ tail # 0 => \A w \in Offsets :
           zeroed.block[last][w] = IF w < tail THEN d.block[last][w] ELSE 0
  <2>1. CASE tail = 0
    BY <1>1, <2>1 DEF zerotail
  <2>2. CASE tail # 0
    <3> DEFINE words == [w \in Offsets |-> IF w < tail THEN block_read(d, last)[w] ELSE 0]
    <3>1. words \in [Offsets -> Nat]
      BY <1>2, <1>7, <2>2
    <3>2. zeroed = block_write(d, last, words)
      BY <2>2 DEF zerotail
    <3> HIDE DEF words, zeroed
    <3>3. /\ IsDisk(zeroed) /\ zeroed.bitmap = d.bitmap /\ zeroed.inodes = d.inodes
          /\ zeroed.inode = d.inode
          /\ zeroed.block[last] = words
          /\ \A c \in BlockIds : c # last => zeroed.block[c] = d.block[c]
      BY <1>1, <1>7, <2>2, <3>1, <3>2, Written
    <3>4. \A w \in Offsets : words[w] = IF w < tail THEN d.block[last][w] ELSE 0
      BY <1>2, <1>7, <2>2 DEF words
    <3> QED BY <2>2, <3>3, <3>4
  <2> QED BY <2>1, <2>2
<1> HIDE DEF zeroed
<1>9. /\ IsDisk(rest) /\ rest.bitmap = d.bitmap \ gone /\ rest.inodes = d.inodes /\ rest.inode = d.inode
      /\ \A b \in BlockIds : rest.block[b] = IF b \in gone THEN EmptyBlock ELSE zeroed.block[b]
  <2> HIDE DEF gone
  <2> QED BY <1>8, Deleted
<1> HIDE DEF rest
<1>10. kept \in [Offsets -> Nat] /\ \A k \in Offsets : kept[k] = IF k \in cut THEN 0 ELSE At(d, i, k)
  BY <1>1, <1>2
<1> HIDE DEF kept
<1>11. /\ IsDisk(e) /\ e.bitmap = rest.bitmap /\ e.inodes = rest.inodes /\ e.inode = rest.inode
       /\ e.block[in.pointer_block] = kept
       /\ \A b \in BlockIds : b # in.pointer_block => e.block[b] = rest.block[b]
  <2> HIDE DEF in, gone
  <2> QED BY <1>1, <1>9, <1>10, Written
<1> HIDE DEF e
<1>12. Rewrites(d, e, i, kept)
  <2>1. \A b : b \in gone <=> \E k \in cut : ids[k] = b
    BY DEF gone
  <2> HIDE DEF gone
  <2>2. \A k \in Offsets : kept[k] = IF k \in cut THEN 0 ELSE ids[k]
    BY <1>1, <1>10
  <2>3. \A k, l \in Offsets : kept[k] = kept[l] /\ kept[k] # 0 => k = l
    BY <1>5, <2>2
  <2>4. \A b \in BlockIds : b \in e.bitmap <=> \/ b \in d.bitmap /\ \A k \in Offsets : ids[k] # b
                                              \/ \E k \in Offsets : kept[k] = b
    <3> TAKE b \in BlockIds
    <3>1. b # 0 /\ (b \in e.bitmap <=> b \in d.bitmap /\ ~ \E k \in cut : ids[k] = b)
      BY <1>9, <1>11, <2>1, Blocks
    <3>2. ASSUME b \in d.bitmap, ~ \E k \in cut : ids[k] = b, NEW k \in Offsets, ids[k] = b
          PROVE  \E l \in Offsets : kept[l] = b
      BY <2>2, <3>2
    <3>3. ASSUME NEW k \in Offsets, kept[k] = b
          PROVE  b \in d.bitmap /\ ~ \E l \in cut : ids[l] = b
      <4>1. ids[k] = b /\ k \notin cut
        BY <2>2, <3>1, <3>3
      <4> QED BY <1>5, <1>6, <3>1, <4>1
    <3>4. ASSUME \A k \in Offsets : ids[k] # b PROVE ~ \E l \in cut : ids[l] = b
      BY <1>6, <3>4
    <3> QED BY <3>1, <3>2, <3>3, <3>4
  <2>5. \A b \in BlockIds : /\ b # in.pointer_block
                            /\ \A k \in Offsets : ids[k] # b /\ kept[k] # b
                            => e.block[b] = d.block[b]
    <3> TAKE b \in BlockIds
    <3> SUFFICES ASSUME b # in.pointer_block, \A k \in Offsets : ids[k] # b
                 PROVE  e.block[b] = d.block[b]
      OBVIOUS
    <3>1. b \notin gone /\ (tail = 0 \/ b # last)
      BY <1>6, <1>7, <2>1
    <3> QED BY <1>8, <1>9, <1>11, <3>1
  <2>6. \A b \in BlockIds : /\ \E k \in Offsets : ids[k] = b
                            /\ \A k \in Offsets : kept[k] # b
                            => e.block[b] = EmptyBlock
    <3> TAKE b \in BlockIds
    <3> SUFFICES ASSUME NEW k \in Offsets, ids[k] = b, \A l \in Offsets : kept[l] # b
                 PROVE  e.block[b] = EmptyBlock
      OBVIOUS
    <3>1. k \in cut /\ b # 0
      BY <2>2, Blocks
    <3>2. b \in gone /\ b # in.pointer_block
      BY <1>5, <2>1, <3>1
    <3> QED BY <1>9, <1>11, <3>2
  <2>7. \A k \in Offsets : kept[k] = 0 \/ kept[k] = ids[k] \/ kept[k] \in Available(d)
    BY <2>2
  <2>8. /\ e.inodes = d.inodes /\ e.inode = d.inode
    BY <1>9, <1>11
  <2> HIDE DEF in
  <2>9. /\ \A b \in BlockIds : b \in e.bitmap <=> \/ b \in d.bitmap /\ \A k \in Offsets : At(d, i, k) # b
                                                 \/ \E k \in Offsets : kept[k] = b
        /\ \A k \in Offsets : kept[k] = 0 \/ kept[k] = At(d, i, k) \/ kept[k] \in Available(d)
    BY <1>1, <2>4, <2>7
  <2>10. \A b \in BlockIds : /\ b # in.pointer_block
                             /\ \A k \in Offsets : At(d, i, k) # b /\ kept[k] # b
                             => e.block[b] = d.block[b]
    BY <1>1, <2>5
  <2>11. \A b \in BlockIds : /\ \E k \in Offsets : At(d, i, k) = b
                             /\ \A k \in Offsets : kept[k] # b
                             => e.block[b] = EmptyBlock
    BY <1>1, <2>6
  <2> QED BY <1>10, <1>11, <2>3, <2>8, <2>9, <2>10, <2>11 DEF Rewrites, in
<1>13. /\ Sound(e) /\ Used(e) = Used(d)
       /\ \A k \in Offsets : At(e, i, k) = kept[k]
       /\ \A j \in Used(d) \ {i} : Same(d, e, j)
  BY <1>1, <1>11, <1>12, Rewritten
<1>14. /\ in2 \in Inode /\ in2.size = size /\ in2.pointer_block = in.pointer_block
       /\ in2.is_directory = in.is_directory
  BY <1>1 DEF Inode
<1>15. in2.pointer_block = e.inode[i].pointer_block
  BY <1>9, <1>11, <1>14
<1> HIDE DEF in2, in
<1>16. /\ Sound(g) /\ g.inodes = e.inodes /\ Used(g) = Used(e) /\ g.inode[i] = in2
       /\ g.block = e.block
       /\ \A k \in Places : At(g, i, k) = At(e, i, k)
       /\ \A j \in Used(e) \ {i} : Same(e, g, j)
  BY <1>13, <1>14, <1>15, Resized
<1> HIDE DEF g
<1>17. /\ Sound(g) /\ g.inodes = d.inodes /\ Used(g) = Used(d) /\ Others(d, g, i)
       /\ \A k \in Offsets : At(g, i, k) = kept[k]
  <2>1. \A j \in Used(d) \ {i} : Same(d, g, j)
    BY <1>13, <1>16, SameAgain
  <2> QED BY <1>9, <1>11, <1>13, <1>16, <2>1 DEF Others, Places
<1>18. ~ g.inode[i].is_directory /\ g.inode[i].size = size
  BY <1>14, <1>16 DEF in
<1>19. \A k \in Offsets : k >= new => At(g, i, k) = 0
  <2> TAKE k \in Offsets
  <2>1. k >= new => k \in cut \/ k >= old
    BY <1>1, <1>3 DEF cut
  <2> QED BY <1>1, <1>10, <1>17, <2>1
<1>20. size % BlockSize # 0 => At(g, i, size \div BlockSize) # 0
  BY <1>1, <1>7, <1>10, <1>17 DEF tail
<1>21. SizedAt(g, i)
  BY <1>1, <1>3, <1>18, <1>19, <1>20, FileSized DEF new
<1>22. Consistent(g) /\ SameTree(d, g) /\ Spares(d, g, Used(d) \ {i})
  BY <1>17, <1>18, <1>21, FileChanged
<1>23. \A k \in Offsets : k \in cut <=> new <= k /\ k < old
  BY <1>1, <1>3 DEF cut
<1>24. ASSUME NEW k \in Offsets, NEW w \in Offsets
       PROVE  IF k * BlockSize + w < size THEN Stays(d, g, i, k, w)
              ELSE At(g, i, k) = 0 \/ Has(g, i, k, w, 0)
  <2>1. CASE At(g, i, k) = 0
    <3>1. CASE At(d, i, k) = 0
      BY <2>1, <3>1 DEF Stays
    <3>2. CASE At(d, i, k) # 0
      <4>1. k \in cut /\ k >= new
        BY <1>10, <1>17, <1>23, <2>1, <3>2
      <4>2. ~ k * BlockSize < size
        BY <1>1, <1>3, <4>1, Count DEF new
      <4>3. ~ k * BlockSize + w < size
        BY <1>1, <4>2, BlockSizeAssumption
      <4> QED BY <2>1, <4>3
    <3> QED BY <3>1, <3>2
  <2>2. CASE At(g, i, k) # 0
    <3>1. k \notin cut /\ At(g, i, k) = ids[k] /\ ids[k] = At(d, i, k) /\ ids[k] \in BlockIds
          /\ ids[k] # 0 /\ ids[k] # in.pointer_block /\ k < new
      <4>1. At(g, i, k) = kept[k] /\ k \notin cut /\ kept[k] = At(d, i, k) /\ ids[k] = At(d, i, k)
        BY <1>1, <1>10, <1>17, <2>2
      <4>2. k < new
        BY <1>1, <1>3, <1>19, <2>2
      <4> QED BY <1>5, <2>2, <4>1, <4>2
    <3>2. ids[k] \notin gone
      BY <1>5, <1>6, <3>1 DEF gone
    <3>3. g.block[ids[k]] = zeroed.block[ids[k]]
      BY <1>9, <1>11, <1>16, <3>1, <3>2
    <3>4. k * BlockSize < size
      BY <1>1, <3>1, Count DEF new
    <3>5. CASE tail # 0 /\ ids[k] = last
      <4>1. k = new - 1 /\ size \div BlockSize = k
        BY <1>5, <1>7, <3>1, <3>5
      <4>2. size = k * BlockSize + tail /\ tail \in Offsets
        BY <4>1, PlaceOf DEF tail
      <4>3. k * BlockSize + w < size <=> w < tail
        BY <1>1, <4>2, BlockSizeAssumption
      <4>4. g.block[ids[k]][w] = IF w < tail THEN d.block[ids[k]][w] ELSE 0
        BY <1>8, <3>3, <3>5
      <4> QED BY <2>2, <3>1, <4>3, <4>4 DEF Stays, Has
    <3>6. CASE ~ (tail # 0 /\ ids[k] = last)
      <4>1. g.block[ids[k]] = d.block[ids[k]]
        BY <1>8, <3>1, <3>3, <3>6
      <4>2. Stays(d, g, i, k, w)
        BY <2>2, <3>1, <4>1 DEF Stays, Has
      <4>3. k * BlockSize + w < size
        <5> DEFINE q == size \div BlockSize
        <5>1. q \in Nat /\ tail \in Offsets /\ size = q * BlockSize + tail
          BY PlaceOf DEF tail
        <5> HIDE DEF q
        <5>2. CASE tail # 0
          <6>1. q = new - 1 /\ last = ids[new - 1] /\ new - 1 \in Offsets
            BY <1>7, <5>2 DEF q
          <6>2. k # q
            BY <3>6, <5>2, <6>1
          <6>3. k < q
            BY <1>1, <1>3, <3>1, <6>1, <6>2
          <6>4. k * BlockSize + BlockSize <= q * BlockSize /\ k * BlockSize \in Nat /\ q * BlockSize \in Nat
            BY <1>1, <5>1, <6>3, Products, BlockSizeAssumption
          <6> QED BY <5>1, <6>4, BlockSizeAssumption DEF Offsets
        <5>3. CASE tail = 0
          <6>1. size = q * BlockSize /\ k * BlockSize \in Nat /\ q * BlockSize \in Nat
            BY <1>1, <5>1, <5>3, BlockSizeAssumption
          <6>2. k < q
            <7> SUFFICES ASSUME q <= k PROVE FALSE
              BY <1>1, <5>1
            <7>1. q = k \/ q < k
              BY <1>1, <5>1
            <7>2. q < k => q * BlockSize + BlockSize <= k * BlockSize
              BY <1>1, <5>1, Products, BlockSizeAssumption
            <7> QED BY <3>4, <6>1, <7>1, <7>2, BlockSizeAssumption
          <6>3. k * BlockSize + BlockSize <= q * BlockSize
            BY <1>1, <5>1, <6>2, Products, BlockSizeAssumption
          <6> QED BY <6>1, <6>3, BlockSizeAssumption DEF Offsets
        <5> QED BY <5>2, <5>3
      <4> QED BY <4>2, <4>3
    <3> QED BY <3>5, <3>6
  <2> QED BY <2>1, <2>2
<1>25. Shrunk(d, g, i, size)
  BY <1>18, <1>22, <1>24 DEF Shrunk, IsNow
<1> QED BY <1>4, <1>22, <1>25

(* A file is written.                                                      *)
LEMMA WriteIsGood ==
  ASSUME NEW d, Consistent(d), NEW path, NEW i \in Used(d), i = resolve_path(d, path),
         ~ d.inode[i].is_directory,
         NEW offset \in Nat, NEW words \in Seq(Nat), offset + Len(words) <= BlockSize * BlockSize
  PROVE  /\ GoodFile(d, fs_write(d, path, offset, words))
         /\ fs_write(d, path, offset, words).reply = "OK" =>
              Overwritten(d, fs_write(d, path, offset, words).disk, i, offset, words)
<1> DEFINE in      == d.inode[i]
           end     == offset + Len(words)
           first   == offset \div BlockSize
           after   == block_count_from_size(end)
           old     == block_count_from_size(in.size)
           ids     == Pointers(d, in)
           written == first .. (after - 1)
           holes   == {k \in written : ids[k] = 0}
           n       == Cardinality(holes)
           r       == [k \in holes |-> Cardinality({h \in holes : h > k})]
           filled  == Filled(d, i, holes, r)
           block   == [k \in written |->
                         [w \in Offsets |->
                            LET m == k * BlockSize + w
                            IN  IF offset <= m /\ m < end THEN words[m - offset + 1]
                                ELSE block_read(d, filled[k])[w]]]
           id      == [k \in written |-> filled[k]]
           marked  == Mark(d, NewBlocks(d, n))
           stored  == block_write_many(marked, id, block)
           e       == block_write(stored, in.pointer_block, filled)
           in2     == [in EXCEPT !.size = IF in.size < end THEN end ELSE in.size]
           g       == inode_write(e, i, in2)
<1>1. /\ Sound(d) /\ IsDisk(d) /\ i \in InodeIds /\ in \in Inode
      /\ in.size \in Nat /\ in.size <= BlockSize * BlockSize
      /\ old \in Nat /\ old <= BlockSize
      /\ in.pointer_block \in BlockIds /\ in.pointer_block # 0
      /\ \A k \in Offsets : k \in Nat /\ k < BlockSize
      /\ \A k \in Nat : k < BlockSize => k \in Offsets
      /\ \A k \in Offsets : k >= old => At(d, i, k) = 0
      /\ in.size % BlockSize # 0 => At(d, i, in.size \div BlockSize) # 0
      /\ \A k \in Offsets : ids[k] = At(d, i, k)
  BY FileAt
<1>2. \A b \in BlockIds : block_read(d, b) = d.block[b] /\ d.block[b] \in [Offsets -> Nat]
  BY FileAt
<1>3. /\ end \in Nat /\ end >= offset /\ Len(words) \in Nat /\ end = offset + Len(words)
      /\ \A k \in 1 .. Len(words) : words[k] \in Nat
  BY LenProperties, ElementOfSeq
<1> HIDE DEF end, in
<1>4. first \in Nat /\ after \in Nat /\ after <= BlockSize
  BY <1>3, PlaceOf, Count, CountFits DEF end
<1>5. fs_write(d, path, offset, words) = IF ~ block_seek(d, n) THEN Failed(d) ELSE Done(g)
  <2>1. \A k \in Offsets : (IF k \in holes THEN NewBlock(d, Cardinality({h \in holes : h > k}))
                                           ELSE ids[k])
                             = IF k \in holes THEN NewBlock(d, r[k]) ELSE At(d, i, k)
    <3>1. \A k \in holes : r[k] = Cardinality({h \in holes : h > k})
      OBVIOUS
    <3> HIDE DEF holes, r, ids
    <3> QED BY <1>1, <3>1
  <2>2. filled = [k \in Offsets |-> IF k \in holes THEN NewBlock(d, Cardinality({h \in holes : h > k}))
                                    ELSE ids[k]]
    <3> HIDE DEF holes, r, ids
    <3> QED BY <2>1 DEF Filled
  <2> HIDE DEF filled
  <2> QED BY <2>2 DEF fs_write, in, end
<1>6. \A k \in written : k \in Nat /\ k \in Offsets /\ k >= first /\ k < after
  <2> HIDE DEF first, after
  <2>1. \A k \in written : k \in Nat /\ k < BlockSize /\ k >= first /\ k < after
    BY <1>4, BlockSizeAssumption
  <2> QED BY <1>1, <2>1
<1>7. \A k \in Nat : k >= first /\ k < after => k \in written
  <2> HIDE DEF first, after
  <2> QED BY <1>4
<1> HIDE DEF first, after, old, ids
<1>8. IsFiniteSet(holes) /\ \A k \in holes : k \in Nat /\ k \in written /\ ids[k] = 0
  <2>1. IsFiniteSet(written)
    BY <1>4, FS_Interval
  <2>2. holes \in SUBSET written
    OBVIOUS
  <2>3. IsFiniteSet(holes)
    <3> HIDE DEF holes, written
    <3> QED BY <2>1, <2>2, FS_Subset
  <2> QED BY <1>6, <2>3
<1>9. \A k \in written : k \notin holes => ids[k] # 0
  OBVIOUS
<1> HIDE DEF written, holes
<1>10. /\ n \in Nat
       /\ \A k \in holes : r[k] \in 0 .. (n - 1)
       /\ \A k, l \in holes : r[k] = r[l] => k = l
       /\ \A m \in 0 .. (n - 1) : \E k \in holes : r[k] = m
  <2> DEFINE Above(k) == Cardinality({h \in holes : h > k})
  <2>1. /\ n \in Nat
        /\ \A k \in holes : Above(k) \in 0 .. (n - 1)
        /\ \A k, l \in holes : Above(k) = Above(l) => k = l
        /\ \A m \in 0 .. (n - 1) : \E k \in holes : Above(k) = m
    BY <1>8, HandedOut
  <2>2. \A k \in holes : r[k] = Above(k)
    OBVIOUS
  <2> HIDE DEF r, Above
  <2> QED BY <2>1, <2>2
<1> HIDE DEF n, r
<1>11. CASE ~ block_seek(d, n)
  BY <1>5, <1>11, GoodFiles DEF Failed
<1>12. CASE block_seek(d, n)
  <2>1. Fills(d, i, holes, n, r)
    <3>1. \A k \in holes : k \in Offsets /\ At(d, i, k) = 0
      BY <1>1, <1>6, <1>8
    <3> QED BY <1>10, <1>12, <3>1 DEF Fills
  <2>2. Placed(d, i, holes, n, filled)
    <3> HIDE DEF filled
    <3>1. filled = Filled(d, i, holes, r)
      BY DEF filled
    <3> QED BY <1>1, <1>10, <2>1, <3>1, FilledIs
  <2> HIDE DEF filled
  <2>3. /\ filled \in [Offsets -> Nat] /\ \A b \in NewBlocks(d, n) : b \in BlockIds
        /\ \A k \in Offsets : filled[k] # 0 => filled[k] \in BlockIds /\ filled[k] # in.pointer_block
        /\ \A k, l \in Offsets : filled[k] = filled[l] /\ filled[k] # 0 => k = l
        /\ \A k \in holes : filled[k] # 0
        /\ \A k \in Offsets : k \notin holes => filled[k] = At(d, i, k)
    BY <2>2 DEF Placed, in
  <2>4. \A k \in written : filled[k] # 0 /\ filled[k] \in BlockIds /\ filled[k] # in.pointer_block
    <3> TAKE k \in written
    <3>1. filled[k] # 0
      BY <1>1, <1>6, <1>9, <2>3
    <3> QED BY <1>6, <2>3, <3>1
  <2>5. /\ id \in [written -> BlockIds] /\ \A k \in written : id[k] = filled[k]
    BY <2>4
  <2> HIDE DEF id
  <2>6. \A k, l \in written : id[k] = id[l] => k = l
    BY <1>6, <2>3, <2>4, <2>5
  <2>7. block \in [written -> [Offsets -> Nat]]
    <3> DEFINE at(k, w) == LET m == k * BlockSize + w
                           IN  IF offset <= m /\ m < end THEN words[m - offset + 1]
                               ELSE block_read(d, filled[k])[w]
    <3>1. ASSUME NEW k \in written, NEW w \in Offsets PROVE at(k, w) \in Nat
      <4> DEFINE m == k * BlockSize + w
      <4>1. m \in Nat
        BY <1>1, <1>6, BlockSizeAssumption
      <4>2. block_read(d, filled[k])[w] \in Nat
        BY <1>2, <2>4
      <4> HIDE DEF m
      <4>3. offset <= m /\ m < end => m - offset + 1 \in 1 .. Len(words)
        BY <1>3, <4>1
      <4>4. at(k, w) = IF offset <= m /\ m < end THEN words[m - offset + 1]
                       ELSE block_read(d, filled[k])[w]
        BY DEF m
      <4> HIDE DEF at
      <4> QED BY <1>3, <4>2, <4>3, <4>4
    <3>2. block = [k \in written |-> [w \in Offsets |-> at(k, w)]]
      OBVIOUS
    <3> HIDE DEF at
    <3> QED BY <3>1, <3>2
  <2>7a. ASSUME NEW k \in written, NEW w \in Offsets
         PROVE  block[k][w] = LET m == k * BlockSize + w
                              IN  IF offset <= m /\ m < end THEN words[m - offset + 1]
                                  ELSE d.block[filled[k]][w]
    <3>1. block_read(d, filled[k]) = d.block[filled[k]]
      BY <1>2, <2>4
    <3> QED BY <3>1
  <2> HIDE DEF block
  <2>8. IsDisk(marked) /\ marked.bitmap = d.bitmap \cup NewBlocks(d, n) /\ marked.inodes = d.inodes
        /\ marked.inode = d.inode /\ marked.block = d.block
    <3>1. NewBlocks(d, n) \subseteq BlockIds
      BY <2>3
    <3> QED BY <1>1, <3>1, Marked
  <2> HIDE DEF marked
  <2>9. IsDisk(stored) /\ Stores(marked, stored, written, id, block)
    <3>1. \A k \in written : k \in Nat
      BY <1>6
    <3>2. stored = block_write_many(marked, id, block)
      OBVIOUS
    <3> HIDE DEF stored
    <3> QED BY <2>5, <2>6, <2>7, <2>8, <3>1, <3>2, ManyWritten
  <2> HIDE DEF stored
  <2>10. /\ stored.bitmap = marked.bitmap /\ stored.inodes = marked.inodes /\ stored.inode = marked.inode
         /\ \A b \in BlockIds : (\A k \in written : id[k] # b) => stored.block[b] = marked.block[b]
    BY <2>9 DEF Stores
  <2>11. /\ IsDisk(e) /\ e.bitmap = stored.bitmap /\ e.inodes = stored.inodes /\ e.inode = stored.inode
         /\ e.block[in.pointer_block] = filled
         /\ \A b \in BlockIds : b # in.pointer_block => e.block[b] = stored.block[b]
    BY <1>1, <2>3, <2>9, Written
  <2> HIDE DEF e
  <2>12. Rewrites(d, e, i, filled)
    <3>1. /\ e.inodes = d.inodes /\ e.inode = d.inode /\ e.bitmap = d.bitmap \cup NewBlocks(d, n)
          /\ e.block[d.inode[i].pointer_block] = filled
      BY <2>8, <2>10, <2>11 DEF in
    <3>2. \A b \in BlockIds : /\ b # d.inode[i].pointer_block
                              /\ \A k \in Offsets : filled[k] # b
                              => e.block[b] = d.block[b]
      <4> TAKE b \in BlockIds
      <4> SUFFICES ASSUME b # in.pointer_block, \A k \in Offsets : filled[k] # b
                   PROVE  e.block[b] = d.block[b]
        BY DEF in
      <4>1. \A k \in written : id[k] # b
        BY <1>6, <2>5
      <4> QED BY <2>8, <2>10, <2>11, <4>1
    <3>3. filled = Filled(d, i, holes, r)
      BY DEF filled
    <3>4. Takes(d, e, i, n, filled)
      BY <3>1, <3>2 DEF Takes
    <3> QED BY <1>1, <1>10, <2>1, <3>3, <3>4, FillingRewrites
  <2>13. /\ Sound(e) /\ Used(e) = Used(d)
         /\ \A k \in Offsets : At(e, i, k) = filled[k]
         /\ \A j \in Used(d) \ {i} : Same(d, e, j)
    BY <1>1, <2>11, <2>12, Rewritten
  <2> DEFINE size == IF in.size < end THEN end ELSE in.size
  <2>14. size \in Nat /\ size >= end /\ size >= in.size /\ (size = end \/ size = in.size)
         /\ size <= BlockSize * BlockSize
    BY <1>1, <1>3, BlockSizeAssumption
  <2>15. /\ in2 \in Inode /\ in2.size = size /\ in2.pointer_block = in.pointer_block
         /\ in2.is_directory = in.is_directory
    BY <1>1, <2>14 DEF Inode
  <2>16. in2.pointer_block = e.inode[i].pointer_block
    BY <2>8, <2>10, <2>11, <2>15 DEF in
  <2> HIDE DEF in2, size
  <2>17. /\ Sound(g) /\ g.inodes = e.inodes /\ Used(g) = Used(e) /\ g.inode[i] = in2
         /\ g.block = e.block
         /\ \A k \in Places : At(g, i, k) = At(e, i, k)
         /\ \A j \in Used(e) \ {i} : Same(e, g, j)
    BY <2>13, <2>15, <2>16, Resized
  <2> HIDE DEF g
  <2>18. /\ Sound(g) /\ g.inodes = d.inodes /\ Used(g) = Used(d) /\ Others(d, g, i)
         /\ \A k \in Offsets : At(g, i, k) = filled[k]
    <3>1. \A j \in Used(d) \ {i} : Same(d, g, j)
      BY <2>13, <2>17, SameAgain
    <3> QED BY <2>8, <2>10, <2>11, <2>13, <2>17, <3>1 DEF Others, Places
  <2>19. ~ g.inode[i].is_directory /\ g.inode[i].size = size
    BY <2>15, <2>17 DEF in
  <2>20. \A k \in Offsets : k >= block_count_from_size(size) => At(g, i, k) = 0
    <3> TAKE k \in Offsets
    <3>1. after <= block_count_from_size(size) /\ old <= block_count_from_size(size)
          /\ block_count_from_size(size) \in Nat
      BY <1>1, <1>3, <2>14, CountGrows, Count DEF after, old
    <3>2. k >= block_count_from_size(size) => k >= old /\ k \notin written
      BY <1>1, <1>4, <1>6, <3>1
    <3> QED BY <1>1, <1>8, <2>3, <2>18, <3>2
  <2>21. size % BlockSize # 0 => At(g, i, size \div BlockSize) # 0
    <3> SUFFICES ASSUME size % BlockSize # 0 PROVE At(g, i, size \div BlockSize) # 0
      OBVIOUS
    <3> DEFINE q == size \div BlockSize
    <3>1. q \in Nat /\ q = block_count_from_size(size) - 1
      BY <2>14, CountAt
    <3>2. block_count_from_size(size) <= BlockSize
      BY <2>14, CountFits
    <3> HIDE DEF q
    <3>3. q \in Offsets
      <4>1. block_count_from_size(size) \in Nat
        BY <2>14, Count
      <4>2. q < BlockSize
        BY <3>1, <3>2, <4>1, BlockSizeAssumption
      <4> QED BY <1>1, <3>1, <4>2
    <3>4. CASE size = end
      <4>1. q < after
        BY <1>4, <3>1, <3>4 DEF after
      <4>2. first <= q
        <5>1. CASE offset = end
          BY <1>4, <3>4, <5>1 DEF first, q
        <5>2. CASE offset < end
          <6>1. first < after
            BY <1>3, <5>2, PlaceOf DEF first, after
          <6> QED BY <1>4, <3>1, <3>4, <6>1 DEF after
        <5> QED BY <1>3, <5>1, <5>2
      <4>3. q \in written
        BY <1>7, <3>1, <4>1, <4>2
      <4> QED BY <2>4, <2>18, <3>3, <4>3 DEF q
    <3>5. CASE size = in.size
      <4>1. At(d, i, q) # 0
        BY <1>1, <3>5 DEF q
      <4>2. filled[q] # 0
        BY <2>3, <3>3, <4>1
      <4> QED BY <2>18, <3>3, <4>2 DEF q
    <3> QED BY <2>14, <3>4, <3>5
  <2>22. SizedAt(g, i)
    BY <1>1, <2>14, <2>19, <2>20, <2>21, FileSized
  <2>23. Consistent(g) /\ SameTree(d, g) /\ Spares(d, g, Used(d) \ {i})
    BY <2>18, <2>19, <2>22, FileChanged
  <2>24. ASSUME NEW k \in Offsets, NEW w \in Offsets
         PROVE  LET m == k * BlockSize + w
                IN  IF offset <= m /\ m < end THEN Has(g, i, k, w, words[m - offset + 1])
                    ELSE Stays(d, g, i, k, w)
    <3> DEFINE m == k * BlockSize + w
    <3>1. m \in Nat /\ m \div BlockSize = k
      <4>1. k \in Nat /\ w \in 0 .. (BlockSize - 1)
        BY <1>1 DEF Offsets
      <4>2. k * BlockSize \in Nat
        BY <4>1, BlockSizeAssumption
      <4>3. (k * BlockSize + w) \div BlockSize = k
        BY <4>1, BlockSizeAssumption, Quotient
      <4> QED BY <4>1, <4>2, <4>3
    <3>2. At(g, i, k) = filled[k]
      BY <2>18
    <3>3. CASE k \in written
      <4>1. g.block[filled[k]] = block[k]
        BY <2>4, <2>5, <2>9, <2>11, <2>17, <3>3 DEF Stores
      <4>2. CASE offset <= m /\ m < end
        BY <2>4, <2>7a, <3>2, <3>3, <4>1, <4>2 DEF Has
      <4>3. CASE ~ (offset <= m /\ m < end)
        <5>1. g.block[filled[k]][w] = d.block[filled[k]][w]
          BY <2>7a, <3>3, <4>1, <4>3
        <5>2. Stays(d, g, i, k, w)
          BY <1>1, <2>1, <2>2, <3>2, <5>1, WordsStay
        <5> QED BY <4>3, <5>2
      <4> QED BY <4>2, <4>3
    <3>4. CASE k \notin written
      <4>1. ~ (offset <= m /\ m < end)
        <5> SUFFICES ASSUME offset <= m, m < end PROVE FALSE
          OBVIOUS
        <5>1. k < after
          BY <1>3, <3>1, PlaceOf DEF after
        <5>2. k < first
          BY <1>1, <1>4, <1>7, <3>4, <5>1
        <5>3. first * BlockSize <= offset /\ first * BlockSize \in Nat
          <6>1. offset = first * BlockSize + (offset % BlockSize) /\ offset % BlockSize \in Offsets
            BY PlaceOf DEF first
          <6> QED BY <1>4, <6>1, BlockSizeAssumption DEF Offsets
        <5>4. k * BlockSize + BlockSize <= first * BlockSize /\ k * BlockSize \in Nat
          BY <1>1, <1>4, <5>2, Products, BlockSizeAssumption
        <5>5. m < k * BlockSize + BlockSize
          BY <5>4, BlockSizeAssumption DEF Offsets
        <5> QED BY <3>1, <5>3, <5>4, <5>5, BlockSizeAssumption
      <4>2. ASSUME filled[k] # 0 PROVE g.block[filled[k]] = d.block[filled[k]]
        <5>1. filled[k] \in BlockIds /\ filled[k] # in.pointer_block
          BY <2>3, <4>2
        <5>2. \A l \in written : id[l] # filled[k]
          BY <1>6, <2>3, <2>5, <3>4, <4>2
        <5> QED BY <2>8, <2>10, <2>11, <2>17, <5>1, <5>2
      <4>3. Stays(d, g, i, k, w)
        BY <1>1, <2>1, <2>2, <3>2, <4>2, WordsStay
      <4> QED BY <4>1, <4>3
    <3> QED BY <3>3, <3>4
  <2>25. Overwritten(d, g, i, offset, words)
    BY <2>19, <2>23, <2>24 DEF Overwritten, IsNow, end, in, size
  <2> QED BY <1>5, <1>12, <2>23, <2>25, GoodFiles DEF Done
<1> QED BY <1>11, <1>12

-----------------------------------------------------------------------------
(* Actions.                                                                *)

LEMMA Parent ==
  ASSUME NEW d, Consistent(d), NEW path \in Seq(Names), path # << >>,
         resolve_path(d, path) # NoInode
  PROVE  /\ resolve_path(d, Front(path)) \in Directories(d)
         /\ resolve_path(d, path) \in Used(d)
BY ResolveFinds, InodesAre, ConsistentIs DEF Finds

LEMMA NoName ==
  ASSUME NEW d, Consistent(d), NEW path \in Seq(Names), path # << >>,
         NEW p, p = resolve_path(d, Front(path)), p \in Directories(d),
         resolve_path(d, path) = NoInode
  PROVE  Unnamed(Entries(d, p), Last(path))
<1> SUFFICES ASSUME NEW e \in 1 .. Len(Entries(d, p)), Entries(d, p)[e].name = Last(path) PROVE FALSE
  BY DEF Unnamed
<1>1. Finds(d, p, Last(path), Entries(d, p)[e].inode_id)
  BY DEF Finds
<1> QED BY <1>1, ResolveFinds

Makes(d, g, path, is_directory) ==
  \E x : Adds(d, g, resolve_path(d, Front(path)), Last(path), x) /\ Fresh(g, x, is_directory)

LEMMA MakeIsGood ==
  ASSUME EntriesFit, NEW d, Consistent(d), NEW path \in Named,
         resolve_path(d, path) = NoInode, IsDirectory(d, Front(path)), NEW is_directory \in BOOLEAN
  PROVE  /\ Good(d, make_directory_or_file(d, path, is_directory))
         /\ Leads(d, make_directory_or_file(d, path, is_directory))
         /\ make_directory_or_file(d, path, is_directory).reply = "OK" =>
              Makes(d, make_directory_or_file(d, path, is_directory).disk, path, is_directory)
<1> DEFINE p        == resolve_path(d, Front(path))
           in       == d.inode[p]
           name     == Last(path)
           grown    == [in EXCEPT !.size = in.size + EntrySize]
           extended == entries_extend(d, in)
           x        == NewInode(extended)
           made     == inode_initialize(inode_new(extended), x, is_directory)
           entries  == Append(Entries(d, p), [name |-> name, inode_id |-> x])
           g        == entries_write(inode_write(made, p, grown), grown, entries)
<1>0. path \in Seq(Names) /\ path # << >>
  BY PathsAre
<1>1. p \in Directories(d) /\ name \in Names
  BY <1>0, FrontLast, DirectoryAt
<1>2. Unnamed(Entries(d, p), name)
  BY <1>0, <1>1, NoName
<1>3. make_directory_or_file(d, path, is_directory) =
        IF ~ RoomToMake(d) THEN Failed(d)
        ELSE IF ~ block_seek(extended, 1) THEN Failed(inode_new(extended))
        ELSE Done(g)
  BY DEF make_directory_or_file, resolve_parent_path, Entries
<1> HIDE DEF p, name
<1>4. ASSUME RoomToMake(d)
      PROVE  /\ block_seek(extended, 1) /\ Consistent(g)
             /\ Adds(d, g, p, name, x) /\ Fresh(g, x, is_directory)
  <2>1. /\ in = d.inode[p] /\ grown = [in EXCEPT !.size = in.size + EntrySize]
        /\ extended = entries_extend(d, in) /\ x = NewInode(extended)
        /\ made = inode_initialize(inode_new(extended), x, is_directory)
        /\ g = entries_write(inode_write(made, p, grown), grown,
                             Append(Entries(d, p), [name |-> name, inode_id |-> x]))
    OBVIOUS
  <2> HIDE DEF in, grown, extended, x, made, g
  <2> QED BY <1>1, <1>2, <1>4, <2>1, MakeIsConsistent
<1> HIDE DEF g, extended, x
<1>5. CASE RoomToMake(d)
  <2>1. make_directory_or_file(d, path, is_directory) = Done(g) /\ Consistent(g)
    BY <1>3, <1>4, <1>5
  <2>2. Led(d) => Led(g)
    BY <1>1, <1>4, <1>5, <2>1, AddedIsLed DEF p, name
  <2>3. Makes(d, g, path, is_directory)
    BY <1>4, <1>5 DEF Makes, p, name
  <2> QED BY <2>1, <2>2, <2>3, DoneIsGood DEF Leads, Done
<1>6. CASE ~ RoomToMake(d)
  BY <1>3, <1>6, FailedIsGood DEF Leads, Failed
<1> QED BY <1>5, <1>6

LEMMA RemoveIsGood ==
  ASSUME NEW d, Consistent(d), NEW path \in Seq(Names), path # << >>,
         resolve_path(d, path) # NoInode
  PROVE  /\ Good(d, Done(remove(d, path)))
         /\ Childless(d, resolve_path(d, path)) => Leads(d, Done(remove(d, path)))
<1> DEFINE p == resolve_path(d, Front(path))
           x == resolve_path(d, path)
           g == remove(d, path)
<1>1. p \in Directories(d) /\ Consistent(g) /\ Forgets(d, g, p, Last(path), x)
  BY Parent, RemoveIs
<1> HIDE DEF g
<1>2. ASSUME Childless(d, x), Led(d) PROVE Led(g)
  BY <1>1, <1>2, RemovedIsLed
<1> QED BY <1>1, <1>2, DoneIsGood DEF Leads, Done, g

(* Files and directories without entries are childless.                    *)
LEMMA ChildlessIs ==
  ASSUME NEW d, Consistent(d), NEW path \in Seq(Names),
         IsDirectory(d, path) => entries_count(d.inode[resolve_path(d, path)]) = 0
  PROVE  Childless(d, resolve_path(d, path))
<1> DEFINE x == resolve_path(d, path)
<1> SUFFICES ASSUME NEW n, NEW y, Finds(d, x, n, y) PROVE FALSE
  BY DEF Childless
<1>1. x \in Directories(d) /\ \E e \in 1 .. Len(Entries(d, x)) : TRUE
  BY DEF Finds
<1>2. IsDirectory(d, path)
  BY <1>1, InodesAre, ConsistentIs DEF IsDirectory, Directories
<1>3. Len(Entries(d, x)) \in Nat /\ d.inode[x].size = EntrySize * Len(Entries(d, x))
  BY <1>1, ConsistentIs, EntriesAre
<1> HIDE DEF x
<1>4. Len(Entries(d, x)) = 0
  BY <1>2, <1>3 DEF entries_count, EntrySize, x
<1> QED BY <1>1, <1>4

LEMMA TruncateIsGood ==
  ASSUME NEW d, Consistent(d), NEW path, NEW i \in Used(d), i = resolve_path(d, path),
         ~ d.inode[i].is_directory, NEW size \in Nat, size <= BlockSize * BlockSize,
         size < d.inode[i].size /\ size % BlockSize # 0 =>
           Pointers(d, d.inode[i])[size \div BlockSize] # 0
  PROVE  /\ GoodFile(d, fs_truncate(d, path, size))
         /\ fs_truncate(d, path, size).reply = "OK" =>
              IF size > d.inode[i].size THEN Grown(d, fs_truncate(d, path, size).disk, i, size)
              ELSE Shrunk(d, fs_truncate(d, path, size).disk, i, size)
<1>1. d.inode[i].size \in Nat
  BY ConsistentIs
<1>2. CASE size > d.inode[i].size
  BY <1>2, GrowIsGood DEF fs_truncate
<1>3. CASE size <= d.inode[i].size
  <2>1. /\ Consistent(shrink(d, i, size)) /\ SameTree(d, shrink(d, i, size))
        /\ Shrunk(d, shrink(d, i, size), i, size)
    BY <1>3, ShrinkIsConsistent
  <2>2. fs_truncate(d, path, size) = Done(shrink(d, i, size))
    BY <1>1, <1>3 DEF fs_truncate
  <2> QED BY <1>1, <1>3, <2>1, <2>2, GoodFiles DEF Done
<1> QED BY <1>1, <1>2, <1>3

LEMMA FileIs ==
  ASSUME NEW d, Consistent(d), NEW path \in Seq(Names), IsFile(d, path)
  PROVE  resolve_path(d, path) \in Used(d) /\ ~ d.inode[resolve_path(d, path)].is_directory
BY ResolveReaches DEF IsFile, Reached

GoodStep(result) ==
  Good(disk, result) /\ Returns(result) /\ (~ RemoveNonEmpty => Leads(disk, result))

LEMMA FileStep ==
  ASSUME NEW result, GoodFile(disk, result), Returns(result), Consistent(disk)
  PROVE  GoodStep(result)
BY StillLed DEF GoodFile, GoodStep, Good, Leads

LEMMA StepIsGood ==
  ASSUME EntriesFit, ~ CutHoles, IInv, Next
  PROVE  \E result : GoodStep(result)
<1>1. Consistent(disk)
  BY DEF IInv
<1>2. PICK path \in Named :
        \/ Mknod(path) \/ Mkdir(path) \/ Unlink(path) \/ Rmdir(path)
        \/ \E new \in Named : Rename(path, new)
        \/ \E offset \in 0 .. MaxSize, words \in Writes : Write(path, offset, words)
        \/ \E size \in 0 .. MaxSize : Truncate(path, size)
  BY DEF Next
<1>3. path \in Seq(Names) /\ path # << >>
  BY PathsAre
<1>4. CASE Mknod(path)
  BY <1>1, <1>4, MakeIsGood DEF Mknod, KernelMayMake, GoodStep
<1>5. CASE Mkdir(path)
  BY <1>1, <1>5, MakeIsGood DEF Mkdir, KernelMayMake, GoodStep
<1>6. CASE Unlink(path)
  <2>1. Childless(disk, resolve_path(disk, path))
    BY <1>1, <1>3, <1>6, ChildlessIs DEF Unlink, IsFile, IsDirectory
  <2> QED BY <1>1, <1>3, <1>6, <2>1, RemoveIsGood DEF Unlink, IsFile, GoodStep
<1>7. CASE Rmdir(path)
  <2>1. ~ RemoveNonEmpty => Childless(disk, resolve_path(disk, path))
    BY <1>1, <1>3, <1>7, ChildlessIs DEF Rmdir, Removable
  <2> QED BY <1>1, <1>3, <1>7, <2>1, RemoveIsGood DEF Rmdir, IsDirectory, GoodStep
<1>8. ASSUME NEW new \in Named, Rename(path, new)
      PROVE  \E result : GoodStep(result)
  <2>1. new \in Seq(Names) /\ new # << >>
    BY PathsAre
  <2>2. ~ RemoveNonEmpty => Childless(disk, resolve_path(disk, new))
    BY <1>1, <1>8, <2>1, ChildlessIs DEF Rename, Removable
  <2>3. StaysShort(disk, path, new)
    BY <1>8 DEF Rename, StaysInBounds, StaysShort
  <2>4. /\ Good(disk, fs_rename(disk, path, new))
        /\ Childless(disk, resolve_path(disk, new)) /\ StaysShort(disk, path, new) =>
             Leads(disk, fs_rename(disk, path, new))
    BY <1>1, <1>3, <1>8, <2>1, RenameIsGood DEF Rename, KernelMayRename
  <2> QED BY <1>8, <2>2, <2>3, <2>4 DEF Rename, GoodStep
<1>9. ASSUME NEW offset \in 0 .. MaxSize, NEW words \in Writes, Write(path, offset, words)
      PROVE  \E result : GoodStep(result)
  <2>1. offset \in Nat /\ words \in Seq(Nat) /\ Len(words) \in Nat
    <3>1. words \in Seq(Nat)
      BY WritesAssumption
    <3> QED BY <3>1, SizeAssumption, LenProperties
  <2>2. offset + Len(words) <= BlockSize * BlockSize
    <3>1. offset + Len(words) <= MaxSize
      BY <1>9 DEF Write
    <3> QED BY <2>1, <3>1, SizeAssumption, BlockSizeAssumption
  <2>3. resolve_path(disk, path) \in Used(disk) /\ ~ disk.inode[resolve_path(disk, path)].is_directory
    BY <1>1, <1>3, <1>9, FileIs DEF Write
  <2>4. GoodFile(disk, fs_write(disk, path, offset, words))
    BY <1>1, <2>1, <2>2, <2>3, WriteIsGood
  <2> QED BY <1>1, <1>9, <2>4, FileStep DEF Write
<1>10. ASSUME NEW size \in 0 .. MaxSize, Truncate(path, size)
       PROVE  \E result : GoodStep(result)
  <2> DEFINE i == resolve_path(disk, path)
  <2>1. size \in Nat /\ size <= BlockSize * BlockSize
    BY SizeAssumption, BlockSizeAssumption
  <2>2. i \in Used(disk) /\ ~ disk.inode[i].is_directory
    BY <1>1, <1>3, <1>10, FileIs DEF Truncate
  <2>3. size < disk.inode[i].size /\ size % BlockSize # 0 =>
          Pointers(disk, disk.inode[i])[size \div BlockSize] # 0
    BY <1>10 DEF Truncate, EndsInHole
  <2>4. GoodFile(disk, fs_truncate(disk, path, size))
    <3> DEFINE j == i
    <3>1. j = resolve_path(disk, path)
      OBVIOUS
    <3> HIDE DEF i, j
    <3> QED BY <1>1, <2>1, <2>2, <2>3, <3>1, TruncateIsGood DEF j
  <2> QED BY <1>1, <1>10, <2>4, FileStep DEF Truncate
<1> QED BY <1>2, <1>4, <1>5, <1>6, <1>7, <1>8, <1>9, <1>10

-----------------------------------------------------------------------------
(* The invariant.                                                          *)

LEMMA InitIInv ==
  ASSUME Init
  PROVE  IInv
<1> DEFINE list == [i \in {ROOT_INODE} |-> << >>]
<1>1. /\ Sound(disk) /\ disk.inodes = {} /\ Used(disk) = {ROOT_INODE} /\ ROOT_INODE \in InodeIds
      /\ disk.inode[ROOT_INODE].size = 0 /\ disk.inode[ROOT_INODE].is_directory = TRUE
      /\ \A k \in Offsets : At(disk, ROOT_INODE, k) = 0
  BY Formatted DEF Init
<1>2. Directories(disk) = {ROOT_INODE}
  BY <1>1 DEF Directories
<1>3. Holds(disk, ROOT_INODE, << >>)
  BY <1>1, EmptyHolds
<1>4. list[ROOT_INODE] = << >> /\ << >> \in Seq(Entry) /\ Len(<< >>) = 0
  OBVIOUS
<1> HIDE DEF list
<1>5. IsTree(Directories(disk), list, disk.inodes)
  <2>1. Lists(<< >>, disk.inodes)
    BY <1>4 DEF Lists
  <2> QED BY <1>2, <1>4, <2>1 DEF IsTree
<1>6. Sized(disk) /\ Shows(disk, list)
  BY <1>1, <1>2, <1>3, <1>4 DEF Sized, Shows, Holds
<1> QED BY <1>1, <1>5, <1>6, ConsistentAgain DEF IInv, Init

LEMMA Step ==
  ASSUME EntriesFit, ~ CutHoles, IInv, [Next]_vars
  PROVE  /\ IInv' /\ (reply' = "ENOSPC" => disk' = disk)
         /\ ~ RemoveNonEmpty /\ Led(disk) => Led(disk')
<1>1. CASE UNCHANGED vars
  BY <1>1 DEF IInv, vars
<1>2. CASE Next
  <2>1. PICK result : GoodStep(result)
    BY <1>2, StepIsGood
  <2>2. disk' = result.disk /\ reply' = result.reply
    BY <2>1 DEF GoodStep, Returns
  <2> QED BY <2>1, <2>2 DEF GoodStep, Good, Leads, IInv
<1> QED BY <1>1, <1>2

(* The invariant: after any calls of the handlers no block serves two      *)
(* purposes, blocks at no place are free and empty, no pointer lies behind *)
(* an end, no name is twice in a directory and no inode in two entries.    *)
(* Entries may not straddle blocks (fs.c:274) and files may not be cut in  *)
(* the middle of a hole (fs.c:661).                                        *)
THEOREM Invariance == ASSUME EntriesFit, ~ CutHoles PROVE Spec => []IInv
<1>1. Init => IInv
  BY InitIInv
<1>2. IInv /\ [Next]_vars => IInv'
  BY Step
<1> QED BY <1>1, <1>2, PTL DEF Spec

(* A call that runs out of space changes nothing: not the making of a file *)
(* or directory, not a rename that first unlinked the new path, not a write*)
(* or a truncate ("prevent inconsistent on failure", fs.c:552).            *)
THEOREM FailuresChangeNothing ==
  ASSUME EntriesFit, ~ CutHoles PROVE Spec => FailureChangesNothing
<1>1. IInv /\ [Next]_vars => [reply' = "ENOSPC" => disk' = disk]_vars
  BY Step DEF vars
<1> QED BY <1>1, Invariance, PTL DEF Spec, FailureChangesNothing

-----------------------------------------------------------------------------
(* What the invariant says of the disk, part by part.                      *)

(* Bitmaps, inodes and blocks are of their types: no block number, inode   *)
(* number or reply is out of range.                                        *)
THEOREM TypeCorrect == ASSUME EntriesFit, ~ CutHoles PROVE Spec => []TypeOK
<1>1. IInv => TypeOK
  <2> SUFFICES ASSUME IInv PROVE TypeOK
    OBVIOUS
  <2>1. IsDisk(disk) /\ reply \in {"OK", "ENOSPC"}
    BY ConsistentIs DEF IInv
  <2>2. disk.bitmap \subseteq BlockIds
    BY <2>1, Fields
  <2> QED BY <2>1, <2>2, Fields DEF TypeOK
<1> QED BY <1>1, Invariance, PTL

(* The blocks of an inode as the properties name them.                     *)
LEMMA PlacesAre ==
  ASSUME IInv, NEW i \in InUse
  PROVE  /\ Consistent(disk) /\ i \in Used(disk) /\ SizedAt(disk, i)
         /\ \A k \in Offsets : Ids(i)[k] = At(disk, i, k) /\ k \in Places /\ k # -1
         /\ -1 \in Places /\ disk.inode[i].pointer_block = At(disk, i, -1)
         /\ \A b \in Owned(i) : b # 0 /\ b \in disk.bitmap /\ \E k \in Places : At(disk, i, k) = b
         /\ \A k \in Places : At(disk, i, k) # 0 => At(disk, i, k) \in Owned(i)
<1>1. Consistent(disk) /\ i \in Used(disk)
  BY DEF IInv, InUse, Used
<1>2. SizedAt(disk, i) /\ Sound(disk)
  BY <1>1, ConsistentIs
<1>3. /\ \A k \in Offsets : Ids(i)[k] = At(disk, i, k) /\ k \in Places /\ k # -1
      /\ -1 \in Places /\ disk.inode[i].pointer_block = At(disk, i, -1)
  <2>1. \A k \in Offsets : Ids(i)[k] = At(disk, i, k)
    BY <1>1, FileAt DEF Ids
  <2>2. \A k \in Offsets : k \in Places /\ k # -1
    BY BlockSizeAssumption DEF Places, Offsets
  <2> QED BY <2>1, <2>2 DEF Places, At
<1>4. \A k \in Places : k \in Offsets \/ k = -1
  BY DEF Places
<1>5. At(disk, i, -1) # 0 /\ \A k \in Places : At(disk, i, k) # 0 => At(disk, i, k) \in disk.bitmap
  BY <1>1, <1>2, BlockAt
<1>6. \A b \in Owned(i) : b # 0 /\ \E k \in Places : At(disk, i, k) = b
  BY <1>3, <1>5 DEF Owned
<1>7. \A k \in Places : At(disk, i, k) # 0 => At(disk, i, k) \in Owned(i)
  BY <1>3, <1>4 DEF Owned
<1> QED BY <1>1, <1>2, <1>3, <1>5, <1>6, <1>7

(* No block serves two purposes, and all that serve one are marked.        *)
THEOREM BlocksAlwaysExclusive ==
  ASSUME EntriesFit, ~ CutHoles PROVE Spec => []BlocksAreExclusive
<1>1. ASSUME IInv PROVE BlocksAreExclusive
  <2> SUFFICES ASSUME NEW i \in InUse
               PROVE  /\ Owned(i) \subseteq disk.bitmap
                      /\ disk.inode[i].pointer_block \notin {Ids(i)[k] : k \in Offsets}
                      /\ \A k, l \in Offsets : k # l /\ Ids(i)[k] # 0 => Ids(i)[k] # Ids(i)[l]
                      /\ \A j \in InUse \ {i} : Owned(i) \cap Owned(j) = {}
    BY DEF BlocksAreExclusive
  <2>1. /\ Consistent(disk) /\ i \in Used(disk)
        /\ \A k \in Offsets : Ids(i)[k] = At(disk, i, k) /\ k \in Places /\ k # -1
        /\ -1 \in Places /\ disk.inode[i].pointer_block = At(disk, i, -1)
        /\ \A b \in Owned(i) : b # 0 /\ b \in disk.bitmap /\ \E k \in Places : At(disk, i, k) = b
    BY <1>1, PlacesAre
  <2>2. /\ At(disk, i, -1) # 0
        /\ \A j \in Used(disk), k, l \in Places :
             At(disk, i, k) = At(disk, j, l) /\ At(disk, i, k) # 0 => i = j /\ k = l
    BY <2>1, ConsistentIs, BlockAt
  <2>3. ASSUME NEW j \in InUse \ {i}, NEW b \in Owned(i), b \in Owned(j) PROVE FALSE
    <3>1. j \in Used(disk) /\ \E l \in Places : At(disk, j, l) = b
      BY <1>1, <2>3, PlacesAre
    <3> QED BY <2>1, <2>2, <2>3, <3>1
  <2> QED BY <2>1, <2>2, <2>3
<1>2. IInv => BlocksAreExclusive
  BY <1>1
<1> QED BY <1>2, Invariance, PTL

(* A block that may be allocated is empty.                                 *)
THEOREM FreshBlocksAlwaysEmpty ==
  ASSUME EntriesFit, ~ CutHoles PROVE Spec => []FreshBlocksAreEmpty
<1>1. IInv => FreshBlocksAreEmpty
  BY DEF IInv, Consistent, Emptied, FreshBlocksAreEmpty
<1> QED BY <1>1, Invariance, PTL

(* No pointer is left behind the end of a file or directory.               *)
THEOREM PointersNeverStray ==
  ASSUME EntriesFit, ~ CutHoles PROVE Spec => []NoStrayPointers
<1>1. ASSUME IInv PROVE NoStrayPointers
  <2> SUFFICES ASSUME NEW i \in InUse, NEW k \in Offsets, Ids(i)[k] # 0
               PROVE  k < block_count_from_size(disk.inode[i].size)
    BY DEF NoStrayPointers
  <2>1. SizedAt(disk, i) /\ Consistent(disk) /\ i \in Used(disk) /\ At(disk, i, k) # 0
    BY <1>1, PlacesAre
  <2>2. ~ k >= block_count_from_size(disk.inode[i].size)
    BY <2>1 DEF SizedAt
  <2>3. k \in Nat /\ block_count_from_size(disk.inode[i].size) \in Nat
    BY <2>1, FileAt
  <2> QED BY <2>2, <2>3
<1>2. IInv => NoStrayPointers
  BY <1>1
<1> QED BY <1>2, Invariance, PTL

(* Every entry lies in blocks of its directory (fs.c:271), as long as no   *)
(* entry straddles two blocks.                                             *)
THEOREM EntriesAlwaysHaveBlocks ==
  ASSUME EntriesFit, ~ CutHoles PROVE Spec => []EntriesHaveBlocks
<1>1. ASSUME IInv PROVE EntriesHaveBlocks
  <2> SUFFICES ASSUME NEW i \in InUse, disk.inode[i].is_directory,
                      NEW k \in 0 .. (block_count_from_size(disk.inode[i].size) - 1)
               PROVE  Ids(i)[k] # 0
    BY DEF EntriesHaveBlocks
  <2> DEFINE c == block_count_from_size(disk.inode[i].size)
  <2>1. SizedAt(disk, i) /\ Consistent(disk) /\ i \in Used(disk) /\ i \in Directories(disk)
        /\ \A l \in Offsets : Ids(i)[l] = At(disk, i, l)
    BY <1>1, PlacesAre DEF Directories
  <2>2. c \in Nat /\ c <= BlockSize /\ \A l \in Nat : l < BlockSize => l \in Offsets
    BY <2>1, FileAt
  <2>3. \A l \in Offsets : l < c => At(disk, i, l) # 0
    BY <2>1 DEF SizedAt
  <2> HIDE DEF c
  <2>4. k \in 0 .. (c - 1)
    BY DEF c
  <2>5. k \in Nat /\ k < BlockSize /\ k < c
    BY <2>2, <2>4, BlockSizeAssumption
  <2> QED BY <2>1, <2>2, <2>3, <2>5
<1>2. IInv => EntriesHaveBlocks
  BY <1>1
<1> QED BY <1>2, Invariance, PTL

(* A block that is counted as available is not in use (fs.c:138).          *)
THEOREM AvailableBlocksAlwaysUnused ==
  ASSUME EntriesFit, ~ CutHoles PROVE Spec => []AvailableBlocksAreUnused
<1>1. ASSUME IInv PROVE AvailableBlocksAreUnused
  <2> SUFFICES ASSUME NEW i \in InUse PROVE Owned(i) \cap Available(disk) = {}
    BY DEF AvailableBlocksAreUnused
  <2>1. \A b \in Owned(i) : b \in disk.bitmap
    BY <1>1, PlacesAre
  <2> QED BY <2>1 DEF Available
<1>2. IInv => AvailableBlocksAreUnused
  BY <1>1
<1> QED BY <1>2, Invariance, PTL

(* Entries form a tree: no two of them lead to one inode, no two of one    *)
(* directory have one name, and each leads to an inode that is in use.     *)
THEOREM EntriesAlwaysFormATree ==
  ASSUME EntriesFit, ~ CutHoles PROVE Spec => []EntriesFormATree
<1>1. ASSUME IInv PROVE EntriesFormATree
  <2> DEFINE entries == UNION {EntriesOf(i) : i \in {j \in Found : disk.inode[j].is_directory}}
  <2>1. Consistent(disk) /\ Listed(disk) /\ IsDisk(disk)
    BY <1>1, ConsistentIs DEF IInv
  <2>2. \A i \in Found : i \in Used(disk)
    BY <2>1, PathsAre, ResolveReaches DEF Found, Reached
  <2>3. \A x \in entries : \E i \in Directories(disk) : x \in EntriesOf(i)
    BY <2>2 DEF Directories
  <2> HIDE DEF entries
  <2>4. \A x \in entries : \E i \in Directories(disk) : \E e \in DOMAIN Entries(disk, i) :
          x = [dir |-> i, place |-> e, name |-> Entries(disk, i)[e].name,
               inode_id |-> Entries(disk, i)[e].inode_id]
    BY <2>3 DEF EntriesOf, Entries
  <2>5. ASSUME NEW x \in entries, NEW y \in entries
        PROVE  /\ x.inode_id \in disk.inodes
               /\ x # y => /\ x.inode_id # y.inode_id
                           /\ x.dir = y.dir => x.name # y.name
    <3>1. PICK i \in Directories(disk) : \E e \in DOMAIN Entries(disk, i) :
            x = [dir |-> i, place |-> e, name |-> Entries(disk, i)[e].name,
                 inode_id |-> Entries(disk, i)[e].inode_id]
      BY <2>4
    <3>2. PICK j \in Directories(disk) : \E f \in DOMAIN Entries(disk, j) :
            y = [dir |-> j, place |-> f, name |-> Entries(disk, j)[f].name,
                 inode_id |-> Entries(disk, j)[f].inode_id]
      BY <2>4
    <3>3. PICK e \in DOMAIN Entries(disk, i) :
            x = [dir |-> i, place |-> e, name |-> Entries(disk, i)[e].name,
                 inode_id |-> Entries(disk, i)[e].inode_id]
      BY <3>1
    <3>4. PICK f \in DOMAIN Entries(disk, j) :
            y = [dir |-> j, place |-> f, name |-> Entries(disk, j)[f].name,
                 inode_id |-> Entries(disk, j)[f].inode_id]
      BY <3>2
    <3>5. x # y => ~ (i = j /\ e = f)
      BY <3>3, <3>4
    <3>6. Entries(disk, i)[e].inode_id \in disk.inodes
      BY <2>1 DEF Listed
    <3>7. Entries(disk, i)[e].inode_id = Entries(disk, j)[f].inode_id => i = j /\ e = f
      BY <2>1 DEF Listed
    <3>8. i = j /\ Entries(disk, i)[e].name = Entries(disk, j)[f].name => e = f
      BY <2>1 DEF Listed
    <3> QED BY <3>3, <3>4, <3>5, <3>6, <3>7, <3>8
  <2> QED BY <2>5 DEF EntriesFormATree, entries
<1>2. IInv => EntriesFormATree
  BY <1>1
<1> QED BY <1>2, Invariance, PTL

(* Nothing leaks: the inodes in use are those that paths lead to, and the  *)
(* blocks marked are theirs, after any makes, removals and renames (of     *)
(* directories with all below them too).  Directories with entries are not *)
(* removed: fs_rmdir would leave what is in them without a path.           *)
THEOREM NothingEverLeaks ==
  ASSUME EntriesFit, ~ CutHoles, ~ RemoveNonEmpty PROVE Spec => []NothingLeaks
<1> DEFINE L == IInv /\ Led(disk)
<1>1. ASSUME Init PROVE L
  <2>1. Used(disk) = {ROOT_INODE}
    BY <1>1, Formatted DEF Init
  <2>2. << >> \in Seq(Names) /\ Len(<< >>) <= MaxDepth
    BY EmptySeq, DepthAssumption
  <2>3. << >> \in Paths /\ resolve_path(disk, << >>) = ROOT_INODE
    BY <2>2, PathsAre, ResolveRoot
  <2> QED BY <1>1, <2>1, <2>3, InitIInv DEF Led
<1>2. L /\ [Next]_vars => L'
  BY Step
<1>3. ASSUME L PROVE NothingLeaks
  <2>1. Consistent(disk) /\ IsDisk(disk)
    BY <1>3, ConsistentIs DEF IInv
  <2>2. ROOT_INODE \notin disk.inodes /\ NoInode \notin Used(disk)
    BY <2>1, InodesAre
  <2>3. Found = Used(disk)
    <3>1. \A i \in Found : i \in Used(disk)
      BY <2>1, PathsAre, ResolveReaches DEF Found, Reached
    <3>2. \A i \in Used(disk) : i \in Found
      BY <1>3, <2>2 DEF Found, Led
    <3> QED BY <3>1, <3>2
  <2>4. disk.inodes = Found \ {ROOT_INODE}
    BY <2>2, <2>3 DEF Used
  <2>5. \A i \in Found : i \in InUse
    BY <2>3 DEF Used, InUse
  <2>6. ASSUME NEW b \in disk.bitmap PROVE \E i \in Found : b \in Owned(i)
    <3>1. b # 0
      BY <2>1, Fields, Blocks
    <3>2. PICK i \in Used(disk), k \in Places : At(disk, i, k) = b
      BY <2>1, <1>3 DEF IInv, Consistent, Laid
    <3> QED BY <1>3, <2>3, <2>5, <3>1, <3>2, PlacesAre
  <2>7. \A i \in Found : \A b \in Owned(i) : b \in disk.bitmap
    BY <1>3, <2>5, PlacesAre
  <2>8. disk.bitmap = UNION {Owned(i) : i \in Found}
    BY <2>6, <2>7
  <2> QED BY <2>4, <2>8 DEF NothingLeaks
<1>4. L => NothingLeaks
  BY <1>3
<1> HIDE DEF L
<1>5. Init => L
  BY <1>1
<1> QED BY <1>2, <1>4, <1>5, PTL DEF Spec

=============================================================================

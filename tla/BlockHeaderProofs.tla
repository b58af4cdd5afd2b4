------------------------- MODULE BlockHeaderProofs -------------------------
(***************************************************************************)
(* The headers of blocks, for any area in the heap, any lengths, and       *)
(* anything that programs write in their payloads.                         *)
(***************************************************************************)
EXTENDS BlockHeader, TLAPS

Bytes == 0 .. 255
Bits  == {0, 1}

-----------------------------------------------------------------------------
(* Bytes and the numbers in three of them.                                 *)

LEMMA BitIs ==
  ASSUME NEW x \in Bytes
  PROVE  /\ x % 2 \in Bits /\ even(x) \in Bytes /\ even(x) % 2 = 0 /\ x = even(x) + (x % 2)
         /\ \A b \in Bits : /\ even(x) + b \in Bytes /\ (even(x) + b) % 2 = b
                            /\ (even(x) + b) \div 2 = x \div 2
BY DEF even, Bytes, Bits

LEMMA NumbersAre == \A v : v \in Numbers <=> v \in Nat /\ v < 33554432
<1>1. 2^25 = 33554432
  BY SMT
<1>2. \A v : v \in Numbers <=> v \in Int /\ 0 <= v /\ v <= 2^25 - 1
  BY SMT, <1>1 DEF Numbers
<1> QED BY SMT, <1>1, <1>2

(* What a number is does not depend on the lowest bit of its first byte.   *)
LEMMA NumberIs ==
  ASSUME NEW x0 \in Bytes, NEW x1 \in Bytes, NEW x2 \in Bytes
  PROVE  /\ number(x0, x1, x2) = 4 * (x0 \div 2) + 512 * x1 + 131072 * x2
         /\ number(x0, x1, x2) \in Numbers /\ number(x0, x1, x2) % 4 = 0
<1>1. (x0 + 256 * x1 + 65536 * x2) \div 2 = (x0 \div 2) + 128 * x1 + 32768 * x2
  BY SMT DEF Bytes
<1>2. /\ number(x0, x1, x2) = 4 * (x0 \div 2) + 512 * x1 + 131072 * x2
      /\ x0 \div 2 \in Nat /\ x0 \div 2 <= 127
  BY SMT, <1>1 DEF number, Bytes
<1>3. /\ number(x0, x1, x2) \in Nat /\ number(x0, x1, x2) < 33554432
      /\ number(x0, x1, x2) % 4 = 0
  BY SMT, <1>2 DEF Bytes
<1> QED BY SMT, <1>2, <1>3, NumbersAre

LEMMA BytesAre ==
  ASSUME NEW v \in Numbers, v % 4 = 0
  PROVE  /\ Byte(v, 0) \in Bytes /\ Byte(v, 1) \in Bytes /\ Byte(v, 2) \in Bytes
         /\ Byte(v, 0) % 2 = 0
         /\ \A b \in Bits : /\ Byte(v, 0) + b \in Bytes /\ (Byte(v, 0) + b) % 2 = b
                            /\ number(Byte(v, 0) + b, Byte(v, 1), Byte(v, 2)) = v
<1> DEFINE w == (v \div 4) * 2
<1>1. v \in Nat /\ v < 33554432
  BY SMT, NumbersAre
<1>2. w \in Nat /\ w < 16777216 /\ w % 2 = 0 /\ v = 2 * w
  BY SMT, <1>1
<1>3. 256^0 = 1 /\ 256^1 = 256 /\ 256^2 = 65536
  BY SMT
<1>4. Byte(v, 0) = w % 256 /\ Byte(v, 1) = (w \div 256) % 256 /\ Byte(v, 2) = (w \div 65536) % 256
  BY SMT, <1>2, <1>3 DEF Byte
<1> HIDE DEF w
<1>5. /\ Byte(v, 0) \in Bytes /\ Byte(v, 0) % 2 = 0 /\ Byte(v, 0) <= 254
      /\ Byte(v, 1) \in Bytes /\ Byte(v, 2) \in Bytes
  BY SMT, <1>2, <1>4 DEF Bytes
<1>6. w = Byte(v, 0) + 256 * Byte(v, 1) + 65536 * Byte(v, 2)
  <2> DEFINE y == w \div 256
             z == w \div 65536
  <2>1. y \in Nat /\ z \in Nat /\ w = (w % 256) + 256 * y /\ z < 256 /\ 65536 * z <= w /\ w < 65536 * z + 65536
    BY SMT, <1>2
  <2>2. w % 256 \in Nat /\ w % 256 < 256
    BY SMT, <1>2
  <2> HIDE DEF y, z
  <2>3. y \div 256 = z /\ y = 256 * z + (y % 256) /\ z % 256 = z
    BY SMT, <1>2, <2>1, <2>2
  <2> QED BY SMT, <1>2, <1>4, <2>1, <2>2, <2>3 DEF y, z
<1>7. ASSUME NEW b \in Bits
      PROVE  /\ Byte(v, 0) + b \in Bytes /\ (Byte(v, 0) + b) % 2 = b
             /\ number(Byte(v, 0) + b, Byte(v, 1), Byte(v, 2)) = v
  <2>1. /\ Byte(v, 0) + b \in Bytes /\ (Byte(v, 0) + b) % 2 = b
        /\ (Byte(v, 0) + b) \div 2 = Byte(v, 0) \div 2
    BY SMT, <1>5 DEF Bytes, Bits
  <2>2. number(Byte(v, 0) + b, Byte(v, 1), Byte(v, 2))
          = 4 * (Byte(v, 0) \div 2) + 512 * Byte(v, 1) + 131072 * Byte(v, 2)
    BY SMT, <1>5, <2>1, NumberIs
  <2>3. 4 * (Byte(v, 0) \div 2) = 2 * Byte(v, 0)
    BY SMT, <1>5 DEF Bytes
  <2>4. Byte(v, 0) \in Int /\ Byte(v, 1) \in Int /\ Byte(v, 2) \in Int
    BY SMT, <1>5 DEF Bytes
  <2> QED BY SMT, <1>2, <1>6, <2>1, <2>2, <2>3, <2>4
<1> QED BY SMT, <1>5, <1>7

-----------------------------------------------------------------------------
(* What one write does to a memory.                                        *)

(* n is m but for the bytes at the places in S.                            *)
Outside(n, m, D, S) ==
  n \in [D -> Bytes] /\ \A x \in D : x \notin S => n[x] = m[x]

LEMMA BitWritten ==
  ASSUME NEW D \in SUBSET Nat, NEW m \in [D -> Bytes], NEW p \in D, NEW b \in Bits
  PROVE  /\ Outside(write_bit(m, p, b), m, D, {p})
         /\ read_bit(write_bit(m, p, b), p) = b
         /\ write_bit(m, p, b)[p] \div 2 = m[p] \div 2
<1>1. m[p] \in Bytes
  OBVIOUS
<1>2. even(m[p]) + b \in Bytes /\ (even(m[p]) + b) % 2 = b /\ (even(m[p]) + b) \div 2 = m[p] \div 2
  BY <1>1, BitIs
<1>3. write_bit(m, p, b) = [m EXCEPT ![p] = even(m[p]) + b]
  BY DEF write_bit
<1> HIDE DEF write_bit
<1> QED BY <1>2, <1>3 DEF Outside, read_bit

LEMMA NumberWritten ==
  ASSUME NEW D \in SUBSET Nat, NEW m \in [D -> Bytes], NEW p, {p, p + 1, p + 2} \subseteq D,
         NEW v \in Numbers, v % 4 = 0
  PROVE  LET n == write_24_preserve_low_bit(m, p, v)
         IN  /\ Outside(n, m, D, {p, p + 1, p + 2})
             /\ read_24_transformed(n, p) = v /\ read_bit(n, p) = read_bit(m, p)
<1> DEFINE n == write_24_preserve_low_bit(m, p, v)
           b == read_bit(m, p)
<1>1. p \in D /\ p + 1 \in D /\ p + 2 \in D /\ p \in Nat /\ m[p] \in Bytes
  OBVIOUS
<1>2. b \in Bits
  BY <1>1, BitIs DEF read_bit
<1>3. /\ Byte(v, 0) + b \in Bytes /\ Byte(v, 1) \in Bytes /\ Byte(v, 2) \in Bytes
      /\ (Byte(v, 0) + b) % 2 = b /\ number(Byte(v, 0) + b, Byte(v, 1), Byte(v, 2)) = v
  BY <1>2, BytesAre
<1>4. n = [m EXCEPT ![p] = Byte(v, 0) + b, ![p + 1] = Byte(v, 1), ![p + 2] = Byte(v, 2)]
  BY DEF write_24_preserve_low_bit, put
<1> HIDE DEF n
<1>5. n[p] = Byte(v, 0) + b /\ n[p + 1] = Byte(v, 1) /\ n[p + 2] = Byte(v, 2)
  BY <1>1, <1>4
<1>6. Outside(n, m, D, {p, p + 1, p + 2})
  BY <1>1, <1>3, <1>4 DEF Outside
<1>7. read_24_transformed(n, p) = v /\ read_bit(n, p) = b
  BY <1>3, <1>5 DEF read_24_transformed, read_bit
<1> QED BY <1>6, <1>7 DEF n

LEMMA NumberKept ==
  ASSUME NEW D \in SUBSET Nat, NEW m \in [D -> Bytes], NEW n \in [D -> Bytes],
         NEW p, {p, p + 1, p + 2} \subseteq D,
         n[p] \div 2 = m[p] \div 2, n[p + 1] = m[p + 1], n[p + 2] = m[p + 2]
  PROVE  read_24_transformed(n, p) = read_24_transformed(m, p)
<1>1. /\ m[p] \in Bytes /\ m[p + 1] \in Bytes /\ m[p + 2] \in Bytes
      /\ n[p] \in Bytes /\ n[p + 1] \in Bytes /\ n[p + 2] \in Bytes
  OBVIOUS
<1> QED BY SMT, <1>1, NumberIs DEF read_24_transformed

LEMMA ReadsAreKept ==
  ASSUME NEW D \in SUBSET Nat, NEW m \in [D -> Bytes], NEW n \in [D -> Bytes]
  PROVE  /\ \A p : {p, p + 1, p + 2} \subseteq D /\ (\A x \in {p, p + 1, p + 2} : n[x] = m[x]) =>
              read_24_transformed(n, p) = read_24_transformed(m, p)
         /\ \A p \in D : n[p] = m[p] => read_bit(n, p) = read_bit(m, p)
         /\ \A p \in D : read_bit(n, p) \in Bits
<1>1. ASSUME NEW p, {p, p + 1, p + 2} \subseteq D, \A x \in {p, p + 1, p + 2} : n[x] = m[x]
      PROVE  read_24_transformed(n, p) = read_24_transformed(m, p)
  BY <1>1 DEF read_24_transformed
<1>2. \A p \in D : n[p] = m[p] => read_bit(n, p) = read_bit(m, p)
  BY DEF read_bit
<1>3. \A p \in D : read_bit(n, p) \in Bits
  BY BitIs DEF read_bit
<1> QED BY <1>1, <1>2, <1>3

-----------------------------------------------------------------------------
(* The header of one block.                                                *)

(* A block of length L may begin at a.                                     *)
Fitting(a, L) ==
  /\ a \in Numbers /\ a % 4 = 0 /\ L \in Numbers /\ L % 4 = 0 /\ L >= 16
  /\ EightAligned(a) \/ L >= 20

TypeAt(a) == IF EightAligned(a) THEN a + 7 ELSE a + 11
TypeBit(m, a) == read_bit(m, TypeAt(a)) = IF EightAligned(a) THEN 0 ELSE 1

HeadAt(a)    == (a .. a + 5) \cup {TypeAt(a)}
FootAt(a, L) == (a + L - 3) .. (a + L - 1)
InitAt(a, L, f) == IF f = 1 THEN HeadAt(a) \cup FootAt(a, L) ELSE HeadAt(a)

(* What is read of the block at a: its length, the bits, and the footer.   *)
Headed(m, a, L, f) ==
  /\ get_block_length(m, a) = L /\ get_block_is_free(m, a) = f
  /\ f = 1 => read_24_transformed(m, a + L - 3) = L

LEMMA FittingIs ==
  ASSUME NEW a, NEW L, Fitting(a, L)
  PROVE  /\ a \in Nat /\ L \in Nat /\ L >= 16 /\ a + L \in Nat
         /\ TypeAt(a) \in {a + 7, a + 11} /\ TypeAt(a) + 1 \in {a + 8, a + 12}
BY NumbersAre, SMT DEF Fitting, TypeAt

LEMMA InitWritten ==
  ASSUME NEW D \in SUBSET Nat, NEW m \in [D -> Bytes], NEW a, NEW L, Fitting(a, L),
         a .. a + L + 3 \subseteq D, NEW f \in Bits, NEW p \in Bits
  PROVE  LET n == init_block(m, a, L, f, p)
         IN  /\ Outside(n, m, D, InitAt(a, L, f))
             /\ Headed(n, a, L, f) /\ TypeBit(n, a) /\ read_previous_is_free(n, a) = p
<1> DEFINE m1 == write_bit(m, TypeAt(a), IF EightAligned(a) THEN 0 ELSE 1)
           m2 == write_bit(m1, a, f)
           m3 == write_24_preserve_low_bit(m2, a, L)
           m4 == IF f = 1 THEN set_block_length_footer(m3, a, L) ELSE m3
           m5 == write_previous_is_free(m4, a, p)
           m6 == write_parent(m5, a, a)
<1>1. m6 = init_block(m, a, L, f, p)
  BY DEF init_block, TypeAt
<1>2. /\ a \in Nat /\ L \in Nat /\ L >= 16 /\ TypeAt(a) \in {a + 7, a + 11}
      /\ a \in Numbers /\ a % 4 = 0 /\ L \in Numbers /\ L % 4 = 0
  BY FittingIs DEF Fitting
<1>3. \A x \in a .. a + L + 3 : x \in D
  OBVIOUS
<1> DEFINE q == TypeAt(a)
           g == a + L - 3
<1>4. /\ q \in D /\ {a, a + 1, a + 2} \subseteq D /\ {a + 3, a + 3 + 1, a + 3 + 2} \subseteq D
      /\ {g, g + 1, g + 2} \subseteq D /\ g \in Nat /\ g >= a + 13
      /\ (IF EightAligned(a) THEN 0 ELSE 1) \in Bits /\ a \in D /\ a + 3 \in D
  BY <1>2, <1>3 DEF Bits
<1>5. q \in Nat /\ q >= a + 7 /\ q <= a + 11
  BY <1>2
<1>6. /\ Outside(m1, m, D, {q}) /\ read_bit(m1, q) = IF EightAligned(a) THEN 0 ELSE 1
      /\ m1 \in [D -> Bytes]
  <2>1. Outside(m1, m, D, {q}) /\ read_bit(m1, q) = IF EightAligned(a) THEN 0 ELSE 1
    BY <1>4, BitWritten
  <2> QED BY <2>1 DEF Outside
<1> HIDE DEF m1, q, g
<1>7. /\ Outside(m2, m1, D, {a}) /\ read_bit(m2, a) = f
      /\ m2 \in [D -> Bytes]
  <2>1. Outside(m2, m1, D, {a}) /\ read_bit(m2, a) = f
    BY <1>4, <1>6, BitWritten
  <2> QED BY <2>1 DEF Outside
<1> HIDE DEF m2
<1>8. /\ Outside(m3, m2, D, {a, a + 1, a + 2}) /\ read_24_transformed(m3, a) = L
      /\ read_bit(m3, a) = read_bit(m2, a) /\ m3 \in [D -> Bytes]
  <2>1. /\ Outside(m3, m2, D, {a, a + 1, a + 2}) /\ read_24_transformed(m3, a) = L
        /\ read_bit(m3, a) = read_bit(m2, a)
    BY <1>2, <1>4, <1>7, NumberWritten
  <2> QED BY <2>1 DEF Outside
<1> HIDE DEF m3
<1>9. /\ Outside(m4, m3, D, IF f = 1 THEN {g, g + 1, g + 2} ELSE {})
      /\ f = 1 => read_24_transformed(m4, g) = L
      /\ m4 \in [D -> Bytes]
  <2>1. CASE f = 1
    <3> DEFINE s == write_24_preserve_low_bit(m3, g, L)
    <3>1. m4 = s
      BY <2>1 DEF set_block_length_footer, g
    <3>2. Outside(s, m3, D, {g, g + 1, g + 2}) /\ read_24_transformed(s, g) = L
      BY <1>2, <1>4, <1>8, NumberWritten
    <3> QED BY <2>1, <3>1, <3>2 DEF Outside
  <2>2. CASE f # 1
    BY <1>8, <2>2 DEF Outside
  <2> QED BY <2>1, <2>2
<1> HIDE DEF m4
<1>10. Outside(m5, m4, D, {a + 3}) /\ read_bit(m5, a + 3) = p /\ m5 \in [D -> Bytes]
  <2>1. Outside(m5, m4, D, {a + 3}) /\ read_bit(m5, a + 3) = p
    BY <1>4, <1>9, BitWritten DEF write_previous_is_free
  <2> QED BY <2>1 DEF Outside
<1> HIDE DEF m5
<1>11. /\ Outside(m6, m5, D, {a + 3, a + 3 + 1, a + 3 + 2})
       /\ read_bit(m6, a + 3) = read_bit(m5, a + 3)
  BY <1>2, <1>4, <1>10, NumberWritten DEF write_parent
<1> HIDE DEF m6
<1>12. Outside(m6, m, D, InitAt(a, L, f))
  <2> DEFINE S == InitAt(a, L, f)
  <2>1. /\ {q, a, a + 1, a + 2, a + 3, a + 3 + 1, a + 3 + 2} \subseteq S
        /\ f = 1 => {g, g + 1, g + 2} \subseteq S
    BY <1>2 DEF InitAt, HeadAt, FootAt, q, g
  <2> HIDE DEF S
  <2>2. \A x \in D : x \notin S => m6[x] = m[x]
    BY <1>6, <1>7, <1>8, <1>9, <1>10, <1>11, <2>1 DEF Outside
  <2> QED BY <1>11, <2>2 DEF Outside, S
<1>13. \A x \in D : /\ x >= a /\ x <= a + 2 => m6[x] = m3[x]
                    /\ x = q => m6[x] = m1[x]
                    /\ x >= g => m6[x] = m4[x]
  <2> USE <1>2, <1>4, <1>5 DEF Outside
  <2>1. \A x \in D : x \in Nat
    OBVIOUS
  <2>2. \A x \in D : /\ x >= a /\ x <= a + 2 => m6[x] = m3[x]
    BY <1>9, <1>10, <1>11, <2>1
  <2>3. \A x \in D : x >= g => m6[x] = m4[x]
    BY <1>10, <1>11, <2>1
  <2>4. m6[q] = m1[q]
    <3>1. q # a /\ q # a + 1 /\ q # a + 2 /\ q # a + 3 /\ q # a + 3 + 1 /\ q # a + 3 + 2
      BY <1>5
    <3>2. q # g /\ q # g + 1 /\ q # g + 2
      BY <1>5
    <3> QED BY <1>7, <1>8, <1>9, <1>10, <1>11, <3>1, <3>2
  <2> QED BY <2>2, <2>3, <2>4
<1>14. /\ \A x \in {a, a + 1, a + 2} : m6[x] = m3[x]
       /\ \A x \in {g, g + 1, g + 2} : m6[x] = m4[x]
       /\ m6[q] = m1[q]
  BY <1>2, <1>4, <1>13
<1>15. /\ m6 \in [D -> Bytes] /\ m4 \in [D -> Bytes] /\ m3 \in [D -> Bytes] /\ m1 \in [D -> Bytes]
  BY <1>6, <1>8, <1>9, <1>12 DEF Outside
<1>16. /\ read_24_transformed(m6, a) = L /\ read_bit(m6, a) = f
       /\ f = 1 => read_24_transformed(m6, g) = L
       /\ read_bit(m6, q) = read_bit(m1, q)
  <2>1. read_24_transformed(m6, a) = L
    BY <1>4, <1>8, <1>14, <1>15, ReadsAreKept
  <2>2. read_bit(m6, a) = f
    BY <1>4, <1>7, <1>8, <1>14, <1>15, ReadsAreKept
  <2>3. f = 1 => read_24_transformed(m6, g) = L
    BY <1>4, <1>9, <1>14, <1>15, ReadsAreKept
  <2>4. read_bit(m6, q) = read_bit(m1, q)
    BY <1>4, <1>14, <1>15, ReadsAreKept
  <2> QED BY <2>1, <2>2, <2>3, <2>4
<1>17. read_bit(m6, a + 3) = p
  BY <1>10, <1>11
<1>18. Headed(m6, a, L, f) /\ TypeBit(m6, a) /\ read_previous_is_free(m6, a) = p
  BY <1>6, <1>16, <1>17
  DEF Headed, TypeBit, get_block_length, get_block_is_free, read_previous_is_free, q, g
<1> QED BY <1>1, <1>12, <1>18

-----------------------------------------------------------------------------
(* The node of a free block.                                               *)

LEMMA HalvesAre ==
  ASSUME NEW x \in Bytes
  PROVE  /\ even(even(x)) = even(x) /\ even(even(x) + 1) = even(x) /\ even(x) + (x % 2) = x
         /\ even(x) \in Bytes /\ even(x) + 1 \in Bytes /\ even(x) % 2 = 0 /\ (even(x) + 1) % 2 = 1
         /\ x % 2 \in Bits
BY DEF even, Bytes, Bits

LEMMA NodeIs ==
  ASSUME NEW n \in Nodes
  PROVE  /\ n = [parent |-> n.parent, left |-> n.left, right |-> n.right, color |-> n.color]
         /\ n.parent \in Numbers /\ n.parent % 4 = 0 /\ n.left \in Numbers /\ n.left % 4 = 0
         /\ n.right \in Numbers /\ n.right % 4 = 0 /\ n.color \in Bits
BY NodesAssumption DEF Bits

(* A memory q in which parent and color may have been stored after r.      *)
Later(q, r, D, a) ==
  Outside(q, r, D, a + 3 .. a + 6) /\ q[a + 6] \div 2 = r[a + 6] \div 2

LEMMA TailWritten ==
  ASSUME NEW D \in SUBSET Nat, NEW m \in [D -> Bytes], NEW a \in Nat, a .. a + 6 \subseteq D,
         NEW p \in Numbers, p % 4 = 0, NEW c \in Bits
  PROVE  LET r == write_color(write_parent(m, a, p), a, c)
         IN  /\ Later(r, m, D, a) /\ read_previous_is_free(r, a) = read_previous_is_free(m, a)
             /\ read_parent(r, a) = p /\ read_color(r, a) = c
<1> DEFINE h == write_parent(m, a, p)
           r == write_color(h, a, c)
<1>1. /\ {a + 3, a + 3 + 1, a + 3 + 2} \subseteq D /\ a + 6 \in D /\ a + 3 \in D
  OBVIOUS
<1>2. /\ Outside(h, m, D, {a + 3, a + 3 + 1, a + 3 + 2}) /\ read_24_transformed(h, a + 3) = p
      /\ read_bit(h, a + 3) = read_bit(m, a + 3)
  BY <1>1, NumberWritten DEF write_parent
<1> HIDE DEF h
<1>3. h \in [D -> Bytes] /\ \A x \in D : x \notin {a + 3, a + 3 + 1, a + 3 + 2} => h[x] = m[x]
  BY <1>2 DEF Outside
<1>4. Outside(r, h, D, {a + 6}) /\ read_bit(r, a + 6) = c /\ r[a + 6] \div 2 = h[a + 6] \div 2
  BY <1>1, <1>3, BitWritten DEF write_color
<1> HIDE DEF r
<1>5. r \in [D -> Bytes] /\ \A x \in D : x \notin {a + 6} => r[x] = h[x]
  BY <1>4 DEF Outside
<1>6. Later(r, m, D, a)
  <2>1. h[a + 6] = m[a + 6]
    BY <1>1, <1>3
  <2>2. \A x \in D : x \notin a + 3 .. a + 6 => r[x] = m[x]
    BY <1>3, <1>5
  <2> QED BY <1>4, <1>5, <2>1, <2>2 DEF Later, Outside
<1>7. read_24_transformed(r, a + 3) = p /\ read_bit(r, a + 3) = read_bit(m, a + 3)
  <2>1. \A x \in {a + 3, a + 3 + 1, a + 3 + 2} : r[x] = h[x]
    BY <1>1, <1>5
  <2> QED BY <1>1, <1>2, <1>3, <1>5, <2>1, ReadsAreKept
<1> QED BY <1>4, <1>6, <1>7 DEF read_previous_is_free, read_parent, read_color, h, r

(* What LEFT and RIGHT leave behind, whatever follows.                     *)
Links(r, m, D, a, L, l, v) ==
  /\ Outside(r, m, D, (a + 6 .. a + 11) \cup (a + L - 7 .. a + L - 4))
  /\ \A q : Later(q, r, D, a) => read_left(q, a) = l /\ read_right(q, a) = v /\ TypeBit(q, a)

LEMMA EightLinked ==
  ASSUME NEW D \in SUBSET Nat, NEW m \in [D -> Bytes], NEW a, NEW L, Fitting(a, L),
         a .. a + L + 3 \subseteq D, Headed(m, a, L, 1), EightAligned(a),
         NEW l \in Numbers, l % 4 = 0, NEW v \in Numbers, v % 4 = 0
  PROVE  Links(write_right(write_left(m, a, l), a, v), m, D, a, L, l, v)
<1> DEFINE s  == a + L - 15
           x1 == Byte(l, 1)
           x0 == Byte(l, 0) + read_bit(m, a + 6)
           x2 == Byte(l, 2)
           h  == [m EXCEPT ![a + 6] = x0, ![a + 7] = even(x1), ![s + 8] = x2]
           k  == write_bit(h, s + 9, x1 % 2)
           r  == write_24_preserve_low_bit(k, s + 9, v)
<1>1. a \in Nat /\ L \in Nat /\ L >= 16 /\ s \in Nat /\ s >= a + 1
  BY FittingIs
<1>2. /\ a + 6 \in D /\ a + 7 \in D /\ s + 8 \in D /\ s + 9 \in D
      /\ {a, a + 1, a + 2} \subseteq D /\ a \in D /\ {s + 9, s + 9 + 1, s + 9 + 2} \subseteq D
  BY <1>1
<1>3. read_24_transformed(m, a) = L /\ read_bit(m, a) = 1
  BY DEF Headed, get_block_length, get_block_is_free
<1>4. \A q \in [D -> Bytes] : (\A x \in {a, a + 1, a + 2} : q[x] = m[x]) => second_part_offseted(q, a) = s
  <2> SUFFICES ASSUME NEW q \in [D -> Bytes], \A x \in {a, a + 1, a + 2} : q[x] = m[x]
               PROVE  second_part_offseted(q, a) = s
    OBVIOUS
  <2>1. read_24_transformed(q, a) = L /\ read_bit(q, a) = 1
    BY <1>2, <1>3, ReadsAreKept
  <2> QED BY <1>1, <2>1 DEF second_part_offseted, get_block_length, get_block_is_free
<1>5. /\ Byte(l, 0) \in Bytes /\ x0 \in Bytes /\ x1 \in Bytes /\ x2 \in Bytes /\ number(x0, x1, x2) = l
  <2>1. read_bit(m, a + 6) \in Bits
    BY <1>2, ReadsAreKept
  <2> QED BY <2>1, BytesAre
<1>6. even(x1) \in Bytes /\ x1 % 2 \in Bits /\ even(even(x1)) = even(x1) /\ even(x1) + (x1 % 2) = x1
      /\ even(x1) % 2 = 0
  BY <1>5, HalvesAre
<1>7. write_left(m, a, l) = k
  BY <1>4 DEF write_left
<1> HIDE DEF x0, x1, x2
<1>8. /\ h \in [D -> Bytes] /\ h[a + 6] = x0 /\ h[a + 7] = even(x1) /\ h[s + 8] = x2
      /\ \A x \in D : x \notin {a + 6, a + 7, s + 8} => h[x] = m[x]
  <2>1. a + 6 # a + 7 /\ a + 6 # s + 8 /\ a + 7 # s + 8
    BY <1>1
  <2> HIDE DEF s
  <2> QED BY <1>2, <1>5, <1>6, <2>1
<1> HIDE DEF h
<1>9. Outside(k, h, D, {s + 9}) /\ read_bit(k, s + 9) = x1 % 2
  <2>1. s + 9 \in D
    BY <1>2
  <2>2. h \in [D -> Bytes] /\ x1 % 2 \in Bits
    BY <1>6, <1>8
  <2> HIDE DEF s
  <2> QED BY <2>1, <2>2, BitWritten
<1> HIDE DEF k
<1>10. k \in [D -> Bytes] /\ \A x \in D : x \notin {s + 9} => k[x] = h[x]
  BY <1>9 DEF Outside
<1>11. write_right(k, a, v) = r
  <2>1. \A x \in {a, a + 1, a + 2} : k[x] = m[x]
    BY <1>1, <1>2, <1>8, <1>10
  <2>2. second_part_offseted(k, a) = s
    BY <1>4, <1>10, <2>1
  <2> QED BY <2>2 DEF write_right
<1>12. /\ Outside(r, k, D, {s + 9, s + 9 + 1, s + 9 + 2}) /\ read_24_transformed(r, s + 9) = v
       /\ read_bit(r, s + 9) = read_bit(k, s + 9)
  BY <1>2, <1>10, NumberWritten
<1> HIDE DEF r
<1>13. r \in [D -> Bytes] /\ \A x \in D : x \notin {s + 9, s + 9 + 1, s + 9 + 2} => r[x] = k[x]
  BY <1>12 DEF Outside
<1>14. r[a + 6] = x0 /\ r[a + 7] = even(x1) /\ r[s + 8] = x2
  BY <1>1, <1>2, <1>8, <1>10, <1>13
<1>15. Outside(r, m, D, (a + 6 .. a + 11) \cup (a + L - 7 .. a + L - 4))
  <2>1. \A x \in D : x \notin (a + 6 .. a + 11) \cup (a + L - 7 .. a + L - 4) =>
          x \notin {a + 6, a + 7, s + 8, s + 9, s + 9 + 1, s + 9 + 2}
    BY <1>1
  <2>2. \A x \in D : x \notin (a + 6 .. a + 11) \cup (a + L - 7 .. a + L - 4) => r[x] = m[x]
    BY <1>8, <1>10, <1>13, <2>1
  <2> QED BY <1>13, <2>2 DEF Outside
<1>16. ASSUME NEW q, Later(q, r, D, a)
       PROVE  read_left(q, a) = l /\ read_right(q, a) = v /\ TypeBit(q, a)
  <2>1. q \in [D -> Bytes] /\ (\A x \in D : x \notin a + 3 .. a + 6 => q[x] = r[x])
        /\ q[a + 6] \div 2 = x0 \div 2
    BY <1>14, <1>16 DEF Later, Outside
  <2>2. /\ q[a + 7] = even(x1) /\ q[s + 8] = x2 /\ q[s + 9] = r[s + 9]
        /\ \A x \in {s + 9, s + 9 + 1, s + 9 + 2} : q[x] = r[x]
    BY <1>1, <1>2, <1>14, <2>1
  <2>3. \A x \in {a, a + 1, a + 2} : q[x] = m[x]
    BY <1>1, <1>2, <1>8, <1>10, <1>13, <2>1
  <2>4. second_part_offseted(q, a) = s
    BY <1>4, <2>1, <2>3
  <2>5. read_bit(q, s + 9) = x1 % 2 /\ read_24_transformed(q, s + 9) = v
    BY <1>2, <1>9, <1>12, <1>13, <2>1, <2>2, ReadsAreKept
  <2>6. read_right(q, a) = v
    BY <2>4, <2>5 DEF read_right
  <2>7. read_left(q, a) = l
    <3>1. read_left(q, a) = number(q[a + 6], x1, x2)
      BY <1>6, <2>2, <2>4, <2>5 DEF read_left
    <3>2. q[a + 6] \in Bytes
      BY <1>2, <2>1
    <3> QED BY SMT, <1>5, <2>1, <3>1, <3>2, NumberIs
  <2>8. TypeBit(q, a)
    BY <1>6, <2>2 DEF TypeBit, TypeAt, read_bit
  <2> QED BY <2>6, <2>7, <2>8
<1> QED BY <1>7, <1>11, <1>15, <1>16 DEF Links

LEMMA FourLinked ==
  ASSUME NEW D \in SUBSET Nat, NEW m \in [D -> Bytes], NEW a, NEW L, Fitting(a, L),
         a .. a + L + 3 \subseteq D, ~ EightAligned(a),
         NEW l \in Numbers, l % 4 = 0, NEW v \in Numbers, v % 4 = 0
  PROVE  Links(write_right(write_left(m, a, l), a, v), m, D, a, L, l, v)
<1> DEFINE k  == write_24_preserve_low_bit(m, a + 6, l)
           x0 == Byte(v, 0)
           x1 == Byte(v, 1)
           x2 == Byte(v, 2)
           r  == [k EXCEPT ![a + 9] = x0 + (x2 % 2), ![a + 9 + 1] = x1, ![a + 9 + 2] = even(x2) + 1]
<1>1. a \in Nat /\ L \in Nat /\ L >= 16
  BY FittingIs
<1>2. /\ {a + 6, a + 6 + 1, a + 6 + 2} \subseteq D /\ a + 6 \in D
      /\ a + 9 \in D /\ a + 10 \in D /\ a + 11 \in D
  BY <1>1
<1>3. Outside(k, m, D, {a + 6, a + 6 + 1, a + 6 + 2}) /\ read_24_transformed(k, a + 6) = l
  BY <1>2, NumberWritten
<1>4. write_left(m, a, l) = k /\ write_right(k, a, v) = r
  BY DEF write_left, write_right, put
<1> HIDE DEF k
<1>5. k \in [D -> Bytes] /\ \A x \in D : x \notin {a + 6, a + 6 + 1, a + 6 + 2} => k[x] = m[x]
  BY <1>3 DEF Outside
<1>6. /\ x0 \in Bytes /\ x1 \in Bytes /\ x2 \in Bytes /\ x0 % 2 = 0
      /\ \A b \in Bits : /\ x0 + b \in Bytes /\ (x0 + b) % 2 = b /\ number(x0 + b, x1, x2) = v
  BY BytesAre
<1>7. /\ even(x2) + 1 \in Bytes /\ x2 % 2 \in Bits /\ even(even(x2) + 1) = even(x2)
      /\ even(x2) + (x2 % 2) = x2 /\ (even(x2) + 1) % 2 = 1
  BY <1>6, HalvesAre
<1> HIDE DEF x0, x1, x2
<1>8. /\ r \in [D -> Bytes] /\ r[a + 9] = x0 + (x2 % 2) /\ r[a + 10] = x1 /\ r[a + 11] = even(x2) + 1
      /\ \A x \in D : x \notin {a + 9, a + 10, a + 11} => r[x] = k[x]
  <2>1. a + 9 + 1 = a + 10 /\ a + 9 + 2 = a + 11 /\ a + 9 # a + 10 /\ a + 9 # a + 11 /\ a + 10 # a + 11
    BY <1>1
  <2> QED BY <1>2, <1>5, <1>6, <1>7, <2>1
<1> HIDE DEF r
<1>9. Outside(r, m, D, (a + 6 .. a + 11) \cup (a + L - 7 .. a + L - 4))
  <2>1. \A x \in D : x \notin (a + 6 .. a + 11) =>
          x \notin {a + 6, a + 6 + 1, a + 6 + 2} /\ x \notin {a + 9, a + 10, a + 11}
    BY <1>1
  <2> QED BY <1>5, <1>8, <2>1 DEF Outside
<1>10. ASSUME NEW q, Later(q, r, D, a)
       PROVE  read_left(q, a) = l /\ read_right(q, a) = v /\ TypeBit(q, a)
  <2>1. q \in [D -> Bytes] /\ (\A x \in D : x \notin a + 3 .. a + 6 => q[x] = r[x])
        /\ q[a + 6] \div 2 = r[a + 6] \div 2
    BY <1>10 DEF Later, Outside
  <2>2. /\ q[a + 9] = x0 + (x2 % 2) /\ q[a + 10] = x1 /\ q[a + 11] = even(x2) + 1
        /\ q[a + 6 + 1] = k[a + 6 + 1] /\ q[a + 6 + 2] = k[a + 6 + 2]
        /\ q[a + 6] \div 2 = k[a + 6] \div 2
    BY <1>1, <1>2, <1>8, <2>1
  <2>3. read_left(q, a) = l
    <3>1. read_24_transformed(q, a + 6) = read_24_transformed(k, a + 6)
      BY <1>2, <1>5, <2>1, <2>2, NumberKept
    <3> QED BY <1>3, <3>1 DEF read_left
  <2>4. read_right(q, a) = v
    <3>1. read_bit(q, a + 9) = x2 % 2
      BY <1>6, <1>7, <2>2 DEF read_bit
    <3>2. read_right(q, a) = number(x0 + (x2 % 2), x1, x2)
      BY <1>7, <2>2, <3>1 DEF read_right
    <3> QED BY <1>6, <1>7, <3>2
  <2>5. TypeBit(q, a)
    BY <1>7, <2>2 DEF TypeBit, TypeAt, read_bit
  <2> QED BY <2>3, <2>4, <2>5
<1> QED BY <1>4, <1>9, <1>10 DEF Links

(* The node that was inserted is read back.                                *)
Noded(m, a, n) ==
  n = [parent |-> read_parent(m, a), left |-> read_left(m, a),
       right |-> read_right(m, a), color |-> read_color(m, a)]

LEMMA NodeWritten ==
  ASSUME NEW D \in SUBSET Nat, NEW m \in [D -> Bytes], NEW a, NEW L, Fitting(a, L),
         a .. a + L + 3 \subseteq D, Headed(m, a, L, 1), NEW n \in Nodes
  PROVE  LET r == rb_insert(m, a, n)
         IN  /\ Outside(r, m, D, (a + 3 .. a + 11) \cup (a + L - 7 .. a + L - 4))
             /\ Headed(r, a, L, 1) /\ TypeBit(r, a) /\ Noded(r, a, n)
             /\ read_previous_is_free(r, a) = read_previous_is_free(m, a)
<1> DEFINE k == write_right(write_left(m, a, n.left), a, n.right)
           r == write_color(write_parent(k, a, n.parent), a, n.color)
<1>1. r = rb_insert(m, a, n)
  BY DEF rb_insert
<1>2. a \in Nat /\ L \in Nat /\ L >= 16
  BY FittingIs
<1>3. Links(k, m, D, a, L, n.left, n.right)
  BY EightLinked, FourLinked, NodeIs
<1> HIDE DEF k
<1>4. /\ k \in [D -> Bytes]
      /\ \A x \in D : x \notin (a + 6 .. a + 11) \cup (a + L - 7 .. a + L - 4) => k[x] = m[x]
  BY <1>3 DEF Links, Outside
<1>5. a .. a + 6 \subseteq D
  BY <1>2
<1>6. /\ Later(r, k, D, a) /\ read_previous_is_free(r, a) = read_previous_is_free(k, a)
      /\ read_parent(r, a) = n.parent /\ read_color(r, a) = n.color
  BY <1>2, <1>4, <1>5, NodeIs, TailWritten
<1> HIDE DEF r
<1>7. r \in [D -> Bytes] /\ \A x \in D : x \notin a + 3 .. a + 6 => r[x] = k[x]
  BY <1>6 DEF Later, Outside
<1>8. read_left(r, a) = n.left /\ read_right(r, a) = n.right /\ TypeBit(r, a)
  BY <1>3, <1>6 DEF Links
<1>9. Outside(r, m, D, (a + 3 .. a + 11) \cup (a + L - 7 .. a + L - 4))
  <2>1. \A x \in D : x \notin (a + 3 .. a + 11) \cup (a + L - 7 .. a + L - 4) =>
          x \notin a + 3 .. a + 6 /\ x \notin (a + 6 .. a + 11) \cup (a + L - 7 .. a + L - 4)
    BY <1>2
  <2> QED BY <1>4, <1>7, <2>1 DEF Outside
<1>10. Headed(r, a, L, 1)
  <2> DEFINE g == a + L - 3
  <2>1. {a, a + 1, a + 2} \subseteq D /\ a \in D /\ {g, g + 1, g + 2} \subseteq D /\ g \in Nat /\ g >= a + 13
    BY <1>2
  <2>2. /\ \A x \in {a, a + 1, a + 2} : r[x] = m[x]
        /\ \A x \in {g, g + 1, g + 2} : r[x] = m[x]
    BY <1>2, <1>9, <2>1 DEF Outside
  <2>3. /\ read_24_transformed(r, a) = read_24_transformed(m, a)
        /\ read_24_transformed(r, g) = read_24_transformed(m, g)
    BY <1>7, <2>1, <2>2, ReadsAreKept
  <2>4. read_bit(r, a) = read_bit(m, a)
    BY <1>7, <2>1, <2>2, ReadsAreKept
  <2> QED BY <2>3, <2>4 DEF Headed, get_block_length, get_block_is_free
<1>11. read_previous_is_free(k, a) = read_previous_is_free(m, a)
  <2>1. a + 3 \in D /\ k[a + 3] = m[a + 3]
    BY <1>2, <1>4
  <2> QED BY <2>1 DEF read_previous_is_free, read_bit
<1>12. Noded(r, a, n)
  BY <1>6, <1>8, NodeIs DEF Noded
<1> QED BY <1>1, <1>6, <1>8, <1>9, <1>10, <1>11, <1>12

-----------------------------------------------------------------------------
(* A block and what was stored in it.                                      *)

KeptBytes(m, a, fill, kept) ==
  \A k \in 0 .. kept - 1 : m[get_block_payload(a) + k] = Written(fill, k)

Good(m, a, r) ==
  /\ Headed(m, a, r.length, r.is_free) /\ TypeBit(m, a)
  /\ read_previous_is_free(m, a + r.length) = r.is_free
  /\ r.is_free = 1 => Noded(m, a, r.node)
  /\ r.is_free = 0 => KeptBytes(m, a, r.fill, r.kept)

FreeRecords  == [length : Numbers, is_free : {1}, node : Nodes]
GivenRecords == [length : Numbers, is_free : {0}, fill : Bytes, kept : Nat]
Records == FreeRecords \cup {r \in GivenRecords : r.kept <= r.length - 12}

LEMMA RecordIs ==
  ASSUME NEW r \in Records
  PROVE  /\ r.length \in Numbers /\ r.is_free \in Bits
         /\ r.is_free = 1 => r \in FreeRecords /\ r.node \in Nodes
         /\ r.is_free = 0 => /\ r \in GivenRecords /\ r.fill \in Bytes /\ r.kept \in Nat
                             /\ r.kept <= r.length - 12
<1>1. CASE r \in FreeRecords
  BY <1>1 DEF FreeRecords, Bits
<1>2. CASE r \in GivenRecords /\ r.kept <= r.length - 12
  BY <1>2 DEF GivenRecords, Bits
<1> QED BY <1>1, <1>2 DEF Records

LEMMA PayloadIs ==
  ASSUME NEW a, NEW L, Fitting(a, L)
  PROVE  /\ get_block_payload(a) \in {a + 8, a + 12}
         /\ get_block_payload(a) = TypeAt(a) + 1
BY FittingIs DEF get_block_payload, TypeAt

(* n has the same block at a as m, but for what the one before it is told. *)
SameBlock(n, m, a, L) ==
  /\ \A x \in a .. a + L - 1 : x # a + 3 => n[x] = m[x]
  /\ n[a + 3] \div 2 = m[a + 3] \div 2
  /\ read_previous_is_free(n, a + L) = read_previous_is_free(m, a + L)

LEMMA GoodKept ==
  ASSUME NEW D \in SUBSET Nat, NEW m \in [D -> Bytes], NEW n \in [D -> Bytes],
         NEW a, NEW r \in Records, Fitting(a, r.length), a .. a + r.length + 3 \subseteq D,
         SameBlock(n, m, a, r.length), Good(m, a, r)
  PROVE  Good(n, a, r)
<1> DEFINE L == r.length
           g == a + L - 3
<1>1. a \in Nat /\ L \in Nat /\ L >= 16
  BY FittingIs
<1>2. r.is_free \in Bits
  BY RecordIs
<1> HIDE DEF L
<1>3. /\ \A x \in a .. a + L - 1 : x # a + 3 => n[x] = m[x]
      /\ n[a + 3] \div 2 = m[a + 3] \div 2
      /\ read_previous_is_free(n, a + L) = read_previous_is_free(m, a + L)
      /\ \A x \in a .. a + L + 3 : x \in D
  BY DEF SameBlock, L
<1>4. /\ {a, a + 1, a + 2} \subseteq D /\ {g, g + 1, g + 2} \subseteq D /\ a \in D
      /\ {a + 3, a + 3 + 1, a + 3 + 2} \subseteq D
      /\ \A x \in {a, a + 1, a + 2} : n[x] = m[x]
      /\ \A x \in {g, g + 1, g + 2} : n[x] = m[x]
      /\ n[a + 3 + 1] = m[a + 3 + 1] /\ n[a + 3 + 2] = m[a + 3 + 2]
  BY <1>1, <1>3
<1>5. /\ read_24_transformed(n, a) = read_24_transformed(m, a)
      /\ read_24_transformed(n, g) = read_24_transformed(m, g)
  BY <1>4, ReadsAreKept
<1>6. read_bit(n, a) = read_bit(m, a)
  BY <1>4, ReadsAreKept
<1>7. Headed(n, a, L, r.is_free)
  BY <1>5, <1>6 DEF Good, Headed, get_block_length, get_block_is_free, L
<1>8. TypeBit(n, a)
  <2>1. TypeAt(a) \in a .. a + L - 1 /\ TypeAt(a) # a + 3
    BY <1>1, FittingIs
  <2> QED BY <1>3, <2>1 DEF Good, TypeBit, read_bit
<1>9. ASSUME r.is_free = 1
      PROVE  Noded(n, a, r.node)
  <2>1. get_block_length(n, a) = L /\ get_block_is_free(n, a) = 1
        /\ get_block_length(m, a) = L /\ get_block_is_free(m, a) = 1
    BY <1>7, <1>9 DEF Good, Headed, L
  <2> DEFINE s == a + L - 15
  <2>2. second_part_offseted(n, a) = s /\ second_part_offseted(m, a) = s
    BY <1>1, <2>1 DEF second_part_offseted
  <2>3. \A x \in {a + 6, a + 7, a + 8, a + 9, a + 10, a + 11, s + 8, s + 9, s + 10, s + 11} : n[x] = m[x]
    BY <1>1, <1>3
  <2>4. a + 6 + 1 = a + 7 /\ a + 6 + 2 = a + 8 /\ s + 9 + 1 = s + 10 /\ s + 9 + 2 = s + 11
    BY <1>1
  <2>5. read_parent(n, a) = read_parent(m, a)
    BY <1>3, <1>4, NumberKept DEF read_parent
  <2>6. read_left(n, a) = read_left(m, a)
    <3> HIDE DEF s
    <3> QED BY <2>2, <2>3, <2>4 DEF read_left, read_bit, read_24_transformed
  <2>7. read_right(n, a) = read_right(m, a)
    <3> HIDE DEF s
    <3> QED BY <2>2, <2>3, <2>4 DEF read_right, read_bit, read_24_transformed
  <2>8. read_color(n, a) = read_color(m, a)
    BY <2>3 DEF read_color, read_bit
  <2> QED BY <1>9, <2>5, <2>6, <2>7, <2>8 DEF Good, Noded
<1>10. ASSUME r.is_free = 0
       PROVE  KeptBytes(n, a, r.fill, r.kept)
  <2>1. KeptBytes(m, a, r.fill, r.kept) /\ r.kept \in Nat /\ r.kept <= L - 12
    BY <1>10, RecordIs DEF Good, L
  <2>2. get_block_payload(a) \in {a + 8, a + 12}
    BY PayloadIs
  <2>3. \A k \in 0 .. r.kept - 1 : /\ get_block_payload(a) + k \in a .. a + L - 1
                                   /\ get_block_payload(a) + k # a + 3
    BY <1>1, <2>1, <2>2
  <2> QED BY <1>3, <2>1, <2>3 DEF KeptBytes
<1> QED BY <1>3, <1>7, <1>8, <1>9, <1>10 DEF Good, L

-----------------------------------------------------------------------------
(* Blocks end to end.                                                      *)

Tiled(A, Z, g) ==
  /\ A \in DOMAIN g
  /\ \A a \in DOMAIN g :
       /\ g[a] \in Records /\ Fitting(a, g[a].length)
       /\ A <= a /\ a + g[a].length <= Z
       /\ a + g[a].length = Z \/ a + g[a].length \in DOMAIN g
       /\ a = A \/ \E b \in DOMAIN g : b + g[b].length = a
  /\ \A a, b \in DOMAIN g : a < b => a + g[a].length <= b

AllGood(m, g) == \A a \in DOMAIN g : Good(m, a, g[a])

(* n differs from m only from lo to hi, and in what the block at hi is     *)
(* told.                                                                   *)
Within(n, m, D, lo, hi) ==
  /\ n \in [D -> Bytes]
  /\ \A x \in D : x \notin lo .. hi - 1 /\ x # hi + 3 => n[x] = m[x]
  /\ n[hi + 3] \div 2 = m[hi + 3] \div 2
  /\ read_previous_is_free(n, lo) = read_previous_is_free(m, lo)

(* new has one block from lo to hi, or two.                                *)
Spans(new, lo, hi) ==
  /\ DOMAIN new \subseteq Nat /\ lo \in DOMAIN new
  /\ \A a \in DOMAIN new : new[a] \in Records /\ Fitting(a, new[a].length)
  /\ \/ DOMAIN new = {lo} /\ lo + new[lo].length = hi
     \/ \E b \in DOMAIN new : /\ DOMAIN new = {lo, b} /\ lo + new[lo].length = b
                              /\ b + new[b].length = hi

(* What Becomes makes of the blocks.                                       *)
Recut(new, g) ==
  [a \in DOMAIN new \cup (DOMAIN g \ UNION {a .. a + new[a].length - 1 : a \in DOMAIN new}) |->
     IF a \in DOMAIN new THEN new[a] ELSE g[a]]

(* h has the blocks of new from lo to hi, and those of g elsewhere.        *)
Around(h, new, g, lo, hi) ==
  /\ DOMAIN h = DOMAIN new \cup {a \in DOMAIN g : a < lo \/ a >= hi}
  /\ \A a \in DOMAIN new : h[a] = new[a] /\ a >= lo /\ a + new[a].length <= hi
  /\ \A a \in DOMAIN g : a < lo \/ a >= hi => h[a] = g[a] /\ a \notin DOMAIN new
  /\ \A a \in DOMAIN g : a < lo => a + g[a].length <= lo

LEMMA RecutTiles ==
  ASSUME NEW A \in Nat, NEW Z \in Nat, NEW g, Tiled(A, Z, g),
         NEW lo \in DOMAIN g, NEW hi \in Nat, lo < hi, hi <= Z, hi = Z \/ hi \in DOMAIN g,
         NEW new, Spans(new, lo, hi), NEW h, h = Recut(new, g)
  PROVE  Tiled(A, Z, h) /\ Around(h, new, g, lo, hi)
<1> DEFINE covered == UNION {a .. a + new[a].length - 1 : a \in DOMAIN new}
<1>1. /\ \A a \in DOMAIN g : /\ a \in Nat /\ g[a].length \in Nat /\ g[a].length >= 16
                             /\ g[a] \in Records /\ Fitting(a, g[a].length)
                             /\ A <= a /\ a + g[a].length <= Z
                             /\ a + g[a].length = Z \/ a + g[a].length \in DOMAIN g
                             /\ a = A \/ \E b \in DOMAIN g : b + g[b].length = a
      /\ \A a, b \in DOMAIN g : a < b => a + g[a].length <= b
      /\ A \in DOMAIN g
  BY FittingIs DEF Tiled
<1>2. /\ \A a \in DOMAIN new : /\ a \in Nat /\ new[a].length \in Nat /\ new[a].length >= 16
                               /\ new[a] \in Records /\ Fitting(a, new[a].length)
      /\ lo \in DOMAIN new /\ lo \in Nat
      /\ \/ DOMAIN new = {lo} /\ lo + new[lo].length = hi
         \/ \E b \in DOMAIN new : /\ DOMAIN new = {lo, b} /\ lo + new[lo].length = b
                                  /\ b + new[b].length = hi
  BY FittingIs DEF Spans
<1>3. \A x \in Nat : x \in covered <=> lo <= x /\ x < hi
  <2>1. \A x \in Nat : x \in covered <=> \E a \in DOMAIN new : a <= x /\ x <= a + new[a].length - 1
    BY <1>2
  <2> HIDE DEF covered
  <2>2. CASE DOMAIN new = {lo} /\ lo + new[lo].length = hi
    BY <1>2, <2>1, <2>2
  <2>3. ASSUME NEW b \in DOMAIN new, DOMAIN new = {lo, b}, lo + new[lo].length = b,
               b + new[b].length = hi
        PROVE  \A x \in Nat : x \in covered <=> lo <= x /\ x < hi
    BY <1>2, <2>1, <2>3
  <2> QED BY <1>2, <2>2, <2>3
<1>4. h = [a \in DOMAIN new \cup (DOMAIN g \ covered) |-> IF a \in DOMAIN new THEN new[a] ELSE g[a]]
  BY DEF Recut
<1> HIDE DEF covered
<1>5. DOMAIN h = DOMAIN new \cup {a \in DOMAIN g : a < lo \/ a >= hi}
  BY <1>1, <1>2, <1>3, <1>4
<1>6. /\ \A a \in DOMAIN new : /\ a >= lo /\ a < hi /\ a + new[a].length <= hi
                               /\ a + new[a].length = hi \/ a + new[a].length \in DOMAIN new
                               /\ a = lo \/ \E b \in DOMAIN new : b + new[b].length = a
      /\ \A a, b \in DOMAIN new : a < b => a + new[a].length <= b
  <2>1. CASE DOMAIN new = {lo} /\ lo + new[lo].length = hi
    BY <1>2, <2>1
  <2>2. ASSUME NEW b \in DOMAIN new, DOMAIN new = {lo, b}, lo + new[lo].length = b,
               b + new[b].length = hi
        PROVE  /\ \A a \in DOMAIN new : /\ a >= lo /\ a < hi /\ a + new[a].length <= hi
                                        /\ a + new[a].length = hi \/ a + new[a].length \in DOMAIN new
                                        /\ a = lo \/ \E c \in DOMAIN new : c + new[c].length = a
               /\ \A a, c \in DOMAIN new : a < c => a + new[a].length <= c
    <3>1. /\ lo \in Nat /\ b \in Nat /\ new[lo].length >= 16 /\ new[lo].length \in Nat
          /\ new[b].length >= 16 /\ new[b].length \in Nat
      BY <1>2, <2>2
    <3>2. \A a \in DOMAIN new : a = lo \/ a = b
      BY <2>2
    <3>3. \A a, c \in DOMAIN new : a < c => a + new[a].length <= c
      BY <2>2, <3>1, <3>2
    <3>4. \A a \in DOMAIN new : /\ a >= lo /\ a < hi /\ a + new[a].length <= hi
                                /\ a + new[a].length = hi \/ a + new[a].length \in DOMAIN new
      BY <2>2, <3>1, <3>2
    <3>5. \A a \in DOMAIN new : a = lo \/ \E c \in DOMAIN new : c + new[c].length = a
      BY <1>2, <2>2, <3>2
    <3> QED BY <3>3, <3>4, <3>5
  <2> QED BY <1>2, <2>1, <2>2
<1>7. /\ \A a \in DOMAIN new : h[a] = new[a]
      /\ \A a \in DOMAIN g : a < lo \/ a >= hi => h[a] = g[a] /\ a \notin DOMAIN new
  BY <1>1, <1>2, <1>4, <1>5, <1>6
<1>8. /\ \A a \in DOMAIN g : a < lo => a + g[a].length <= lo
      /\ \A a \in DOMAIN g : a < hi => a + g[a].length <= hi
  BY <1>1
<1>9. A \in DOMAIN h
  BY <1>1, <1>2, <1>5
<1>10. ASSUME NEW a \in DOMAIN h
       PROVE  /\ h[a] \in Records /\ Fitting(a, h[a].length) /\ A <= a /\ a + h[a].length <= Z
              /\ a + h[a].length = Z \/ a + h[a].length \in DOMAIN h
              /\ a = A \/ \E b \in DOMAIN h : b + h[b].length = a
  <2>1. CASE a \in DOMAIN new
    <3>1. h[a] \in Records /\ Fitting(a, h[a].length) /\ A <= a /\ a + h[a].length <= Z
      BY <1>1, <1>2, <1>6, <1>7, <2>1
    <3>2. a + new[a].length = hi \/ a + new[a].length \in DOMAIN new
      BY <1>6, <2>1
    <3>3. a + h[a].length = Z \/ a + h[a].length \in DOMAIN h
      BY <1>5, <1>7, <2>1, <3>2
    <3>4. a = lo \/ \E b \in DOMAIN new : b + new[b].length = a
      BY <1>6, <2>1
    <3>5. ASSUME a = lo, lo # A
          PROVE  \E b \in DOMAIN h : b + h[b].length = a
      <4>1. PICK b \in DOMAIN g : b + g[b].length = lo
        BY <1>1, <3>5
      <4>2. b < lo
        BY <1>1, <4>1
      <4> QED BY <1>5, <1>7, <3>5, <4>1, <4>2
    <3>6. a = A \/ \E b \in DOMAIN h : b + h[b].length = a
      BY <1>5, <1>7, <3>4, <3>5
    <3> QED BY <3>1, <3>3, <3>6
  <2>2. CASE a \in DOMAIN g /\ a < lo
    <3>1. h[a] = g[a]
      BY <1>7, <2>2
    <3>2. a + g[a].length = lo \/ (a + g[a].length \in DOMAIN g /\ a + g[a].length < lo)
      BY <1>1, <1>2, <1>8, <2>2
    <3>3. a = A \/ \E b \in DOMAIN h : b + h[b].length = a
      <4>1. ASSUME NEW b \in DOMAIN g, b + g[b].length = a
            PROVE  b \in DOMAIN h /\ b + h[b].length = a
        BY <1>1, <1>2, <1>5, <1>7, <2>2, <4>1
      <4> QED BY <1>1, <2>2, <4>1
    <3> QED BY <1>1, <1>2, <1>5, <2>2, <3>1, <3>2, <3>3
  <2>3. CASE a \in DOMAIN g /\ a >= hi
    <3>1. h[a] = g[a]
      BY <1>7, <2>3
    <3>2. a + g[a].length = Z \/ a + g[a].length \in DOMAIN h
      BY <1>1, <1>5, <2>3
    <3>3. \E b \in DOMAIN h : b + h[b].length = a
      <4>1. CASE a = hi
        <5>1. \E b \in DOMAIN new : b + new[b].length = hi
          BY <1>2
        <5> QED BY <1>5, <1>7, <4>1, <5>1
      <4>2. CASE a # hi
        <5>1. a # A
          BY <1>1, <1>2, <2>3
        <5>2. PICK b \in DOMAIN g : b + g[b].length = a
          BY <1>1, <2>3, <5>1
        <5>3. b >= hi
          BY <1>1, <1>8, <2>3, <4>2, <5>2
        <5> QED BY <1>5, <1>7, <5>2, <5>3
      <4> QED BY <4>1, <4>2
    <3> QED BY <1>1, <2>3, <3>1, <3>2, <3>3
  <2> QED BY <1>5, <2>1, <2>2, <2>3
<1>11. ASSUME NEW a \in DOMAIN h, NEW b \in DOMAIN h, a < b
       PROVE  a + h[a].length <= b
  <2>1. CASE a \in DOMAIN new /\ b \in DOMAIN new
    <3>1. a + new[a].length <= b
      BY <1>6, <1>11, <2>1
    <3> QED BY <1>7, <2>1, <3>1
  <2>2. CASE a \in DOMAIN new /\ b \in DOMAIN g /\ (b < lo \/ b >= hi)
    BY <1>1, <1>2, <1>6, <1>7, <1>11, <2>2
  <2>3. CASE a \in DOMAIN g /\ (a < lo \/ a >= hi) /\ b \in DOMAIN new
    BY <1>1, <1>2, <1>6, <1>7, <1>8, <1>11, <2>3
  <2>4. CASE a \in DOMAIN g /\ b \in DOMAIN g /\ (a < lo \/ a >= hi)
    BY <1>1, <1>7, <1>11, <2>4
  <2> QED BY <1>5, <2>1, <2>2, <2>3, <2>4
<1>12. Tiled(A, Z, h)
  BY <1>9, <1>10, <1>11 DEF Tiled
<1> QED BY <1>5, <1>6, <1>7, <1>8, <1>12 DEF Around

(* The other blocks do not notice what goes on from lo to hi.              *)
LEMMA RecutIsGood ==
  ASSUME NEW A \in Nat, NEW Z \in Nat, NEW g, Tiled(A, Z, g),
         NEW lo \in DOMAIN g, NEW hi \in Nat, lo < hi, hi <= Z, hi = Z \/ hi \in DOMAIN g,
         NEW new, Spans(new, lo, hi),
         NEW m \in [A .. Z + 3 -> Bytes], AllGood(m, g),
         NEW n, Within(n, m, A .. Z + 3, lo, hi), AllGood(n, new)
  PROVE  /\ Tiled(A, Z, Recut(new, g)) /\ AllGood(n, Recut(new, g))
         /\ n \in [A .. Z + 3 -> Bytes]
         /\ read_previous_is_free(n, A) = read_previous_is_free(m, A)
<1> DEFINE D == A .. Z + 3
           h == Recut(new, g)
<1>0. h = Recut(new, g)
  OBVIOUS
<1> HIDE DEF h
<1>1. /\ Tiled(A, Z, h)
      /\ DOMAIN h = DOMAIN new \cup {a \in DOMAIN g : a < lo \/ a >= hi}
      /\ \A a \in DOMAIN new : h[a] = new[a] /\ a >= lo /\ a + new[a].length <= hi
      /\ \A a \in DOMAIN g : a < lo \/ a >= hi => h[a] = g[a] /\ a \notin DOMAIN new
      /\ \A a \in DOMAIN g : a < lo => a + g[a].length <= lo
  <2>1. Tiled(A, Z, h) /\ Around(h, new, g, lo, hi)
    BY <1>0, RecutTiles
  <2> QED BY <2>1 DEF Around
<1>2. /\ \A a \in DOMAIN g : /\ a \in Nat /\ g[a].length \in Nat /\ g[a].length >= 16
                             /\ g[a] \in Records /\ Fitting(a, g[a].length)
                             /\ A <= a /\ a + g[a].length <= Z
      /\ A \in DOMAIN g
  BY FittingIs DEF Tiled
<1>3. /\ n \in [D -> Bytes]
      /\ \A x \in D : x \notin lo .. hi - 1 /\ x # hi + 3 => n[x] = m[x]
      /\ n[hi + 3] \div 2 = m[hi + 3] \div 2
      /\ read_previous_is_free(n, lo) = read_previous_is_free(m, lo)
  BY DEF Within
<1>4. ASSUME NEW a \in DOMAIN g, a < lo \/ a >= hi
      PROVE  Good(n, a, g[a])
  <2> DEFINE L == g[a].length
  <2>1. a \in Nat /\ L \in Nat /\ L >= 16 /\ A <= a /\ a + L <= Z
    BY <1>2
  <2> HIDE DEF L
  <2>2. \A x \in a .. a + L + 3 : x \in D
    BY <2>1
  <2>3. SameBlock(n, m, a, L)
    <3>1. CASE a < lo
      <4>1. a + L <= lo
        BY <1>1, <3>1 DEF L
      <4>2. \A x \in a .. a + L - 1 : n[x] = m[x]
        BY <1>2, <1>3, <2>1, <2>2, <4>1
      <4>3. read_previous_is_free(n, a + L) = read_previous_is_free(m, a + L)
        <5>1. CASE a + L = lo
          BY <1>3, <5>1
        <5>2. CASE a + L # lo
          <6>1. a + L + 3 < lo
            <7>1. a + L \in DOMAIN g
              BY <1>2, <2>1, <4>1, <5>2 DEF Tiled, L
            <7>2. a + L + g[a + L].length <= lo
              BY <1>1, <1>2, <2>1, <4>1, <5>2, <7>1
            <7> QED BY <1>2, <2>1, <7>1, <7>2
          <6>2. n[a + L + 3] = m[a + L + 3]
            BY <1>2, <1>3, <2>1, <2>2, <6>1
          <6> QED BY <6>2 DEF read_previous_is_free, read_bit
        <5> QED BY <5>1, <5>2
      <4> QED BY <2>1, <4>2, <4>3 DEF SameBlock
    <3>2. CASE a >= hi
      <4>1. \A x \in a .. a + L + 3 : x # a + 3 => n[x] = m[x]
        <5> SUFFICES ASSUME NEW x \in a .. a + L + 3, x # a + 3
                     PROVE  n[x] = m[x]
          OBVIOUS
        <5>1. x \in D /\ x \notin lo .. hi - 1
          BY <1>2, <2>1, <2>2, <3>2
        <5>2. x # hi + 3
          <6>1. CASE a = hi
            BY <6>1
          <6>2. CASE a # hi
            <7>1. hi \in DOMAIN g
              BY <1>2, <2>1, <3>2
            <7>2. hi + g[hi].length <= a
              BY <2>1, <3>2, <6>2, <7>1 DEF Tiled
            <7> QED BY <1>2, <2>1, <7>1, <7>2
          <6> QED BY <6>1, <6>2
        <5> QED BY <1>3, <5>1, <5>2
      <4>2. n[a + 3] \div 2 = m[a + 3] \div 2
        <5>1. CASE a = hi
          BY <1>3, <5>1
        <5>2. CASE a # hi
          <6>1. n[a + 3] = m[a + 3]
            <7>1. a + 3 \in D /\ a + 3 \notin lo .. hi - 1 /\ a + 3 # hi + 3
              BY <1>2, <2>1, <2>2, <3>2, <5>2
            <7> QED BY <1>3, <7>1
          <6> QED BY <6>1
        <5> QED BY <5>1, <5>2
      <4>3. n[a + L + 3] = m[a + L + 3]
        BY <2>1, <4>1
      <4> QED BY <2>1, <4>1, <4>2, <4>3 DEF SameBlock, read_previous_is_free, read_bit
    <3> QED BY <1>4, <3>1, <3>2
  <2>4. a .. a + L + 3 \subseteq D /\ D \in SUBSET Nat
    BY <2>2
  <2>5. Good(m, a, g[a]) /\ g[a] \in Records /\ Fitting(a, g[a].length)
    BY <1>2 DEF AllGood
  <2> HIDE DEF D
  <2> QED BY <1>3, <2>3, <2>4, <2>5, GoodKept DEF L, D
<1>5. AllGood(n, h)
  BY <1>1, <1>4 DEF AllGood
<1>6. read_previous_is_free(n, A) = read_previous_is_free(m, A)
  <2>1. CASE A = lo
    BY <1>3, <2>1
  <2>2. CASE A # lo
    <3>1. A < lo
      BY <1>2, <2>2
    <3>2. A + 16 <= lo
      BY <1>1, <1>2, <3>1
    <3>3. n[A + 3] = m[A + 3]
      BY <1>2, <1>3, <3>2
    <3> QED BY <3>3 DEF read_previous_is_free, read_bit
  <2> QED BY <2>1, <2>2
<1> QED BY <1>1, <1>3, <1>5, <1>6 DEF h

-----------------------------------------------------------------------------
(* What the operations on a block do.                                      *)

(* n differs from m only from lo to hi, and in what the block at hi is     *)
(* told.                                                                   *)
Inside(n, m, D, lo, hi) ==
  /\ n \in [D -> Bytes]
  /\ \A x \in D : x \notin lo .. hi - 1 /\ x # hi + 3 => n[x] = m[x]
  /\ n[hi + 3] \div 2 = m[hi + 3] \div 2

LEMMA InsideTwice ==
  ASSUME NEW D, NEW m, NEW n, NEW k, NEW lo, NEW hi, Inside(n, m, D, lo, hi), Inside(k, n, D, lo, hi)
  PROVE  Inside(k, m, D, lo, hi)
BY DEF Inside

LEMMA InsideMore ==
  ASSUME NEW D \in SUBSET Nat, NEW m, NEW n, NEW lo \in Nat, NEW hi \in Nat,
         NEW lo2 \in Nat, NEW hi2 \in Nat, lo <= lo2, lo2 < hi2, hi2 = hi \/ hi2 + 4 <= hi,
         hi + 3 \in D, Inside(n, m, D, lo2, hi2)
  PROVE  Inside(n, m, D, lo, hi)
<1>1. \A x \in D : x \notin lo .. hi - 1 /\ x # hi + 3 => x \notin lo2 .. hi2 - 1 /\ x # hi2 + 3
  OBVIOUS
<1>2. hi2 + 4 <= hi => hi + 3 \notin lo2 .. hi2 - 1 /\ hi + 3 # hi2 + 3
  OBVIOUS
<1> QED BY <1>1, <1>2 DEF Inside

LEMMA WithinIs ==
  ASSUME NEW D, NEW m, NEW n, NEW lo, NEW hi
  PROVE  Within(n, m, D, lo, hi) <=> /\ Inside(n, m, D, lo, hi)
                                     /\ read_previous_is_free(n, lo) = read_previous_is_free(m, lo)
BY DEF Within, Inside

(* A write from a to the end of the block does not leave it.               *)
LEMMA OutsideInside ==
  ASSUME NEW D \in SUBSET Nat, NEW m, NEW n, NEW S, Outside(n, m, D, S),
         NEW lo \in Nat, NEW hi \in Nat, hi + 3 \in D, S \subseteq lo .. hi - 1
  PROVE  Inside(n, m, D, lo, hi)
BY DEF Outside, Inside

LEMMA AcrossInside ==
  ASSUME NEW D \in SUBSET Nat, NEW m, NEW n, NEW S, Outside(n, m, D, S), NEW lo \in Nat, NEW hi \in Nat,
         \A x \in D : x \notin lo .. hi - 1 /\ x # hi + 3 => x \notin S,
         n[hi + 3] \div 2 = m[hi + 3] \div 2
  PROVE  Inside(n, m, D, lo, hi)
BY DEF Outside, Inside

(* What is told to a block at b that the write does not reach.             *)
LEMMA PreviousKept ==
  ASSUME NEW D, NEW m, NEW n, NEW S, Outside(n, m, D, S), NEW b, b + 3 \in D, b + 3 \notin S
  PROVE  read_previous_is_free(n, b) = read_previous_is_free(m, b)
BY DEF Outside, read_previous_is_free, read_bit

LEMMA ToldWritten ==
  ASSUME NEW D \in SUBSET Nat, NEW m \in [D -> Bytes], NEW a, NEW L, Fitting(a, L),
         a + L + 3 \in D, get_block_length(m, a) = L, NEW f \in Bits
  PROVE  LET n == TellNext(m, a, f)
         IN  /\ Outside(n, m, D, {a + L + 3}) /\ n[a + L + 3] \div 2 = m[a + L + 3] \div 2
             /\ read_previous_is_free(n, a + L) = f
<1>1. TellNext(m, a, f) = write_bit(m, a + L + 3, f)
  BY DEF TellNext, get_logical_next_block, write_previous_is_free
<1> DEFINE n == write_bit(m, a + L + 3, f)
<1>2. /\ Outside(n, m, D, {a + L + 3}) /\ n[a + L + 3] \div 2 = m[a + L + 3] \div 2
      /\ read_bit(n, a + L + 3) = f
  BY BitWritten
<1> HIDE DEF n
<1> QED BY <1>1, <1>2 DEF read_previous_is_free, n

LEMMA DeletedWritten ==
  ASSUME NEW D \in SUBSET Nat, NEW m \in [D -> Bytes], NEW a \in Numbers, a % 4 = 0,
         a .. a + 5 \subseteq D
  PROVE  LET n == rb_delete(m, a)
         IN  /\ Outside(n, m, D, a + 3 .. a + 5)
             /\ read_previous_is_free(n, a) = read_previous_is_free(m, a)
<1>1. a \in Nat
  BY NumbersAre
<1>2. {a + 3, a + 3 + 1, a + 3 + 2} \subseteq D
  BY <1>1
<1>3. /\ Outside(rb_delete(m, a), m, D, {a + 3, a + 3 + 1, a + 3 + 2})
      /\ read_bit(rb_delete(m, a), a + 3) = read_bit(m, a + 3)
  BY <1>2, NumberWritten DEF rb_delete, write_parent
<1>4. {a + 3, a + 3 + 1, a + 3 + 2} \subseteq a + 3 .. a + 5
  BY <1>1
<1> QED BY <1>3, <1>4 DEF Outside, read_previous_is_free

(* Where set_block_is_free writes.                                         *)
SwitchAt(a, L, f) == {a, a + L + 3} \cup ((IF f = 1 THEN a + 9 ELSE a + 12) .. a + L - 1)

LEMMA FreeBitWritten ==
  ASSUME NEW D \in SUBSET Nat, NEW m \in [D -> Bytes], NEW a, NEW L, Fitting(a, L),
         a .. a + L + 3 \subseteq D, get_block_length(m, a) = L, NEW f \in Bits
  PROVE  LET n == set_block_is_free(m, a, f)
         IN  /\ Outside(n, m, D, SwitchAt(a, L, f))
             /\ n[a + L + 3] \div 2 = m[a + L + 3] \div 2
             /\ Headed(n, a, L, f) /\ read_previous_is_free(n, a + L) = f
<1> DEFINE second == IF EightAligned(a) THEN 4 ELSE 8
           to     == a + L - 3 * f - second
           from   == a + L - 3 * (1 - f) - second
           moved  == [x \in DOMAIN m |-> IF x \in to .. to + second - 1 THEN m[x - to + from] ELSE m[x]]
           k      == write_bit(moved, a, f)
           after  == TellNext(k, a, f)
           g      == a + L - 3
           n      == IF f = 1 THEN set_block_length_footer(after, a, L) ELSE after
           S      == SwitchAt(a, L, f)
<1>1. n = set_block_is_free(m, a, f)
  BY DEF set_block_is_free
<1>2. /\ a \in Nat /\ L \in Nat /\ L >= 16 /\ (EightAligned(a) \/ L >= 20)
      /\ L \in Numbers /\ L % 4 = 0
  BY FittingIs DEF Fitting
<1>3. \A x \in a .. a + L + 3 : x \in D
  OBVIOUS
<1>4. /\ to \in Nat /\ from \in Nat /\ second \in Nat
      /\ to >= (IF f = 1 THEN a + 9 ELSE a + 12) /\ from >= a + 9
      /\ to + second <= a + L /\ from + second <= a + L
  BY <1>2 DEF Bits
<1> HIDE DEF to, from, second
<1>5. /\ moved \in [D -> Bytes]
      /\ \A x \in D : x \notin S => moved[x] = m[x]
      /\ moved[a + L + 3] = m[a + L + 3] /\ {a, a + 1, a + 2} \subseteq D
      /\ \A x \in {a, a + 1, a + 2} : moved[x] = m[x]
  <2>1. \A x \in to .. to + second - 1 : x - to + from \in D /\ x \in S
    <3> SUFFICES ASSUME NEW x \in to .. to + second - 1
                 PROVE  x - to + from \in D /\ x \in S
      OBVIOUS
    <3>1. x - to + from \in a .. a + L + 3
      BY <1>2, <1>4
    <3>2. x \in (IF f = 1 THEN a + 9 ELSE a + 12) .. a + L - 1
      BY <1>2, <1>4
    <3> QED BY <1>3, <3>1, <3>2 DEF SwitchAt
  <2>2. \A x \in D : x \notin to .. to + second - 1 => moved[x] = m[x]
    OBVIOUS
  <2>3. moved \in [D -> Bytes]
    BY <2>1
  <2> HIDE DEF S, moved
  <2>4. a + L + 3 \in D /\ {a, a + 1, a + 2} \subseteq D
    BY <1>2, <1>3
  <2>5. \A x \in {a, a + 1, a + 2, a + L + 3} : x \notin to .. to + second - 1
    <3>1. to >= a + 9 /\ to + second <= a + L
      BY <1>2, <1>4
    <3> QED BY <1>2, <1>4, <3>1
  <2> QED BY <2>1, <2>2, <2>3, <2>4, <2>5
<1> HIDE DEF moved
<1>6. Outside(k, moved, D, {a}) /\ read_bit(k, a) = f
  BY <1>5, BitWritten
<1> HIDE DEF k
<1>7. k \in [D -> Bytes] /\ \A x \in D : x \notin {a} => k[x] = moved[x]
  BY <1>6 DEF Outside
<1>8. read_24_transformed(k, a) = L
  <2>1. \A x \in {a, a + 1, a + 2} : x # a => k[x] = m[x]
    BY <1>5, <1>7
  <2>2. k[a] \div 2 = m[a] \div 2
    <3>1. k[a] \div 2 = moved[a] \div 2
      BY <1>5, BitWritten DEF k
    <3> QED BY <1>5, <3>1
  <2>3. k[a + 1] = m[a + 1] /\ k[a + 2] = m[a + 2]
    BY <1>2, <2>1
  <2>4. read_24_transformed(k, a) = read_24_transformed(m, a)
    BY <1>5, <1>7, <2>2, <2>3, NumberKept
  <2> QED BY <2>4 DEF get_block_length
<1>9. /\ Outside(after, k, D, {a + L + 3}) /\ after[a + L + 3] \div 2 = k[a + L + 3] \div 2
      /\ read_previous_is_free(after, a + L) = f
  <2>1. get_block_length(k, a) = L /\ a + L + 3 \in D
    BY <1>2, <1>3, <1>8 DEF get_block_length
  <2>2. /\ Outside(TellNext(k, a, f), k, D, {a + L + 3})
        /\ TellNext(k, a, f)[a + L + 3] \div 2 = k[a + L + 3] \div 2
        /\ read_previous_is_free(TellNext(k, a, f), a + L) = f
    <3> HIDE DEF g, S, n
    <3>1. k \in [D -> Bytes] /\ Fitting(a, L) /\ f \in Bits /\ D \in SUBSET Nat
      BY <1>7
    <3> QED BY <1>2, <2>1, <3>1, ToldWritten
  <2> QED BY <2>2
<1> HIDE DEF after
<1>10. after \in [D -> Bytes] /\ \A x \in D : x \notin {a + L + 3} => after[x] = k[x]
  BY <1>9 DEF Outside
<1>11. /\ {g, g + 1, g + 2} \subseteq D /\ g \in Nat /\ g >= a + 13
       /\ g + 2 < a + L + 3
  BY <1>2, <1>3
<1>12. /\ Outside(n, after, D, IF f = 1 THEN {g, g + 1, g + 2} ELSE {})
       /\ f = 1 => read_24_transformed(n, g) = L
  <2>1. CASE f = 1
    <3> DEFINE h == write_24_preserve_low_bit(after, g, L)
    <3>1. n = h
      BY <2>1 DEF set_block_length_footer
    <3>2. Outside(h, after, D, {g, g + 1, g + 2}) /\ read_24_transformed(h, g) = L
      BY <1>2, <1>10, <1>11, NumberWritten
    <3> QED BY <2>1, <3>1, <3>2
  <2>2. CASE f # 1
    BY <1>10, <2>2 DEF Outside
  <2> QED BY <2>1, <2>2
<1> HIDE DEF n
<1>13. /\ n \in [D -> Bytes]
       /\ \A x \in D : x \notin (IF f = 1 THEN {g, g + 1, g + 2} ELSE {}) => n[x] = after[x]
  BY <1>12 DEF Outside
<1>14. Outside(n, m, D, S)
  <2>1. a \in S /\ a + L + 3 \in S /\ (f = 1 => {g, g + 1, g + 2} \subseteq S)
    BY <1>2 DEF SwitchAt
  <2> HIDE DEF S, g
  <2>2. \A x \in D : x \notin S => n[x] = m[x]
    BY <1>5, <1>7, <1>10, <1>13, <2>1
  <2> QED BY <1>13, <2>2 DEF Outside
<1>15. n[a + L + 3] = after[a + L + 3]
  BY <1>2, <1>3, <1>11, <1>13
<1>16. \A x \in {a, a + 1, a + 2} : n[x] = k[x]
  BY <1>2, <1>5, <1>10, <1>11, <1>13
<1>17. n[a + L + 3] \div 2 = m[a + L + 3] \div 2
  <2>1. k[a + L + 3] = m[a + L + 3]
    BY <1>2, <1>3, <1>5, <1>7
  <2> QED BY <1>9, <1>15, <2>1
<1>18. read_previous_is_free(n, a + L) = f
  BY <1>9, <1>15 DEF read_previous_is_free, read_bit
<1>19. Headed(n, a, L, f)
  <2>1. n \in [D -> Bytes] /\ k \in [D -> Bytes] /\ {a, a + 1, a + 2} \subseteq D /\ a \in D
    BY <1>5, <1>7, <1>13
  <2>2. read_24_transformed(n, a) = L
    BY <1>8, <1>16, <2>1, ReadsAreKept
  <2>3. read_bit(n, a) = f
    BY <1>6, <1>16 DEF read_bit
  <2> QED BY <1>12, <2>2, <2>3 DEF Headed, get_block_length, get_block_is_free
<1> QED BY <1>1, <1>14, <1>17, <1>18, <1>19

-----------------------------------------------------------------------------
(* Blocks that are formed, freed, given out and cut.                       *)

LEMMA BlockIn ==
  ASSUME NEW D \in SUBSET Nat, NEW a, NEW L, Fitting(a, L), a .. a + L + 3 \subseteq D
  PROVE  /\ a \in Nat /\ L \in Nat /\ L >= 16 /\ a + L \in Nat /\ a + L + 3 \in D
         /\ a \in D /\ a + 3 \in D /\ a .. a + 5 \subseteq D /\ a + 3 .. a + L - 1 \subseteq a .. a + L - 1
         /\ \A x \in a .. a + L + 3 : x \in D
         /\ (a + 3 .. a + 11) \cup (a + L - 7 .. a + L - 4) \subseteq a + 3 .. a + L - 1
         /\ HeadAt(a) \cup FootAt(a, L) \subseteq a .. a + L - 1
<1>1. /\ a \in Nat /\ L \in Nat /\ L >= 16 /\ a + L \in Nat /\ TypeAt(a) \in {a + 7, a + 11}
  BY FittingIs
<1>2. HeadAt(a) \cup FootAt(a, L) \subseteq a .. a + L - 1
  BY <1>1 DEF HeadAt, FootAt
<1>3. \A x \in a .. a + L + 3 : x \in D
  OBVIOUS
<1>4. (a + 3 .. a + 11) \cup (a + L - 7 .. a + L - 4) \subseteq a + 3 .. a + L - 1
  BY <1>1
<1> QED BY <1>1, <1>2, <1>3, <1>4

LEMMA OutsideMore ==
  ASSUME NEW D, NEW m, NEW n, NEW S, NEW T, Outside(n, m, D, S), S \subseteq T
  PROVE  Outside(n, m, D, T)
BY DEF Outside

LEMMA NodeMakesGood ==
  ASSUME NEW D \in SUBSET Nat, NEW m \in [D -> Bytes], NEW a, NEW L, Fitting(a, L),
         a .. a + L + 3 \subseteq D, Headed(m, a, L, 1), read_previous_is_free(m, a + L) = 1,
         NEW n \in Nodes
  PROVE  LET r == rb_insert(m, a, n)
         IN  /\ Good(r, a, Free(L, n)) /\ Outside(r, m, D, a + 3 .. a + L - 1)
             /\ read_previous_is_free(r, a) = read_previous_is_free(m, a)
<1> DEFINE r == rb_insert(m, a, n)
           S == (a + 3 .. a + 11) \cup (a + L - 7 .. a + L - 4)
<1>1. /\ a \in Nat /\ L \in Nat /\ L >= 16 /\ a + L + 3 \in D
      /\ S \subseteq a + 3 .. a + L - 1
  BY BlockIn
<1>2. /\ Outside(r, m, D, S)
      /\ Headed(r, a, L, 1) /\ TypeBit(r, a) /\ Noded(r, a, n)
      /\ read_previous_is_free(r, a) = read_previous_is_free(m, a)
  BY NodeWritten
<1> HIDE DEF r, S
<1>3. Outside(r, m, D, a + 3 .. a + L - 1)
  BY <1>1, <1>2, OutsideMore
<1>4. a + L + 3 \notin a + 3 .. a + L - 1
  BY <1>1
<1>5. read_previous_is_free(r, a + L) = 1
  BY <1>1, <1>3, <1>4, PreviousKept
<1>6. Good(r, a, Free(L, n))
  BY <1>2, <1>5 DEF Good, Free
<1> QED BY <1>2, <1>3, <1>6 DEF r

(* A free block is formed, the one behind it told, and its node inserted.  *)
LEMMA FreeFormed ==
  ASSUME NEW D \in SUBSET Nat, NEW m \in [D -> Bytes], NEW a, NEW L, Fitting(a, L),
         a .. a + L + 3 \subseteq D, NEW p \in Bits, NEW n \in Nodes
  PROVE  LET r == rb_insert(TellNext(init_block(m, a, L, 1, p), a, 1), a, n)
         IN  Good(r, a, Free(L, n)) /\ Inside(r, m, D, a, a + L) /\ read_previous_is_free(r, a) = p
<1> DEFINE h == init_block(m, a, L, 1, p)
           k == TellNext(h, a, 1)
           r == rb_insert(k, a, n)
<1>1. /\ a \in Nat /\ L \in Nat /\ L >= 16 /\ a + L \in Nat /\ a + L + 3 \in D /\ a \in D /\ a + 3 \in D
      /\ HeadAt(a) \cup FootAt(a, L) \subseteq a .. a + L - 1
      /\ a + 3 .. a + L - 1 \subseteq a .. a + L - 1 /\ 1 \in Bits
  BY BlockIn DEF Bits
<1>2. /\ Outside(h, m, D, HeadAt(a) \cup FootAt(a, L))
      /\ Headed(h, a, L, 1) /\ read_previous_is_free(h, a) = p
  <2>1. 1 \in Bits /\ InitAt(a, L, 1) = HeadAt(a) \cup FootAt(a, L)
    BY DEF Bits, InitAt
  <2>2. /\ Outside(h, m, D, InitAt(a, L, 1))
        /\ Headed(h, a, L, 1) /\ read_previous_is_free(h, a) = p
    BY <2>1, InitWritten
  <2> QED BY <2>1, <2>2
<1> HIDE DEF h
<1>3. h \in [D -> Bytes] /\ get_block_length(h, a) = L
  BY <1>2 DEF Outside, Headed
<1>4. /\ Outside(k, h, D, {a + L + 3}) /\ k[a + L + 3] \div 2 = h[a + L + 3] \div 2
      /\ read_previous_is_free(k, a + L) = 1
  BY <1>1, <1>3, ToldWritten
<1> HIDE DEF k
<1>5. k \in [D -> Bytes]
  BY <1>4 DEF Outside
<1>6. Inside(k, m, D, a, a + L)
  <2>1. Inside(h, m, D, a, a + L)
    BY <1>1, <1>2, OutsideInside
  <2>2. Inside(k, h, D, a, a + L)
    BY <1>1, <1>4 DEF Inside, Outside
  <2> QED BY <2>1, <2>2, InsideTwice
<1>7. Headed(k, a, L, 1) /\ read_previous_is_free(k, a) = p
  <2> DEFINE g == a + L - 3
  <2>1. {a, a + 1, a + 2} \subseteq D /\ {g, g + 1, g + 2} \subseteq D
    BY <1>1, BlockIn
  <2>2. /\ \A x \in {a, a + 1, a + 2} : k[x] = h[x]
        /\ \A x \in {g, g + 1, g + 2} : k[x] = h[x]
        /\ k[a + 3] = h[a + 3]
    BY <1>1, <1>4, <2>1 DEF Outside
  <2>3. /\ read_24_transformed(k, a) = read_24_transformed(h, a)
        /\ read_24_transformed(k, g) = read_24_transformed(h, g)
    BY <1>3, <1>5, <2>1, <2>2, ReadsAreKept
  <2>4. read_bit(k, a) = read_bit(h, a) /\ read_bit(k, a + 3) = read_bit(h, a + 3)
    BY <2>2 DEF read_bit
  <2> QED BY <1>2, <2>3, <2>4 DEF Headed, get_block_length, get_block_is_free, read_previous_is_free
<1>8. /\ Good(r, a, Free(L, n)) /\ Outside(r, k, D, a + 3 .. a + L - 1)
      /\ read_previous_is_free(r, a) = read_previous_is_free(k, a)
  BY <1>4, <1>5, <1>7, NodeMakesGood
<1> HIDE DEF r
<1>9. Inside(r, m, D, a, a + L)
  <2>1. Inside(r, k, D, a, a + L)
    BY <1>1, <1>8, OutsideInside
  <2> QED BY <1>6, <2>1, InsideTwice
<1> QED BY <1>7, <1>8, <1>9 DEF h, k, r

(* A free block is given out as it is.                                     *)
LEMMA GivenOut ==
  ASSUME NEW D \in SUBSET Nat, NEW m \in [D -> Bytes], NEW a, NEW L, Fitting(a, L),
         a .. a + L + 3 \subseteq D, get_block_length(m, a) = L, TypeBit(m, a)
  PROVE  LET r == set_block_is_free(m, a, 0)
         IN  /\ Good(r, a, Given(L, 0, 0)) /\ Inside(r, m, D, a, a + L)
             /\ Outside(r, m, D, SwitchAt(a, L, 0))
             /\ read_previous_is_free(r, a) = read_previous_is_free(m, a)
<1> DEFINE r == set_block_is_free(m, a, 0)
           S == SwitchAt(a, L, 0)
<1>1. /\ a \in Nat /\ L \in Nat /\ L >= 16 /\ a + L + 3 \in D /\ a + 3 \in D /\ a \in D
      /\ TypeAt(a) \in {a + 7, a + 11} /\ 0 \in Bits
      /\ \A x \in a .. a + L + 3 : x \in D
  BY BlockIn, FittingIs DEF Bits
<1>2. /\ Outside(r, m, D, S) /\ r[a + L + 3] \div 2 = m[a + L + 3] \div 2
      /\ Headed(r, a, L, 0) /\ read_previous_is_free(r, a + L) = 0
  <2>1. 0 \in Bits
    BY DEF Bits
  <2> QED BY <2>1, FreeBitWritten
<1> HIDE DEF r
<1>3. Inside(r, m, D, a, a + L)
  <2>1. \A x \in D : x \notin a .. a + L - 1 /\ x # a + L + 3 => x \notin S
    BY <1>1 DEF SwitchAt
  <2> HIDE DEF S
  <2>2. a + L \in Nat /\ a \in Nat /\ L \in Nat
    BY <1>1
  <2> QED BY <1>2, <2>1, <2>2, AcrossInside
<1>4. a + 3 \notin S /\ TypeAt(a) \notin S /\ TypeAt(a) \in D
  BY <1>1 DEF SwitchAt
<1>5. read_previous_is_free(r, a) = read_previous_is_free(m, a)
  BY <1>1, <1>2, <1>4, PreviousKept
<1>6. TypeBit(r, a)
  BY <1>2, <1>4 DEF TypeBit, Outside, read_bit
<1>7. Good(r, a, Given(L, 0, 0))
  BY <1>2, <1>6 DEF Good, Given, KeptBytes
<1> QED BY <1>2, <1>3, <1>5, <1>7 DEF r

(* A block in use becomes free.                                            *)
LEMMA FreedAlone ==
  ASSUME NEW D \in SUBSET Nat, NEW m \in [D -> Bytes], NEW a, NEW L, Fitting(a, L),
         a .. a + L + 3 \subseteq D, get_block_length(m, a) = L, NEW n \in Nodes
  PROVE  LET r == rb_insert(set_block_is_free(m, a, 1), a, n)
         IN  Good(r, a, Free(L, n)) /\ Within(r, m, D, a, a + L)
<1> DEFINE k == set_block_is_free(m, a, 1)
           r == rb_insert(k, a, n)
           S == SwitchAt(a, L, 1)
<1>1. /\ a \in Nat /\ L \in Nat /\ L >= 16 /\ a + L \in Nat /\ a + L + 3 \in D /\ a + 3 \in D /\ a \in D
      /\ 1 \in Bits /\ a + 3 .. a + L - 1 \subseteq a .. a + L - 1
  BY BlockIn DEF Bits
<1>2. /\ Outside(k, m, D, S) /\ k[a + L + 3] \div 2 = m[a + L + 3] \div 2
      /\ Headed(k, a, L, 1) /\ read_previous_is_free(k, a + L) = 1
  <2>1. 1 \in Bits
    BY DEF Bits
  <2> QED BY <2>1, FreeBitWritten
<1> HIDE DEF k
<1>3. k \in [D -> Bytes]
  BY <1>2 DEF Outside
<1>4. Inside(k, m, D, a, a + L)
  <2>1. \A x \in D : x \notin a .. a + L - 1 /\ x # a + L + 3 => x \notin S
    BY <1>1 DEF SwitchAt
  <2> HIDE DEF S
  <2>2. a + L \in Nat /\ a \in Nat /\ L \in Nat
    BY <1>1
  <2> QED BY <1>2, <2>1, <2>2, AcrossInside
<1>5. a + 3 \notin S
  BY <1>1 DEF SwitchAt
<1>6. read_previous_is_free(k, a) = read_previous_is_free(m, a)
  BY <1>1, <1>2, <1>5, PreviousKept
<1>7. /\ Good(r, a, Free(L, n)) /\ Outside(r, k, D, a + 3 .. a + L - 1)
      /\ read_previous_is_free(r, a) = read_previous_is_free(k, a)
  BY <1>2, <1>3, NodeMakesGood
<1> HIDE DEF r
<1>8. Inside(r, m, D, a, a + L)
  <2>1. Inside(r, k, D, a, a + L)
    BY <1>1, <1>7, OutsideInside
  <2> QED BY <1>4, <2>1, InsideTwice
<1> QED BY <1>6, <1>7, <1>8, WithinIs DEF r, k

LEMMA HeaderKept ==
  ASSUME NEW D \in SUBSET Nat, NEW m \in [D -> Bytes], NEW n \in [D -> Bytes],
         NEW a, NEW L, Fitting(a, L), a .. a + L + 3 \subseteq D,
         \A x \in a .. a + L - 1 : x # a + 3 => n[x] = m[x]
  PROVE  /\ \A f : Headed(m, a, L, f) => Headed(n, a, L, f)
         /\ TypeBit(m, a) => TypeBit(n, a)
         /\ get_block_length(n, a) = get_block_length(m, a)
<1> DEFINE g == a + L - 3
<1>1. a \in Nat /\ L \in Nat /\ L >= 16 /\ TypeAt(a) \in {a + 7, a + 11}
  BY FittingIs
<1>2. /\ {a, a + 1, a + 2} \subseteq D /\ {g, g + 1, g + 2} \subseteq D
      /\ \A x \in {a, a + 1, a + 2} : n[x] = m[x]
      /\ \A x \in {g, g + 1, g + 2} : n[x] = m[x]
      /\ n[TypeAt(a)] = m[TypeAt(a)]
  BY <1>1
<1>3. /\ read_24_transformed(n, a) = read_24_transformed(m, a)
      /\ read_24_transformed(n, g) = read_24_transformed(m, g)
  BY <1>2, ReadsAreKept
<1>4. read_bit(n, a) = read_bit(m, a) /\ read_bit(n, TypeAt(a)) = read_bit(m, TypeAt(a))
  BY <1>2 DEF read_bit
<1> QED BY <1>3, <1>4 DEF Headed, TypeBit, get_block_length, get_block_is_free

(* Two blocks, from a to b and from b to c.                                *)
Pair(D, a, M, b, N, c) ==
  /\ D \in SUBSET Nat /\ Fitting(a, M) /\ Fitting(b, N) /\ b = a + M /\ c = b + N
  /\ a .. c + 3 \subseteq D

LEMMA PairIs ==
  ASSUME NEW D, NEW a, NEW M, NEW b, NEW N, NEW c, Pair(D, a, M, b, N, c)
  PROVE  /\ D \in SUBSET Nat /\ Fitting(a, M) /\ Fitting(b, N) /\ b = a + M /\ c = b + N
         /\ a \in Nat /\ M \in Nat /\ M >= 16 /\ b \in Nat /\ N \in Nat /\ N >= 16 /\ c \in Nat
         /\ a .. a + M + 3 \subseteq D /\ b .. b + N + 3 \subseteq D /\ a .. c + 3 \subseteq D
         /\ a .. b + 3 \subseteq D /\ b .. c + 3 \subseteq D
         /\ a + 3 \in D /\ b + 3 \in D /\ c + 3 \in D
         /\ c = a + M + N
<1>1. /\ D \in SUBSET Nat /\ Fitting(a, M) /\ Fitting(b, N) /\ b = a + M /\ c = b + N
      /\ a .. c + 3 \subseteq D
  BY DEF Pair
<1>2. a \in Nat /\ M \in Nat /\ M >= 16 /\ b \in Nat /\ N \in Nat /\ N >= 16 /\ c \in Nat
  BY <1>1, FittingIs
<1>3. /\ a .. b + 3 \subseteq D /\ b .. c + 3 \subseteq D
      /\ a + 3 \in D /\ b + 3 \in D /\ c + 3 \in D
  BY <1>1, <1>2
<1> QED BY <1>1, <1>2, <1>3

(* What Cut makes of the block from a to c.                                *)
Parted(r, m, D, a, M, b, N, c, f) ==
  /\ Inside(r, m, D, a, c) /\ r \in [D -> Bytes]
  /\ Headed(r, a, M, f) /\ TypeBit(r, a)
  /\ read_previous_is_free(r, a) = read_previous_is_free(m, a)
  /\ read_previous_is_free(r, b) = f
  /\ Headed(r, b, N, 1) /\ TypeBit(r, b)
  /\ read_previous_is_free(r, c) = 1
  /\ f = 0 => \A x \in TypeAt(a) + 1 .. b - 1 : r[x] = m[x]

(* Two blocks are formed where one was.                                    *)
LEMMA CutIs ==
  ASSUME NEW D, NEW a, NEW M, NEW mid, NEW N, NEW to, Pair(D, a, M, mid, N, to),
         NEW m \in [D -> Bytes], NEW f \in Bits
  PROVE  Parted(Cut(m, a, M, to, f), m, D, a, M, mid, N, to, f)
<1>0. /\ D \in SUBSET Nat /\ Fitting(a, M) /\ Fitting(a + M, N) /\ to = a + M + N
      /\ a .. to + 3 \subseteq D /\ mid = a + M
  BY PairIs
<1> USE <1>0
<1> DEFINE p == read_previous_is_free(m, a)
           b == a + M
           h == init_block(m, a, M, f, p)
           k == init_block(h, b, N, 1, f)
           r == TellNext(k, b, 1)
<1>1. /\ a \in Nat /\ M \in Nat /\ M >= 16 /\ b \in Nat /\ N \in Nat /\ N >= 16 /\ to \in Nat
      /\ to = b + N /\ TypeAt(a) \in {a + 7, a + 11} /\ to = a + M + N
  BY FittingIs
<1>2. N = to - a - M
  BY <1>1
<1>3. r = Cut(m, a, M, to, f)
  BY <1>2 DEF Cut
<1>4. /\ \A x \in a .. to + 3 : x \in D
      /\ a .. a + M + 3 \subseteq D /\ b .. b + N + 3 \subseteq D /\ a + 3 \in D /\ to + 3 \in D
      /\ b + N + 3 \in D
  BY <1>1
<1>5. p \in Bits /\ 1 \in Bits /\ InitAt(b, N, 1) = HeadAt(b) \cup FootAt(b, N)
  BY <1>4, ReadsAreKept DEF read_previous_is_free, Bits, InitAt
<1>6. InitAt(a, M, f) \subseteq a .. a + M - 1 /\ InitAt(b, N, 1) \subseteq b .. b + N - 1
  BY <1>1, <1>4, <1>5, BlockIn DEF InitAt
<1> HIDE DEF p
<1>7. /\ Outside(h, m, D, InitAt(a, M, f)) /\ Headed(h, a, M, f) /\ TypeBit(h, a)
      /\ read_previous_is_free(h, a) = p
  BY <1>4, <1>5, InitWritten
<1> HIDE DEF h
<1>8. h \in [D -> Bytes] /\ \A x \in D : x \notin InitAt(a, M, f) => h[x] = m[x]
  BY <1>7 DEF Outside
<1>9. /\ Outside(k, h, D, InitAt(b, N, 1)) /\ Headed(k, b, N, 1) /\ TypeBit(k, b)
      /\ read_previous_is_free(k, b) = f
  BY <1>4, <1>5, <1>8, InitWritten
<1> HIDE DEF k
<1>10. /\ k \in [D -> Bytes] /\ get_block_length(k, b) = N
       /\ \A x \in D : x \notin InitAt(b, N, 1) => k[x] = h[x]
  BY <1>9 DEF Outside, Headed
<1>11. /\ Outside(r, k, D, {b + N + 3}) /\ r[b + N + 3] \div 2 = k[b + N + 3] \div 2
       /\ read_previous_is_free(r, b + N) = 1
  <2>1. D \in SUBSET Nat /\ 1 \in Bits /\ b + N + 3 \in D /\ k \in [D -> Bytes]
    BY <1>4, <1>5, <1>10
  <2>2. r = write_bit(k, b + N + 3, 1)
    BY <1>10 DEF TellNext, get_logical_next_block, write_previous_is_free
  <2> HIDE DEF b, r
  <2>3. /\ Outside(r, k, D, {b + N + 3}) /\ r[b + N + 3] \div 2 = k[b + N + 3] \div 2
        /\ read_bit(r, b + N + 3) = 1
    BY <2>1, <2>2, BitWritten
  <2> QED BY <2>3 DEF read_previous_is_free
<1> HIDE DEF r
<1>12. /\ r \in [D -> Bytes] /\ \A x \in D : x # to + 3 => r[x] = k[x]
       /\ r[to + 3] \div 2 = k[to + 3] \div 2
  BY <1>1, <1>11 DEF Outside
<1>13. /\ \A x \in D : x \notin a .. a + M - 1 => h[x] = m[x]
       /\ \A x \in D : x \notin b .. b + N - 1 => k[x] = h[x]
  BY <1>6, <1>8, <1>10
<1> HIDE DEF b
<1>14. Inside(r, m, D, a, to)
  <2>1. \A x \in D : x \notin a .. to - 1 /\ x # to + 3 => r[x] = m[x]
    <3> SUFFICES ASSUME NEW x \in D, x \notin a .. to - 1, x # to + 3
                 PROVE  r[x] = m[x]
      OBVIOUS
    <3>1. x \notin a .. a + M - 1 /\ x \notin b .. b + N - 1
      BY <1>1 DEF b
    <3> QED BY <1>12, <1>13, <3>1
  <2>2. to + 3 \notin a .. a + M - 1 /\ to + 3 \notin b .. b + N - 1
    BY <1>1
  <2>3. r[to + 3] \div 2 = m[to + 3] \div 2
    BY <1>4, <1>12, <1>13, <2>2
  <2> QED BY <1>12, <2>1, <2>3 DEF Inside
<1>15. \A x \in a .. a + M - 1 : r[x] = h[x]
  <2> SUFFICES ASSUME NEW x \in a .. a + M - 1
               PROVE  r[x] = h[x]
    OBVIOUS
  <2>1. x \in D /\ x # to + 3 /\ x \notin b .. b + N - 1
    BY <1>1, <1>4 DEF b
  <2> QED BY <1>12, <1>13, <2>1
<1>16. \A x \in b .. b + N - 1 : r[x] = k[x]
  BY <1>1, <1>4, <1>12
<1>17. Headed(r, a, M, f) /\ TypeBit(r, a)
  BY <1>4, <1>7, <1>8, <1>12, <1>15, HeaderKept
<1>18. Headed(r, b, N, 1) /\ TypeBit(r, b)
  <2>1. Fitting(b, N)
    BY DEF b
  <2> QED BY <1>4, <1>9, <1>10, <1>12, <1>16, <2>1, HeaderKept
<1>19. /\ read_previous_is_free(r, a) = p /\ read_previous_is_free(r, b) = f
       /\ read_previous_is_free(r, to) = 1
  <2>1. r[a + 3] = h[a + 3] /\ r[b + 3] = k[b + 3]
    BY <1>1, <1>15, <1>16
  <2> QED BY <1>1, <1>7, <1>9, <1>11, <2>1 DEF read_previous_is_free, read_bit
<1>20. ASSUME f = 0, NEW x \in TypeAt(a) + 1 .. a + M - 1
       PROVE  r[x] = m[x]
  <2>1. x \in D /\ x \in a .. a + M - 1
    BY <1>1, <1>4
  <2>2. x \notin InitAt(a, M, f)
    BY <1>1, <1>20 DEF InitAt, HeadAt
  <2> QED BY <1>8, <1>15, <2>1, <2>2
<1>21. mid = b /\ mid - 1 = a + M - 1
  BY <1>1 DEF b
<1> QED BY <1>3, <1>12, <1>14, <1>17, <1>18, <1>19, <1>20, <1>21 DEF Parted, p
-----------------------------------------------------------------------------
(* The invariant, and what a call has to show for it.                      *)

IInv ==
  /\ area \in Areas
  /\ mem \in [area[1] .. area[2] + 3 -> Bytes]
  /\ told \in [DOMAIN told -> Records]
  /\ Tiled(area[1], area[2], told)
  /\ AllGood(mem, told)
  /\ read_previous_is_free(mem, area[1]) = 0

(* Blocks of 16 bytes that are not at a multiple of 8 lose their type bit. *)
LongEnough == Shortest \in Nat /\ Shortest >= 20

Addresses == area[1] .. area[2] + 3

LEMMA AreaIs ==
  ASSUME NEW a \in Areas
  PROVE  /\ a[1] \in Numbers /\ a[2] \in Numbers /\ a[1] \in Nat /\ a[2] \in Nat
         /\ a[1] % 4 = 0 /\ a[2] % 4 = 0 /\ a[2] >= a[1] + 20
<1>1. a[1] \in Numbers /\ a[2] \in Numbers /\ a[1] % 4 = 0 /\ a[2] % 4 = 0 /\ a[2] >= a[1] + 20
  BY AreasAssumption
<1> QED BY <1>1, NumbersAre

LEMMA InvFacts ==
  ASSUME IInv
  PROVE  /\ area[1] \in Nat /\ area[2] \in Nat /\ area[2] \in Numbers
         /\ Addresses \in SUBSET Nat /\ mem \in [Addresses -> Bytes]
         /\ \A a \in Blocks :
              /\ told[a] \in Records /\ Fitting(a, told[a].length) /\ Good(mem, a, told[a])
              /\ a \in Nat /\ told[a].length \in Nat /\ told[a].length >= 16
              /\ a .. a + told[a].length + 3 \subseteq Addresses
              /\ area[1] <= a /\ a + told[a].length <= area[2] /\ a + told[a].length \in Nat
              /\ a + told[a].length = area[2] \/ a + told[a].length \in Blocks
<1>1. /\ area[1] \in Nat /\ area[2] \in Nat /\ area[2] \in Numbers
  BY AreaIs DEF IInv
<1>2. Addresses \in SUBSET Nat /\ mem \in [Addresses -> Bytes]
  BY <1>1 DEF Addresses, IInv
<1>3. ASSUME NEW a \in Blocks
      PROVE  /\ told[a] \in Records /\ Fitting(a, told[a].length) /\ Good(mem, a, told[a])
             /\ a \in Nat /\ told[a].length \in Nat /\ told[a].length >= 16
             /\ a .. a + told[a].length + 3 \subseteq Addresses
             /\ area[1] <= a /\ a + told[a].length <= area[2] /\ a + told[a].length \in Nat
             /\ a + told[a].length = area[2] \/ a + told[a].length \in Blocks
  <2>1. /\ told[a] \in Records /\ Fitting(a, told[a].length) /\ Good(mem, a, told[a])
        /\ area[1] <= a /\ a + told[a].length <= area[2]
        /\ a + told[a].length = area[2] \/ a + told[a].length \in Blocks
    BY <1>3 DEF IInv, Tiled, AllGood, Blocks
  <2>2. /\ a \in Nat /\ told[a].length \in Nat /\ told[a].length >= 16 /\ a + told[a].length \in Nat
    BY <2>1, FittingIs
  <2>3. a .. a + told[a].length + 3 \subseteq Addresses
    BY <1>1, <2>1, <2>2 DEF Addresses
  <2> QED BY <2>1, <2>2, <2>3
<1> QED BY <1>1, <1>2, <1>3

(* A length that leaves room in the area, of a block that Becomes lets     *)
(* begin at a.                                                             *)
LEMMA NewFits ==
  ASSUME LongEnough, NEW Z \in Numbers, NEW a \in Nat, a % 4 = 0, NEW L \in Nat, L % 4 = 0, L >= 15,
         a + L <= Z, EightAligned(a) \/ L >= Shortest
  PROVE  Fitting(a, L) /\ L \in Numbers
<1>1. Z \in Nat /\ Z < 33554432
  BY SMT, NumbersAre
<1>2. a < 33554432 /\ L < 33554432 /\ L >= 16
  BY SMT, <1>1
<1>3. a \in Numbers /\ L \in Numbers
  BY SMT, <1>2, NumbersAre
<1>4. EightAligned(a) \/ L >= 20
  BY DEF LongEnough
<1> QED BY <1>2, <1>3, <1>4 DEF Fitting

LEMMA FreeIs ==
  ASSUME NEW L \in Numbers, NEW n \in Nodes
  PROVE  Free(L, n) \in Records /\ Free(L, n).length = L /\ Free(L, n).is_free = 1
BY DEF Free, Records, FreeRecords

LEMMA GivenIs ==
  ASSUME NEW L \in Numbers, NEW f \in Bytes, NEW k \in Nat, k <= L - 12
  PROVE  Given(L, f, k) \in Records /\ Given(L, f, k).length = L /\ Given(L, f, k).is_free = 0
<1>1. Given(L, f, k) \in GivenRecords
  BY DEF Given, GivenRecords
<1>2. Given(L, f, k).length = L /\ Given(L, f, k).is_free = 0 /\ Given(L, f, k).kept = k
  BY DEF Given
<1> QED BY <1>1, <1>2 DEF Records

LEMMA OneSpans ==
  ASSUME NEW a \in Nat, NEW r \in Records, Fitting(a, r.length), NEW m
  PROVE  /\ Spans(One(a, r), a, a + r.length)
         /\ Good(m, a, r) => AllGood(m, One(a, r))
<1>1. DOMAIN One(a, r) = {a} /\ One(a, r)[a] = r
  BY DEF One
<1> QED BY <1>1 DEF Spans, AllGood

LEMMA TwoSpan ==
  ASSUME NEW a \in Nat, NEW b \in Nat, NEW r \in Records, NEW s \in Records,
         Fitting(a, r.length), Fitting(b, s.length), a + r.length = b, NEW m
  PROVE  /\ Spans(Two(a, r, b, s), a, b + s.length) /\ Spans(Two(b, s, a, r), a, b + s.length)
         /\ Good(m, a, r) /\ Good(m, b, s) =>
              AllGood(m, Two(a, r, b, s)) /\ AllGood(m, Two(b, s, a, r))
<1>1. a # b
  BY FittingIs
<1>2. /\ DOMAIN Two(a, r, b, s) = {a, b} /\ Two(a, r, b, s)[a] = r /\ Two(a, r, b, s)[b] = s
      /\ DOMAIN Two(b, s, a, r) = {a, b} /\ Two(b, s, a, r)[a] = r /\ Two(b, s, a, r)[b] = s
  BY <1>1 DEF Two
<1> QED BY <1>2 DEF Spans, AllGood

(* The blocks from lo to hi may become others whose headers are right.     *)
LEMMA BecomesGood ==
  ASSUME IInv, NEW lo \in Blocks, NEW hi \in Nat, lo < hi, hi <= area[2],
         hi = area[2] \/ hi \in Blocks, NEW new, Spans(new, lo, hi),
         Within(mem', mem, Addresses, lo, hi), AllGood(mem', new),
         told' = Recut(new, told), UNCHANGED area
  PROVE  IInv'
<1>1. area[1] \in Nat /\ area[2] \in Nat
  BY InvFacts
<1>2. /\ Tiled(area[1], area[2], told') /\ AllGood(mem', told')
      /\ mem' \in [area[1] .. area[2] + 3 -> Bytes]
      /\ read_previous_is_free(mem', area[1]) = 0
  BY <1>1, RecutIsGood DEF IInv, Blocks, Addresses
<1>3. told' \in [DOMAIN told' -> Records]
  <2>1. \A a \in DOMAIN told' : told'[a] \in Records
    BY <1>2 DEF Tiled
  <2>2. told' = [a \in DOMAIN told' |-> told'[a]]
    BY DEF Recut
  <2> QED BY <2>1, <2>2
<1> QED BY <1>2, <1>3 DEF IInv

(* What is stored in one block changes.                                    *)
LEMMA RecutAlone ==
  ASSUME IInv, NEW a \in Blocks, NEW r \in Records, r.length = told[a].length
  PROVE  Recut(One(a, r), told) = [told EXCEPT ![a] = r]
<1> DEFINE covered == UNION {b .. b + One(a, r)[b].length - 1 : b \in DOMAIN One(a, r)}
<1>1. DOMAIN One(a, r) = {a} /\ One(a, r)[a] = r
  BY DEF One
<1>2. covered = a .. a + told[a].length - 1
  BY <1>1
<1>3. \A b \in Blocks : b \in covered <=> b = a
  <2>1. \A b \in Blocks : a < b => a + told[a].length <= b
    BY DEF IInv, Tiled, Blocks
  <2>2. \A b \in Blocks : b \in Nat
    BY InvFacts
  <2>3. told[a].length \in Nat /\ told[a].length >= 16
    BY InvFacts
  <2> HIDE DEF covered
  <2> QED BY <1>2, <2>1, <2>2, <2>3
<1> HIDE DEF covered
<1>4. DOMAIN One(a, r) \cup (DOMAIN told \ covered) = DOMAIN told
  BY <1>1, <1>3 DEF Blocks
<1>5. Recut(One(a, r), told) = [b \in DOMAIN told |-> IF b = a THEN r ELSE told[b]]
  <2>1. Recut(One(a, r), told)
          = [b \in DOMAIN One(a, r) \cup (DOMAIN told \ covered) |->
               IF b \in DOMAIN One(a, r) THEN One(a, r)[b] ELSE told[b]]
    BY DEF Recut, covered
  <2> QED BY <1>1, <1>4, <2>1
<1> QED BY <1>5 DEF IInv, Blocks


-----------------------------------------------------------------------------
(* What is read of a block and its neighbours.                             *)

LEMMA BlockIs ==
  ASSUME IInv, NEW a \in Blocks
  PROVE  /\ get_block_length(mem, a) = told[a].length /\ get_block_is_free(mem, a) = told[a].is_free
         /\ read_previous_is_free(mem, End(a)) = told[a].is_free /\ told[a].is_free \in Bits
         /\ IsFree(a) => read_24_transformed(mem, End(a) - 3) = told[a].length
         /\ get_payload_block(mem, get_block_payload(a)) = a
<1>1. Good(mem, a, told[a]) /\ told[a] \in Records /\ Fitting(a, told[a].length)
  BY InvFacts
<1>2. told[a].is_free \in Bits
  BY <1>1, RecordIs
<1>3. /\ get_block_length(mem, a) = told[a].length /\ get_block_is_free(mem, a) = told[a].is_free
      /\ read_previous_is_free(mem, a + told[a].length) = told[a].is_free
      /\ told[a].is_free = 1 => read_24_transformed(mem, a + told[a].length - 3) = told[a].length
      /\ TypeBit(mem, a)
  BY <1>1 DEF Good, Headed
<1>4. get_payload_block(mem, get_block_payload(a)) = a
  <2>1. a \in Nat
    BY InvFacts
  <2>2. get_block_payload(a) - 1 = TypeAt(a)
    BY <2>1 DEF get_block_payload, TypeAt
  <2>3. CASE EightAligned(a)
    BY <1>3, <2>1, <2>2, <2>3 DEF TypeBit, get_payload_block, get_block_payload
  <2>4. CASE ~ EightAligned(a)
    BY <1>3, <2>1, <2>2, <2>4 DEF TypeBit, get_payload_block, get_block_payload
  <2> QED BY <2>3, <2>4
<1> QED BY <1>2, <1>3, <1>4, InvFacts DEF IsFree, End

PreviousIs(a, s) == s = {} \/ \E b \in Blocks : s = {b} /\ IsFree(b) /\ End(b) = a
NextIs(a, s)     == s = {} \/ (s = {End(a)} /\ End(a) \in Blocks /\ IsFree(End(a)))

LEMMA NeighboursAre ==
  ASSUME IInv, NEW a \in Blocks
  PROVE  /\ PreviousIs(a, get_previous_block_if_free(mem, a))
         /\ NextIs(a, get_next_block_if_free(mem, a))
<1>1. PreviousIs(a, get_previous_block_if_free(mem, a))
  <2>1. CASE read_previous_is_free(mem, a) # 1
    BY <2>1 DEF get_previous_block_if_free, PreviousIs
  <2>2. CASE read_previous_is_free(mem, a) = 1
    <3>1. a # area[1]
      BY <2>2 DEF IInv
    <3>2. PICK b \in Blocks : b + told[b].length = a
      BY <3>1 DEF IInv, Tiled, Blocks
    <3>3. told[b].is_free = 1 /\ read_24_transformed(mem, a - 3) = told[b].length
      BY <2>2, <3>2, BlockIs DEF IsFree, End
    <3>4. a - told[b].length = b
      BY <3>2, InvFacts
    <3>5. get_previous_block_if_free(mem, a) = {b}
      BY <2>2, <3>3, <3>4 DEF get_previous_block_if_free
    <3> QED BY <3>2, <3>3, <3>5 DEF PreviousIs, IsFree, End
  <2> QED BY <2>1, <2>2
<1>2. NextIs(a, get_next_block_if_free(mem, a))
  <2>1. get_logical_next_block(mem, a) = End(a)
    BY BlockIs DEF get_logical_next_block, End
  <2>2. End(a) = area[2] \/ End(a) \in Blocks
    BY InvFacts DEF End
  <2>3. CASE End(a) # area[2] /\ get_block_is_free(mem, End(a)) = 1
    <3>1. get_next_block_if_free(mem, a) = {End(a)}
      BY <2>1, <2>3 DEF get_next_block_if_free
    <3>2. IsFree(End(a))
      BY <2>2, <2>3, BlockIs DEF IsFree
    <3> QED BY <2>2, <2>3, <3>1, <3>2 DEF NextIs
  <2>4. CASE ~ (End(a) # area[2] /\ get_block_is_free(mem, End(a)) = 1)
    BY <2>1, <2>4 DEF get_next_block_if_free, NextIs
  <2> QED BY <2>3, <2>4
<1> QED BY <1>1, <1>2

LEMMA NothingIs ==
  ASSUME NEW m
  PROVE  LengthOf(m, {}) = 0 /\ Delete(m, {}) = m
BY DEF LengthOf, Delete

LEMMA PieceIs ==
  ASSUME NEW m, NEW b
  PROVE  LengthOf(m, {b}) = get_block_length(m, b) /\ Delete(m, {b}) = rb_delete(m, b)
<1>1. {b} # {} /\ (CHOOSE a \in {b} : TRUE) = b
  OBVIOUS
<1> QED BY <1>1 DEF LengthOf, Delete

(* Some blocks begin at lo and end at hi.                                  *)
Whole(lo, hi) ==
  /\ lo \in Blocks /\ lo \in Nat /\ hi \in Nat /\ lo % 4 = 0 /\ hi % 4 = 0
  /\ lo < hi /\ hi <= area[2] /\ (hi = area[2] \/ hi \in Blocks)
  /\ lo .. hi + 3 \subseteq Addresses

(* m is mem but for what rb_delete stores in the blocks around this one.   *)
Loosened(m, block, lo, hi) ==
  /\ m \in [Addresses -> Bytes] /\ Inside(m, mem, Addresses, lo, hi)
  /\ read_previous_is_free(m, lo) = read_previous_is_free(mem, lo)
  /\ \A x \in block .. End(block) - 1 : m[x] = mem[x]

LEMMA WholeIs ==
  ASSUME IInv, NEW lo \in Blocks, NEW b \in Blocks, lo <= b
  PROVE  Whole(lo, End(b)) /\ told[b].length % 4 = 0
<1>1. /\ lo \in Nat /\ b \in Nat /\ told[b].length \in Nat /\ told[b].length >= 16
      /\ area[1] <= lo /\ b + told[b].length <= area[2] /\ b + told[b].length \in Nat
      /\ b + told[b].length = area[2] \/ b + told[b].length \in Blocks
      /\ area[1] \in Nat /\ area[2] \in Nat
  BY InvFacts
<1>2. lo % 4 = 0 /\ b % 4 = 0 /\ told[b].length % 4 = 0
  BY InvFacts DEF Fitting
<1> DEFINE e == b + told[b].length
<1>3. e % 4 = 0 /\ lo < e /\ e \in Nat
  BY <1>1, <1>2
<1>4. lo .. e + 3 \subseteq Addresses
  BY <1>1, <1>3 DEF Addresses
<1> QED BY <1>1, <1>2, <1>3, <1>4 DEF Whole, End

(* A neighbour in its tree is deleted from it.                             *)
LEMMA LooseOne ==
  ASSUME IInv, NEW m \in [Addresses -> Bytes], NEW b \in Blocks, NEW lo \in Nat, NEW hi \in Nat,
         lo <= b, End(b) <= hi, hi + 3 \in Addresses
  PROVE  LET n == rb_delete(m, b)
         IN  /\ n \in [Addresses -> Bytes] /\ Inside(n, m, Addresses, lo, hi)
             /\ Outside(n, m, Addresses, b + 3 .. b + 5)
             /\ read_previous_is_free(n, b) = read_previous_is_free(m, b)
<1> DEFINE n == rb_delete(m, b)
<1>1. /\ b \in Nat /\ told[b].length \in Nat /\ told[b].length >= 16
      /\ Addresses \in SUBSET Nat /\ b \in Numbers /\ b % 4 = 0
      /\ b .. b + told[b].length + 3 \subseteq Addresses
  BY InvFacts DEF Fitting
<1>2. b .. b + 5 \subseteq Addresses
  BY <1>1
<1>3. /\ Outside(n, m, Addresses, b + 3 .. b + 5)
      /\ read_previous_is_free(n, b) = read_previous_is_free(m, b)
  BY <1>1, <1>2, DeletedWritten
<1> HIDE DEF n
<1>4. b + 3 .. b + 5 \subseteq lo .. hi - 1
  BY <1>1 DEF End
<1>5. Inside(n, m, Addresses, lo, hi)
  BY <1>1, <1>3, <1>4, OutsideInside
<1> QED BY <1>3, <1>5 DEF Outside, n

LEMMA LooseIs ==
  ASSUME IInv, NEW a \in Blocks, NEW prev, PreviousIs(a, prev), NEW next, NextIs(a, next)
  PROVE  LET lo == a - LengthOf(mem, prev)
             hi == End(a) + LengthOf(mem, next)
         IN  /\ Whole(lo, hi) /\ lo <= a /\ End(a) <= hi
             /\ Loosened(Delete(Delete(mem, prev), next), a, lo, hi)
             /\ LengthOf(mem, prev) \in Nat /\ LengthOf(mem, next) \in Nat
             /\ prev = {} => LengthOf(mem, prev) = 0 /\ lo = a
             /\ prev # {} => LengthOf(mem, prev) >= 16
             /\ next = {} => LengthOf(mem, next) = 0 /\ hi = End(a)
             /\ next # {} => LengthOf(mem, next) >= 16
             /\ a % 4 = 0 /\ End(a) % 4 = 0 /\ LengthOf(mem, prev) % 4 = 0
<1> DEFINE P  == LengthOf(mem, prev)
           N  == LengthOf(mem, next)
           lo == a - P
           hi == End(a) + N
           m1 == Delete(mem, prev)
           m2 == Delete(m1, next)
<1>1. /\ a \in Nat /\ told[a].length \in Nat /\ told[a].length >= 16 /\ End(a) \in Nat
      /\ End(a) = a + told[a].length /\ mem \in [Addresses -> Bytes] /\ Addresses \in SUBSET Nat
      /\ area[1] \in Nat /\ area[2] \in Nat
  BY InvFacts DEF End
<1>2. Whole(a, End(a))
  BY <1>1, WholeIs
<1>3. a % 4 = 0 /\ End(a) % 4 = 0
  BY <1>2 DEF Whole
<1>4. \/ prev = {} /\ P = 0 /\ m1 = mem /\ lo = a
      \/ \E b \in Blocks : /\ prev = {b} /\ End(b) = a /\ lo = b /\ m1 = rb_delete(mem, b)
                           /\ P = told[b].length
  <2>1. CASE prev = {}
    BY <1>1, <2>1, NothingIs
  <2>2. ASSUME NEW b \in Blocks, prev = {b}, End(b) = a
        PROVE  lo = b /\ m1 = rb_delete(mem, b) /\ P = told[b].length
    <3>1. P = told[b].length /\ m1 = rb_delete(mem, b)
      BY <2>2, PieceIs, BlockIs
    <3>2. b \in Nat /\ told[b].length \in Nat
      BY InvFacts
    <3>3. a - told[b].length = b
      BY <2>2, <3>2 DEF End
    <3> QED BY <3>1, <3>3
  <2> QED BY <2>1, <2>2 DEF PreviousIs
<1>5. \/ next = {} /\ N = 0 /\ m2 = m1 /\ hi = End(a)
      \/ /\ next = {End(a)} /\ End(a) \in Blocks /\ m2 = rb_delete(m1, End(a))
         /\ N = told[End(a)].length /\ hi = End(End(a))
  <2>1. CASE next = {}
    BY <1>1, <2>1, NothingIs
  <2>2. CASE next = {End(a)} /\ End(a) \in Blocks
    <3>1. N = told[End(a)].length /\ m2 = rb_delete(m1, End(a))
      BY <2>2, PieceIs, BlockIs
    <3>2. hi = End(End(a))
      BY <3>1 DEF End
    <3> QED BY <2>2, <3>1, <3>2
  <2> QED BY <2>1, <2>2 DEF NextIs
<1> HIDE DEF m1, m2, P, N
<1>6. /\ lo \in Blocks /\ lo \in Nat /\ lo <= a /\ P \in Nat /\ lo % 4 = 0 /\ P % 4 = 0
      /\ prev = {} => P = 0 /\ lo = a
      /\ prev # {} => P >= 16
  <2>1. CASE prev = {}
    <3>1. P = 0 /\ lo = a
      BY <1>4, <2>1
    <3> HIDE DEF lo
    <3> QED BY <1>1, <1>3, <2>1, <3>1
  <2>2. ASSUME NEW b \in Blocks, prev = {b}, End(b) = a, lo = b, P = told[b].length
        PROVE  lo \in Nat /\ lo <= a /\ P \in Nat /\ lo % 4 = 0 /\ P % 4 = 0 /\ P >= 16
    <3>1. b \in Nat /\ told[b].length \in Nat /\ told[b].length >= 16
      BY InvFacts
    <3>2. Whole(b, End(b)) /\ told[b].length % 4 = 0
      BY <3>1, WholeIs
    <3>3. b <= a
      BY <2>2, <3>1 DEF End
    <3> HIDE DEF lo
    <3> QED BY <2>2, <3>1, <3>2, <3>3 DEF Whole
  <2> QED BY <1>4, <2>1, <2>2
<1>7. /\ hi \in Nat /\ End(a) <= hi /\ N \in Nat
      /\ next = {} => N = 0 /\ hi = End(a)
      /\ next # {} => N >= 16
      /\ \E b \in Blocks : a <= b /\ hi = End(b)
  <2>1. CASE next = {}
    BY <1>1, <1>5, <2>1
  <2>2. CASE next # {}
    <3>1. /\ End(a) \in Blocks /\ told[End(a)].length \in Nat /\ told[End(a)].length >= 16
          /\ N = told[End(a)].length /\ hi = End(End(a))
      BY <1>5, <2>2, InvFacts
    <3> QED BY <1>1, <2>2, <3>1
  <2> QED BY <2>1, <2>2
<1>8. Whole(lo, hi)
  <2>1. PICK b \in Blocks : a <= b /\ hi = End(b)
    BY <1>7
  <2>2. lo <= b
    BY <1>1, <1>6, <2>1, InvFacts
  <2> QED BY <1>6, <2>1, <2>2, WholeIs
<1>9. hi + 3 \in Addresses
  <2>1. hi + 3 \in lo .. hi + 3
    BY <1>1, <1>6, <1>7
  <2> QED BY <1>8, <2>1 DEF Whole
<1> HIDE DEF lo, hi
<1>10. /\ m1 \in [Addresses -> Bytes] /\ Inside(m1, mem, Addresses, lo, hi)
       /\ read_previous_is_free(m1, lo) = read_previous_is_free(mem, lo)
       /\ \A x \in Addresses : x >= a => m1[x] = mem[x]
  <2>1. CASE m1 = mem
    BY <1>1, <2>1 DEF Inside
  <2>2. ASSUME NEW b \in Blocks, End(b) = a, lo = b, m1 = rb_delete(mem, b)
        PROVE  /\ m1 \in [Addresses -> Bytes] /\ Inside(m1, mem, Addresses, lo, hi)
               /\ read_previous_is_free(m1, lo) = read_previous_is_free(mem, lo)
               /\ \A x \in Addresses : x >= a => m1[x] = mem[x]
    <3>1. lo \in Nat /\ hi \in Nat /\ lo <= b /\ End(b) <= hi
      BY <1>1, <1>6, <1>7, <2>2
    <3>2. /\ m1 \in [Addresses -> Bytes] /\ Inside(m1, mem, Addresses, lo, hi)
          /\ Outside(m1, mem, Addresses, b + 3 .. b + 5)
          /\ read_previous_is_free(m1, b) = read_previous_is_free(mem, b)
      BY <1>1, <1>9, <2>2, <3>1, LooseOne
    <3>3. b \in Nat /\ told[b].length \in Nat /\ told[b].length >= 16
      BY InvFacts
    <3>4. \A x \in Addresses : x >= a => x \notin b + 3 .. b + 5
      BY <1>1, <2>2, <3>3 DEF End
    <3> QED BY <2>2, <3>2, <3>4 DEF Outside
  <2> QED BY <1>4, <2>1, <2>2
<1>11. Loosened(m2, a, lo, hi)
  <2>1. \A x \in a .. End(a) - 1 : x \in Addresses /\ x >= a
    BY <1>1, <1>2 DEF Whole
  <2>2. CASE m2 = m1
    BY <1>10, <2>1, <2>2 DEF Loosened
  <2>3. CASE End(a) \in Blocks /\ m2 = rb_delete(m1, End(a)) /\ hi = End(End(a))
    <3> DEFINE b == End(a)
    <3>1. lo <= b /\ End(b) <= hi
      BY <1>1, <1>6, <1>7, <2>3
    <3>2. b \in Blocks /\ m2 = rb_delete(m1, b)
      BY <2>3
    <3> HIDE DEF b
    <3>3. /\ m2 \in [Addresses -> Bytes] /\ Inside(m2, m1, Addresses, lo, hi)
          /\ Outside(m2, m1, Addresses, b + 3 .. b + 5)
      BY <1>6, <1>7, <1>9, <1>10, <3>1, <3>2, LooseOne
    <3>4. Inside(m2, mem, Addresses, lo, hi)
      BY <1>10, <3>3, InsideTwice
    <3>5. \A x \in Addresses : x < b + 3 => m2[x] = m1[x]
      <4>1. \A x \in Addresses : x < b + 3 => x \notin b + 3 .. b + 5
        BY <1>1 DEF b
      <4> QED BY <3>3, <4>1 DEF Outside
    <3>6. m2[lo + 3] = m1[lo + 3]
      <4>1. lo + 3 \in lo .. hi + 3 /\ lo + 3 < b + 3
        BY <1>1, <1>6, <1>7 DEF b
      <4>2. lo + 3 \in Addresses
        BY <1>8, <4>1 DEF Whole
      <4> QED BY <3>5, <4>1, <4>2
    <3>7. \A x \in a .. End(a) - 1 : m2[x] = mem[x]
      <4>1. \A x \in a .. End(a) - 1 : x < b + 3
        BY <1>1 DEF b
      <4> QED BY <1>10, <2>1, <3>5, <4>1
    <3>8. read_previous_is_free(m2, lo) = read_previous_is_free(mem, lo)
      BY <1>10, <3>6 DEF read_previous_is_free, read_bit
    <3> QED BY <3>3, <3>4, <3>7, <3>8 DEF Loosened
  <2> QED BY <1>5, <2>2, <2>3
<1> QED BY <1>3, <1>6, <1>7, <1>8, <1>11 DEF P, N, m1, m2, lo, hi

-----------------------------------------------------------------------------
(* One block or two take the place of those from lo to hi.                 *)

LEMMA BecomesIs ==
  ASSUME NEW new, Becomes(new)
  PROVE  /\ told' = Recut(new, told)
         /\ \A a \in DOMAIN new : EightAligned(a) \/ new[a].length >= Shortest
BY DEF Becomes, Recut, Blocks

LEMMA OneBecomes ==
  ASSUME IInv, NEW lo, NEW hi, Whole(lo, hi), NEW r \in Records, lo + r.length = hi,
         Fitting(lo, r.length), Good(mem', lo, r), Within(mem', mem, Addresses, lo, hi),
         told' = Recut(One(lo, r), told), UNCHANGED area
  PROVE  IInv'
<1>1. /\ lo \in Blocks /\ lo \in Nat /\ hi \in Nat /\ lo < hi /\ hi <= area[2]
      /\ hi = area[2] \/ hi \in Blocks
  BY DEF Whole
<1> DEFINE new == One(lo, r)
<1>2. Spans(new, lo, hi) /\ AllGood(mem', new)
  BY <1>1, OneSpans
<1>3. told' = Recut(new, told)
  OBVIOUS
<1> HIDE DEF new
<1> QED BY <1>1, <1>2, <1>3, BecomesGood

LEMMA TwoBecome ==
  ASSUME IInv, NEW lo, NEW hi, Whole(lo, hi), NEW mid \in Nat, NEW r \in Records, NEW s \in Records,
         lo + r.length = mid, mid + s.length = hi, Fitting(lo, r.length), Fitting(mid, s.length),
         Good(mem', lo, r), Good(mem', mid, s), Within(mem', mem, Addresses, lo, hi),
         told' = Recut(Two(lo, r, mid, s), told) \/ told' = Recut(Two(mid, s, lo, r), told),
         UNCHANGED area
  PROVE  IInv'
<1>1. /\ lo \in Blocks /\ lo \in Nat /\ hi \in Nat /\ lo < hi /\ hi <= area[2]
      /\ hi = area[2] \/ hi \in Blocks
  BY DEF Whole
<1>2. /\ Spans(Two(lo, r, mid, s), lo, hi) /\ AllGood(mem', Two(lo, r, mid, s))
      /\ Spans(Two(mid, s, lo, r), lo, hi) /\ AllGood(mem', Two(mid, s, lo, r))
  BY <1>1, TwoSpan
<1>3. PICK new : Spans(new, lo, hi) /\ AllGood(mem', new) /\ told' = Recut(new, told)
  BY <1>2
<1> QED BY <1>1, <1>3, BecomesGood

-----------------------------------------------------------------------------
(* Every step keeps the invariant.                                         *)

LEMMA InitHolds == Init => IInv
<1> SUFFICES ASSUME Init
             PROVE  IInv
  OBVIOUS
<1> DEFINE A == area[1]
           L == area[2] - area[1]
           D == A .. area[2] + 3
<1>1. /\ area \in Areas /\ A \in Numbers /\ area[2] \in Numbers /\ A \in Nat /\ area[2] \in Nat
      /\ A % 4 = 0 /\ area[2] % 4 = 0 /\ area[2] >= A + 20
  BY AreaIs DEF Init
<1>2. PICK fill \in Fills, n \in Nodes :
        /\ mem = rb_insert(TellNext(init_block([x \in D |-> fill], A, L, 1, 0), A, 1), A, n)
        /\ told = One(A, Free(L, n))
  BY DEF Init
<1> DEFINE m == [x \in D |-> fill]
<1>3. m \in [D -> Bytes]
  <2>1. fill \in Bytes
    BY FillsAssumption DEF Bytes
  <2> QED BY <2>1
<1>4. Fitting(A, L) /\ L \in Nat /\ A + L = area[2]
  <2>1. L \in Nat /\ L % 4 = 0 /\ L >= 20 /\ L <= area[2] /\ A + L = area[2]
    BY <1>1
  <2>2. L \in Numbers
    BY SMT, <1>1, <2>1, NumbersAre
  <2> QED BY <1>1, <2>1, <2>2 DEF Fitting
<1>5. D \in SUBSET Nat /\ A .. A + L + 3 \subseteq D /\ 0 \in Bits
  BY <1>1, <1>4 DEF Bits
<1> HIDE DEF m, L, A, D
<1>6. Good(mem, A, Free(L, n)) /\ Inside(mem, m, D, A, A + L) /\ read_previous_is_free(mem, A) = 0
  BY <1>2, <1>3, <1>4, <1>5, FreeFormed DEF m
<1>7. Free(L, n) \in Records /\ Free(L, n).length = L
  BY <1>4, FreeIs DEF Fitting
<1>8. DOMAIN told = {A} /\ told[A] = Free(L, n)
  BY <1>2 DEF One
<1>9. Tiled(A, area[2], told)
  BY <1>1, <1>4, <1>7, <1>8 DEF Tiled
<1>10. AllGood(mem, told)
  BY <1>6, <1>8 DEF AllGood
<1>11. told \in [DOMAIN told -> Records]
  BY <1>2, <1>7, <1>8 DEF One
<1> QED BY <1>1, <1>6, <1>9, <1>10, <1>11 DEF IInv, Inside, A, D

LEMMA InUseIs ==
  ASSUME IInv, NEW a \in InUse
  PROVE  /\ a \in Blocks /\ told[a].is_free = 0 /\ told[a] \in GivenRecords
         /\ told[a].fill \in Bytes /\ told[a].kept \in Nat /\ told[a].kept <= told[a].length - 12
         /\ KeptBytes(mem, a, told[a].fill, told[a].kept)
<1>1. a \in Blocks /\ told[a].is_free # 1
  BY DEF InUse, IsFree
<1>2. told[a] \in Records /\ Good(mem, a, told[a])
  BY <1>1, InvFacts
<1>3. told[a].is_free = 0
  BY <1>1, <1>2, RecordIs DEF Bits
<1> QED BY <1>1, <1>2, <1>3, RecordIs DEF Good

LEMMA WriteHolds ==
  ASSUME IInv, NEW a \in InUse, NEW fill \in Fills, Write(a, fill)
  PROVE  IInv'
<1> DEFINE L == told[a].length
           p == get_block_payload(a)
           r == Given(L, fill, L - 12)
<1>1. /\ a \in Blocks /\ told[a].is_free = 0 /\ told[a] \in GivenRecords
  BY InUseIs
<1>2. /\ a \in Nat /\ L \in Nat /\ L >= 16 /\ L \in Numbers /\ Fitting(a, L) /\ Addresses \in SUBSET Nat
      /\ mem \in [Addresses -> Bytes] /\ a .. a + L + 3 \subseteq Addresses /\ Good(mem, a, told[a])
  BY <1>1, InvFacts DEF Fitting
<1>3. fill \in Bytes /\ fill \in Nat
  BY FillsAssumption DEF Bytes
<1>4. r \in Records /\ r.length = L /\ r.is_free = 0
  BY <1>2, <1>3, GivenIs
<1>5. told' = [told EXCEPT ![a] = r]
  BY DEF Write
<1>6. told' = Recut(One(a, r), told)
  BY <1>1, <1>4, <1>5, RecutAlone
<1>7. p \in {a + 8, a + 12} /\ p = TypeAt(a) + 1 /\ TypeAt(a) \in Nat /\ Payload(a) = p .. p + L - 13
  BY <1>2, FittingIs, PayloadIs DEF Payload
<1> HIDE DEF r, L, p
<1>8. mem' = [x \in Addresses |-> IF x \in Payload(a) THEN Written(fill, x - p) ELSE mem[x]]
  BY <1>2 DEF Write, p
<1>9. \A k \in Int : Written(fill, k) \in Bytes
  BY <1>3 DEF Written, Bytes
<1>10. /\ mem' \in [Addresses -> Bytes]
       /\ \A x \in Addresses : x \notin Payload(a) => mem'[x] = mem[x]
       /\ \A x \in Addresses : x \in Payload(a) => mem'[x] = Written(fill, x - p)
  <2>1. \A x \in Addresses : x \in Nat /\ (x \in Payload(a) => x - p \in Int)
    BY <1>2, <1>7
  <2> QED BY <1>2, <1>8, <1>9, <2>1
<1>11. \A x \in Nat : x < p \/ x >= a + L => x \notin Payload(a)
  BY <1>2, <1>7
<1>12. KeptBytes(mem', a, fill, L - 12)
  <2> SUFFICES ASSUME NEW k \in 0 .. L - 12 - 1
               PROVE  mem'[p + k] = Written(fill, k)
    BY DEF KeptBytes, p
  <2>1. k \in Nat /\ k <= L - 13 /\ p \in Nat
    BY <1>2, <1>7
  <2>2. p + k \in Payload(a) /\ (p + k) - p = k
    <3>1. Payload(a) = p .. p + L - 13
      BY <1>7
    <3>2. p + k >= p /\ p + k <= p + L - 13 /\ p + k \in Int /\ (p + k) - p = k
      BY <1>2, <2>1
    <3>3. p \in Int /\ p + L - 13 \in Int
      BY <1>2, <2>1
    <3> QED BY <3>1, <3>2, <3>3
  <2>3. p + k \in a .. a + L + 3
    BY <1>2, <1>7, <2>1
  <2> QED BY <1>2, <1>10, <2>2, <2>3
<1>13. Headed(mem', a, L, 0) /\ TypeBit(mem', a)
  <2>1. Headed(mem, a, L, 0) /\ TypeBit(mem, a)
    BY <1>1, <1>2 DEF Good, L
  <2>2. /\ \A x \in {a, a + 1, a + 2} : x \in a .. a + L + 3 /\ x < p /\ x \in Nat
        /\ TypeAt(a) \in a .. a + L + 3 /\ TypeAt(a) < p /\ TypeAt(a) \in Nat
    BY <1>2, <1>7
  <2>3. \A x \in {a, a + 1, a + 2, TypeAt(a)} : x \in Addresses /\ mem'[x] = mem[x]
    BY <1>2, <1>10, <1>11, <2>2
  <2>4. read_24_transformed(mem', a) = read_24_transformed(mem, a)
    BY <1>2, <1>10, <2>3, ReadsAreKept
  <2>5. read_bit(mem', a) = read_bit(mem, a) /\ read_bit(mem', TypeAt(a)) = read_bit(mem, TypeAt(a))
    BY <2>3 DEF read_bit
  <2> QED BY <2>1, <2>4, <2>5 DEF Headed, TypeBit, get_block_length, get_block_is_free
<1>14. /\ mem'[a + 3] = mem[a + 3] /\ mem'[a + L + 3] = mem[a + L + 3]
       /\ \A x \in Addresses : x \notin a .. a + L - 1 => mem'[x] = mem[x]
  <2>1. /\ a + 3 \in a .. a + L + 3 /\ a + 3 < p /\ a + L + 3 \in a .. a + L + 3 /\ a + L + 3 >= a + L
        /\ \A x \in Nat : x \notin a .. a + L - 1 => x < p \/ x >= a + L
    BY <1>2, <1>7
  <2> QED BY <1>2, <1>10, <1>11, <2>1
<1>15. Good(mem', a, r)
  <2>1. read_previous_is_free(mem', a + L) = 0
    BY <1>1, <1>2, <1>14 DEF Good, read_previous_is_free, read_bit, L
  <2>2. r.fill = fill /\ r.kept = L - 12 /\ r.length = L
    BY DEF r, Given
  <2> QED BY <1>4, <1>12, <1>13, <2>1, <2>2 DEF Good
<1>16. Within(mem', mem, Addresses, a, a + L)
  BY <1>2, <1>10, <1>14 DEF Within, read_previous_is_free, read_bit
<1>17. Whole(a, a + L)
  BY <1>1, <1>2, WholeIs DEF End, L
<1>18. UNCHANGED area
  BY DEF Write
<1> QED BY <1>2, <1>4, <1>6, <1>15, <1>16, <1>17, <1>18, OneBecomes

LEMMA RelinkHolds ==
  ASSUME IInv, NEW a \in Blocks, NEW n \in Nodes, Relink(a, n)
  PROVE  IInv'
<1> DEFINE L == told[a].length
           r == Free(L, n)
<1>1. /\ a \in Nat /\ L \in Nat /\ L >= 16 /\ L \in Numbers /\ Fitting(a, L) /\ Addresses \in SUBSET Nat
      /\ mem \in [Addresses -> Bytes] /\ a .. a + L + 3 \subseteq Addresses /\ Good(mem, a, told[a])
      /\ told[a] \in Records /\ told[a].is_free = 1
  BY InvFacts DEF Fitting, Relink, IsFree
<1>2. told[a] \in FreeRecords
  BY <1>1, RecordIs
<1>3. r \in Records /\ r.length = L
  BY <1>1, FreeIs
<1>4. told' = [told EXCEPT ![a] = r]
  <2>1. [told[a] EXCEPT !.node = n] = r
    BY <1>2 DEF FreeRecords, Free
  <2>2. told' = [told EXCEPT ![a] = [told[a] EXCEPT !.node = n]]
    BY DEF Relink, Blocks
  <2> QED BY <2>1, <2>2
<1>5. told' = Recut(One(a, r), told)
  BY <1>3, <1>4, RecutAlone
<1>6. Headed(mem, a, L, 1) /\ read_previous_is_free(mem, a + L) = 1
  BY <1>1 DEF Good
<1> HIDE DEF r, L
<1>7. mem' = rb_insert(mem, a, n) /\ UNCHANGED area
  BY DEF Relink
<1>8. /\ Good(mem', a, r) /\ Outside(mem', mem, Addresses, a + 3 .. a + L - 1)
      /\ read_previous_is_free(mem', a) = read_previous_is_free(mem, a)
  BY <1>1, <1>6, <1>7, NodeMakesGood DEF r
<1>9. Within(mem', mem, Addresses, a, a + L)
  <2>1. a + L + 3 \in Addresses /\ a + L \in Nat /\ a + 3 .. a + L - 1 \subseteq a .. a + L - 1
    BY <1>1, BlockIn
  <2>2. Inside(mem', mem, Addresses, a, a + L)
    BY <1>1, <1>8, <2>1, OutsideInside
  <2> QED BY <1>8, <2>2, WithinIs
<1>10. Whole(a, a + L)
  BY <1>1, WholeIs DEF End, L
<1> QED BY <1>1, <1>3, <1>5, <1>7, <1>8, <1>9, <1>10, OneBecomes

-----------------------------------------------------------------------------
(* A free block is cut, and one part given out.                            *)

LEMMA PartedLow ==
  ASSUME NEW D, NEW a, NEW M, NEW b, NEW N, NEW c, Pair(D, a, M, b, N, c),
         NEW m \in [D -> Bytes], NEW n \in Nodes,
         Headed(m, a, M, 1), TypeBit(m, a), Headed(m, b, N, 1), read_previous_is_free(m, c) = 1
  PROVE  LET r == set_block_is_free(rb_insert(m, b, n), a, 0)
         IN  /\ Good(r, a, Given(M, 0, 0)) /\ Good(r, b, Free(N, n)) /\ Inside(r, m, D, a, c)
             /\ read_previous_is_free(r, a) = read_previous_is_free(m, a)
<1> DEFINE k == rb_insert(m, b, n)
           r == set_block_is_free(k, a, 0)
<1>1. /\ D \in SUBSET Nat /\ Fitting(a, M) /\ Fitting(b, N) /\ b = a + M /\ c = b + N
      /\ a \in Nat /\ M \in Nat /\ M >= 16 /\ b \in Nat /\ N \in Nat /\ N >= 16 /\ c \in Nat
      /\ a .. a + M + 3 \subseteq D /\ b .. b + N + 3 \subseteq D
      /\ a + 3 \in D /\ b + 3 \in D /\ c + 3 \in D
  BY PairIs
<1>2. /\ Good(k, b, Free(N, n)) /\ Outside(k, m, D, b + 3 .. b + N - 1)
  BY <1>1, NodeMakesGood
<1> HIDE DEF k
<1>3. k \in [D -> Bytes] /\ \A x \in D : x \notin b + 3 .. b + N - 1 => k[x] = m[x]
  BY <1>2 DEF Outside
<1>4. \A x \in a .. a + M - 1 : k[x] = m[x]
  <2> SUFFICES ASSUME NEW x \in a .. a + M - 1
               PROVE  k[x] = m[x]
    OBVIOUS
  <2>1. x \in a .. a + M + 3 /\ x \notin b + 3 .. b + N - 1
    BY <1>1
  <2> QED BY <1>1, <1>3, <2>1
<1>5. Headed(k, a, M, 1) /\ TypeBit(k, a)
  BY <1>1, <1>3, <1>4, HeaderKept
<1>6. get_block_length(k, a) = M
  BY <1>5 DEF Headed
<1>7. /\ Good(r, a, Given(M, 0, 0)) /\ Inside(r, k, D, a, b)
      /\ read_previous_is_free(r, a) = read_previous_is_free(k, a)
  BY <1>1, <1>3, <1>5, <1>6, GivenOut
<1> HIDE DEF r
<1>8. /\ r \in [D -> Bytes] /\ r[b + 3] \div 2 = k[b + 3] \div 2
      /\ \A x \in D : x \notin a .. b - 1 /\ x # b + 3 => r[x] = k[x]
  BY <1>7 DEF Inside
<1>9. Good(r, b, Free(N, n))
  <2>1. \A x \in b .. b + N + 3 : x # b + 3 => r[x] = k[x]
    <3> SUFFICES ASSUME NEW x \in b .. b + N + 3, x # b + 3
                 PROVE  r[x] = k[x]
      OBVIOUS
    <3>1. x \in D /\ x \notin a .. b - 1
      BY <1>1
    <3> QED BY <1>8, <3>1
  <2>2. SameBlock(r, k, b, N)
    <3>1. r[b + N + 3] = k[b + N + 3]
      BY <1>1, <2>1
    <3> QED BY <1>1, <1>8, <2>1, <3>1 DEF SameBlock, read_previous_is_free, read_bit
  <2>3. Free(N, n) \in Records /\ Free(N, n).length = N
    BY <1>1, FreeIs DEF Fitting
  <2> QED BY <1>1, <1>2, <1>3, <1>8, <2>2, <2>3, GoodKept
<1>10. Inside(r, m, D, a, c)
  <2>1. b + 3 .. b + N - 1 \subseteq a .. c - 1
    BY <1>1
  <2>2. Inside(k, m, D, a, c)
    BY <1>1, <1>2, <2>1, OutsideInside
  <2>3. a <= a /\ a < b /\ b + 4 <= c
    BY <1>1
  <2>4. Inside(r, k, D, a, c)
    BY <1>1, <1>7, <2>3, InsideMore
  <2> QED BY <2>2, <2>4, InsideTwice
<1>11. k[a + 3] = m[a + 3]
  BY <1>1, <1>4
<1> QED BY <1>7, <1>9, <1>10, <1>11 DEF k, r, read_previous_is_free, read_bit

LEMMA PartedHigh ==
  ASSUME NEW D, NEW a, NEW M, NEW b, NEW N, NEW c, Pair(D, a, M, b, N, c),
         NEW m \in [D -> Bytes], NEW n \in Nodes,
         Headed(m, a, M, 1), read_previous_is_free(m, b) = 1, Headed(m, b, N, 1), TypeBit(m, b)
  PROVE  LET r == set_block_is_free(rb_insert(m, a, n), b, 0)
         IN  /\ Good(r, a, Free(M, n)) /\ Good(r, b, Given(N, 0, 0)) /\ Inside(r, m, D, a, c)
             /\ read_previous_is_free(r, a) = read_previous_is_free(m, a)
<1> DEFINE k == rb_insert(m, a, n)
           r == set_block_is_free(k, b, 0)
<1>1. /\ D \in SUBSET Nat /\ Fitting(a, M) /\ Fitting(b, N) /\ b = a + M /\ c = b + N
      /\ a \in Nat /\ M \in Nat /\ M >= 16 /\ b \in Nat /\ N \in Nat /\ N >= 16 /\ c \in Nat
      /\ a .. a + M + 3 \subseteq D /\ b .. b + N + 3 \subseteq D
      /\ a + 3 \in D /\ b + 3 \in D /\ c + 3 \in D
  BY PairIs
<1>2. /\ Good(k, a, Free(M, n)) /\ Outside(k, m, D, a + 3 .. a + M - 1)
      /\ read_previous_is_free(k, a) = read_previous_is_free(m, a)
  BY <1>1, NodeMakesGood
<1> HIDE DEF k
<1>3. k \in [D -> Bytes] /\ \A x \in D : x \notin a + 3 .. a + M - 1 => k[x] = m[x]
  BY <1>2 DEF Outside
<1>4. \A x \in b .. b + N - 1 : k[x] = m[x]
  <2> SUFFICES ASSUME NEW x \in b .. b + N - 1
               PROVE  k[x] = m[x]
    OBVIOUS
  <2>1. x \in b .. b + N + 3 /\ x \notin a + 3 .. a + M - 1
    BY <1>1
  <2> QED BY <1>1, <1>3, <2>1
<1>5. Headed(k, b, N, 1) /\ TypeBit(k, b)
  BY <1>1, <1>3, <1>4, HeaderKept
<1>6. get_block_length(k, b) = N
  BY <1>5 DEF Headed
<1>7. /\ Good(r, b, Given(N, 0, 0)) /\ Inside(r, k, D, b, c)
      /\ read_previous_is_free(r, b) = read_previous_is_free(k, b)
  BY <1>1, <1>3, <1>5, <1>6, GivenOut
<1> HIDE DEF r
<1>8. /\ r \in [D -> Bytes]
      /\ \A x \in D : x \notin b .. c - 1 /\ x # c + 3 => r[x] = k[x]
  BY <1>7 DEF Inside
<1>9. \A x \in a .. a + M - 1 : r[x] = k[x]
  <2> SUFFICES ASSUME NEW x \in a .. a + M - 1
               PROVE  r[x] = k[x]
    OBVIOUS
  <2>1. x \in a .. a + M + 3 /\ x \notin b .. c - 1 /\ x # c + 3
    BY <1>1
  <2> QED BY <1>1, <1>8, <2>1
<1>10. Good(r, a, Free(M, n))
  <2>1. r[a + 3] = k[a + 3]
    BY <1>1, <1>9
  <2>2. SameBlock(r, k, a, M)
    BY <1>1, <1>7, <1>9, <2>1 DEF SameBlock
  <2>3. Free(M, n) \in Records /\ Free(M, n).length = M
    BY <1>1, FreeIs DEF Fitting
  <2> QED BY <1>1, <1>2, <1>3, <1>8, <2>2, <2>3, GoodKept
<1>11. Inside(r, m, D, a, c)
  <2>1. a + 3 .. a + M - 1 \subseteq a .. c - 1
    BY <1>1
  <2>2. Inside(k, m, D, a, c)
    BY <1>1, <1>2, <2>1, OutsideInside
  <2>3. a <= b /\ b < c /\ c = c
    BY <1>1
  <2>4. Inside(r, k, D, a, c)
    BY <1>1, <1>7, <2>3, InsideMore
  <2> QED BY <2>2, <2>4, InsideTwice
<1>12. read_previous_is_free(r, a) = read_previous_is_free(m, a)
  <2>1. r[a + 3] = k[a + 3]
    BY <1>1, <1>9
  <2> QED BY <1>2, <2>1 DEF read_previous_is_free, read_bit
<1> QED BY <1>7, <1>10, <1>11, <1>12 DEF k, r

(* A free block is found and deleted from the tree.                        *)
LEMMA AloneIs ==
  ASSUME IInv, NEW a \in Blocks, IsFree(a)
  PROVE  LET m == rb_delete(mem, a)
         IN  /\ m \in [Addresses -> Bytes] /\ get_block_length(m, a) = told[a].length /\ TypeBit(m, a)
             /\ Inside(m, mem, Addresses, a, End(a))
             /\ read_previous_is_free(m, a) = read_previous_is_free(mem, a)
<1> DEFINE m == rb_delete(mem, a)
           L == told[a].length
<1>1. /\ a \in Nat /\ L \in Nat /\ L >= 16 /\ Addresses \in SUBSET Nat /\ mem \in [Addresses -> Bytes]
      /\ a .. a + L + 3 \subseteq Addresses /\ Good(mem, a, told[a]) /\ Fitting(a, L)
      /\ End(a) = a + L /\ End(a) \in Nat /\ a <= a
  BY InvFacts DEF End
<1>2. End(a) + 3 \in Addresses /\ \A x \in a .. a + L + 3 : x \in Addresses
  BY <1>1
<1>3. /\ m \in [Addresses -> Bytes] /\ Inside(m, mem, Addresses, a, End(a))
      /\ Outside(m, mem, Addresses, a + 3 .. a + 5)
      /\ read_previous_is_free(m, a) = read_previous_is_free(mem, a)
  BY <1>1, <1>2, LooseOne
<1> HIDE DEF m, L
<1>4. /\ \A x \in {a, a + 1, a + 2, TypeAt(a)} : x \in a .. a + L + 3 /\ x \notin a + 3 .. a + 5
  BY <1>1, FittingIs
<1>5. \A x \in {a, a + 1, a + 2, TypeAt(a)} : x \in Addresses /\ m[x] = mem[x]
  BY <1>2, <1>3, <1>4 DEF Outside
<1>6. read_24_transformed(m, a) = read_24_transformed(mem, a)
  <2>1. Addresses \in SUBSET Nat /\ mem \in [Addresses -> Bytes] /\ m \in [Addresses -> Bytes]
    BY <1>1, <1>3
  <2>2. {a, a + 1, a + 2} \subseteq Addresses /\ \A x \in {a, a + 1, a + 2} : m[x] = mem[x]
    BY <1>5
  <2> QED BY <2>1, <2>2, ReadsAreKept
<1>7. read_bit(m, TypeAt(a)) = read_bit(mem, TypeAt(a))
  BY <1>5 DEF read_bit
<1> QED BY <1>1, <1>3, <1>6, <1>7 DEF Good, Headed, TypeBit, get_block_length, m, L

LEMMA NewIs ==
  ASSUME NEW L \in Numbers, L \in Nat, L >= 12
  PROVE  Given(L, 0, 0) \in Records /\ Given(L, 0, 0).length = L
<1>1. 0 \in Bytes /\ 0 \in Nat /\ 0 <= L - 12
  BY DEF Bytes
<1> QED BY <1>1, GivenIs

LEMMA MallocHolds ==
  ASSUME LongEnough, IInv, NEW n \in Nodes, NEW length \in Lengths, mm_malloc(length, n)
  PROVE  IInv'
<1>1. PICK found \in BestFits(length) :
        LET alone  == rb_delete(mem, found)
            total  == get_block_length(alone, found)
            atEnd  == length - 12 > 64
            first  == IF atEnd THEN total - length ELSE length
            block  == IF atEnd THEN found + total - length ELSE found
            rest   == IF atEnd THEN found ELSE found + length
        IN  /\ IF total < length + MINIMAL_BLOCK_SIZE
               THEN /\ mem' = set_block_is_free(alone, found, 0)
                    /\ Becomes(One(found, Given(total, 0, 0)))
               ELSE /\ LET parted == Cut(alone, found, first, found + total, 1)
                       IN  mem' = set_block_is_free(rb_insert(parted, rest, n), block, 0)
                    /\ Becomes(Two(block, Given(length, 0, 0), rest, Free(total - length, n)))
            /\ UNCHANGED area
  BY DEF mm_malloc
<1> DEFINE alone == rb_delete(mem, found)
           total == told[found].length
           D     == Addresses
<1>2. found \in Blocks /\ IsFree(found) /\ total >= length
  BY DEF BestFits
<1>3. /\ alone \in [D -> Bytes] /\ get_block_length(alone, found) = total /\ TypeBit(alone, found)
      /\ Inside(alone, mem, D, found, found + total)
      /\ read_previous_is_free(alone, found) = read_previous_is_free(mem, found)
  BY <1>2, AloneIs DEF End
<1>4. /\ found \in Nat /\ total \in Nat /\ total >= 16 /\ D \in SUBSET Nat /\ Fitting(found, total)
      /\ found .. found + total + 3 \subseteq D /\ total \in Numbers /\ total % 4 = 0
      /\ found + total \in Nat /\ found + total <= area[2] /\ area[2] \in Numbers
  BY <1>2, InvFacts DEF Fitting
<1>5. Whole(found, found + total) /\ found % 4 = 0
  <2>1. Whole(found, found + total)
    BY <1>2, <1>4, WholeIs DEF End
  <2> QED BY <2>1 DEF Whole
<1>6. UNCHANGED area
  BY <1>1
<1>7. length \in Nat /\ length % 4 = 0 /\ length >= 16
  BY LengthsAssumption
<1> HIDE DEF alone, total, D
<1>8. CASE total < length + MINIMAL_BLOCK_SIZE
  <2> DEFINE r == Given(total, 0, 0)
  <2>1. mem' = set_block_is_free(alone, found, 0) /\ Becomes(One(found, r))
    BY <1>1, <1>3, <1>8 DEF alone
  <2>2. told' = Recut(One(found, r), told)
    BY <2>1, BecomesIs
  <2>3. r \in Records /\ r.length = total
    BY <1>4, NewIs
  <2> HIDE DEF r
  <2>4. /\ Good(mem', found, r) /\ Inside(mem', alone, D, found, found + total)
        /\ read_previous_is_free(mem', found) = read_previous_is_free(alone, found)
    BY <1>3, <1>4, <2>1, GivenOut DEF r
  <2>5. Within(mem', mem, D, found, found + total)
    BY <1>3, <2>4, InsideTwice, WithinIs
  <2> QED BY <1>4, <1>5, <1>6, <2>2, <2>3, <2>4, <2>5, OneBecomes DEF D
<1>9. CASE ~ (total < length + MINIMAL_BLOCK_SIZE)
  <2> DEFINE left == total - length
  <2>1. /\ left \in Nat /\ left % 4 = 0 /\ left >= 15 /\ left + length = total /\ length + left = total
        /\ found + total - length = found + left
    BY <1>4, <1>7, <1>9 DEF MINIMAL_BLOCK_SIZE
  <2> HIDE DEF left
  <2>2. CASE length - 12 > 64
    <3> DEFINE b      == found + left
               c      == found + total
               parted == Cut(alone, found, left, c, 1)
               r      == Free(left, n)
               s      == Given(length, 0, 0)
    <3>1. mem' = set_block_is_free(rb_insert(parted, found, n), b, 0) /\ Becomes(Two(b, s, found, r))
      <4>1. total - length = left
        BY DEF left
      <4> QED BY <1>1, <1>3, <1>9, <2>1, <2>2, <4>1 DEF alone
    <3>2. b \in Nat /\ b % 4 = 0 /\ c = b + length /\ c = found + left + length /\ c \in Nat /\ b <= c
          /\ c <= area[2] /\ found + left <= area[2] /\ b + length <= area[2] /\ area[2] \in Nat
      <4>1. area[2] \in Nat
        BY <1>4, NumbersAre
      <4> QED BY <1>4, <1>5, <1>7, <2>1, <4>1
    <3> HIDE DEF b, c
    <3>3. EightAligned(b) \/ length >= Shortest
      <4>1. b \in DOMAIN Two(b, s, found, r) /\ Two(b, s, found, r)[b] = s /\ s.length = length
        BY DEF Two, Given
      <4> QED BY <3>1, <4>1, BecomesIs
    <3>4. EightAligned(found) \/ left >= Shortest
      <4>1. found # b
        BY <1>4, <2>1 DEF b
      <4>2. found \in DOMAIN Two(b, s, found, r) /\ Two(b, s, found, r)[found] = r /\ r.length = left
        BY <4>1 DEF Two, Free
      <4> QED BY <3>1, <4>2, BecomesIs
    <3>5. Fitting(found, left) /\ left \in Numbers
      BY <1>4, <1>5, <2>1, <3>2, <3>4, NewFits
    <3>6. Fitting(b, length) /\ length \in Numbers
      <4>1. length >= 15
        BY <1>7
      <4> QED BY <1>4, <1>7, <3>2, <3>3, <4>1, NewFits
    <3>7. /\ r \in Records /\ r.length = left /\ s \in Records /\ s.length = length
      BY <1>7, <3>5, <3>6, FreeIs, NewIs
    <3> HIDE DEF r, s, parted
    <3>8. Pair(D, found, left, b, length, c)
      <4>1. found .. c + 3 \subseteq D
        BY <1>4 DEF c
      <4> QED BY <1>4, <3>2, <3>5, <3>6, <4>1 DEF Pair, b
    <3>9. /\ Inside(parted, alone, D, found, c)
          /\ Headed(parted, found, left, 1) /\ read_previous_is_free(parted, b) = 1
          /\ read_previous_is_free(parted, found) = read_previous_is_free(alone, found)
          /\ Headed(parted, b, length, 1) /\ TypeBit(parted, b)
      BY <1>3, <3>8, CutIs DEF parted, Parted, Bits
    <3>10. parted \in [D -> Bytes]
      BY <3>9 DEF Inside
    <3>11. /\ Good(mem', found, r) /\ Good(mem', b, s) /\ Inside(mem', parted, D, found, c)
           /\ read_previous_is_free(mem', found) = read_previous_is_free(parted, found)
      BY <3>1, <3>8, <3>9, <3>10, PartedHigh DEF r, s
    <3>12. Within(mem', mem, D, found, c)
      <4>1. Inside(alone, mem, D, found, c)
        BY <1>3 DEF c
      <4>2. Inside(mem', mem, D, found, c)
        BY <3>9, <3>11, <4>1, InsideTwice
      <4> QED BY <1>3, <3>9, <3>11, <4>2, WithinIs
    <3>13. told' = Recut(Two(b, s, found, r), told)
      BY <3>1, BecomesIs DEF r, s
    <3>14. Whole(found, c) /\ found + r.length = b /\ b + s.length = c
           /\ Fitting(found, r.length) /\ Fitting(b, s.length)
      BY <1>5, <3>2, <3>5, <3>6, <3>7 DEF b, c
    <3> QED BY <1>6, <3>2, <3>7, <3>11, <3>12, <3>13, <3>14, TwoBecome DEF D
  <2>3. CASE ~ (length - 12 > 64)
    <3> DEFINE b      == found + length
               c      == found + total
               parted == Cut(alone, found, length, c, 1)
               r      == Given(length, 0, 0)
               s      == Free(left, n)
    <3>1. mem' = set_block_is_free(rb_insert(parted, b, n), found, 0) /\ Becomes(Two(found, r, b, s))
      <4>1. total - length = left
        BY DEF left
      <4> QED BY <1>1, <1>3, <1>9, <2>1, <2>3, <4>1 DEF alone
    <3>2. b \in Nat /\ b % 4 = 0 /\ c = b + left /\ c = found + length + left /\ c \in Nat /\ b <= c
          /\ c <= area[2] /\ found + length <= area[2] /\ b + left <= area[2] /\ area[2] \in Nat
      <4>1. area[2] \in Nat
        BY <1>4, NumbersAre
      <4> QED BY <1>4, <1>5, <1>7, <2>1, <4>1
    <3> HIDE DEF b, c
    <3>3. EightAligned(found) \/ length >= Shortest
      <4>1. found \in DOMAIN Two(found, r, b, s) /\ Two(found, r, b, s)[found] = r /\ r.length = length
        BY DEF Two, Given
      <4> QED BY <3>1, <4>1, BecomesIs
    <3>4. EightAligned(b) \/ left >= Shortest
      <4>1. found # b
        BY <1>4, <1>7 DEF b
      <4>2. b \in DOMAIN Two(found, r, b, s) /\ Two(found, r, b, s)[b] = s /\ s.length = left
        BY <4>1 DEF Two, Free
      <4> QED BY <3>1, <4>2, BecomesIs
    <3>5. Fitting(found, length) /\ length \in Numbers
      <4>1. length >= 15
        BY <1>7
      <4> QED BY <1>4, <1>5, <1>7, <3>2, <3>3, <4>1, NewFits
    <3>6. Fitting(b, left) /\ left \in Numbers
      BY <1>4, <2>1, <3>2, <3>4, NewFits
    <3>7. /\ r \in Records /\ r.length = length /\ s \in Records /\ s.length = left
      BY <1>7, <3>5, <3>6, FreeIs, NewIs
    <3> HIDE DEF r, s, parted
    <3>8. Pair(D, found, length, b, left, c)
      <4>1. found .. c + 3 \subseteq D
        BY <1>4 DEF c
      <4> QED BY <1>4, <3>2, <3>5, <3>6, <4>1 DEF Pair, b
    <3>9. /\ Inside(parted, alone, D, found, c)
          /\ Headed(parted, found, length, 1) /\ TypeBit(parted, found)
          /\ read_previous_is_free(parted, found) = read_previous_is_free(alone, found)
          /\ Headed(parted, b, left, 1) /\ read_previous_is_free(parted, c) = 1
      BY <1>3, <3>8, CutIs DEF parted, Parted, Bits
    <3>10. parted \in [D -> Bytes]
      BY <3>9 DEF Inside
    <3>11. /\ Good(mem', found, r) /\ Good(mem', b, s) /\ Inside(mem', parted, D, found, c)
           /\ read_previous_is_free(mem', found) = read_previous_is_free(parted, found)
      BY <3>1, <3>8, <3>9, <3>10, PartedLow DEF r, s
    <3>12. Within(mem', mem, D, found, c)
      <4>1. Inside(alone, mem, D, found, c)
        BY <1>3 DEF c
      <4>2. Inside(mem', mem, D, found, c)
        BY <3>9, <3>11, <4>1, InsideTwice
      <4> QED BY <1>3, <3>9, <3>11, <4>2, WithinIs
    <3>13. told' = Recut(Two(found, r, b, s), told)
      BY <3>1, BecomesIs DEF r, s
    <3>14. Whole(found, c) /\ found + r.length = b /\ b + s.length = c
           /\ Fitting(found, r.length) /\ Fitting(b, s.length)
      BY <1>5, <3>2, <3>5, <3>6, <3>7 DEF b, c
    <3> QED BY <1>6, <3>2, <3>7, <3>11, <3>12, <3>13, <3>14, TwoBecome DEF D
  <2> QED BY <2>2, <2>3
<1> QED BY <1>8, <1>9

-----------------------------------------------------------------------------
(* A block is freed.                                                       *)

LEMMA FreeHolds ==
  ASSUME LongEnough, IInv, NEW n \in Nodes, NEW a \in InUse, mm_free(get_block_payload(a), n)
  PROVE  IInv'
<1> DEFINE prev   == get_previous_block_if_free(mem, a)
           next   == get_next_block_if_free(mem, a)
           loose  == Delete(Delete(mem, prev), next)
           lo     == a - LengthOf(mem, prev)
           hi     == End(a) + LengthOf(mem, next)
           length == LengthOf(mem, prev) + told[a].length + LengthOf(mem, next)
           D      == Addresses
           r      == Free(length, n)
<1>1. a \in Blocks
  BY InUseIs
<1>2. get_payload_block(mem, get_block_payload(a)) = a /\ get_block_length(mem, a) = told[a].length
  BY <1>1, BlockIs
<1>3. /\ mem' = rb_insert(IF length = told[a].length THEN set_block_is_free(loose, a, 1)
                          ELSE TellNext(init_block(loose, lo, length, 1,
                                                   read_previous_is_free(loose, lo)), lo, 1), lo, n)
      /\ Becomes(One(lo, r))
      /\ UNCHANGED area
  BY <1>2 DEF mm_free
<1>4. PreviousIs(a, prev) /\ NextIs(a, next)
  BY <1>1, NeighboursAre
<1>5. /\ a \in Nat /\ told[a].length \in Nat /\ told[a].length >= 16 /\ End(a) = a + told[a].length
      /\ D \in SUBSET Nat /\ mem \in [D -> Bytes] /\ Fitting(a, told[a].length)
      /\ a .. a + told[a].length + 3 \subseteq D /\ area[2] \in Numbers /\ area[2] \in Nat
  BY <1>1, InvFacts DEF End
<1> HIDE DEF prev, next
<1>6. /\ Whole(lo, hi) /\ lo <= a /\ End(a) <= hi /\ Loosened(loose, a, lo, hi)
      /\ LengthOf(mem, prev) \in Nat /\ LengthOf(mem, next) \in Nat
      /\ prev = {} => LengthOf(mem, prev) = 0 /\ lo = a
      /\ prev # {} => LengthOf(mem, prev) >= 16
      /\ next = {} => LengthOf(mem, next) = 0 /\ hi = End(a)
      /\ next # {} => LengthOf(mem, next) >= 16
  BY <1>1, <1>4, LooseIs
<1>7. lo + length = hi /\ length \in Nat /\ length >= 16
  BY <1>5, <1>6
<1>8. prev = {} /\ next = {} => loose = mem
  BY NothingIs
<1>9. length = told[a].length => prev = {} /\ next = {}
  BY <1>5, <1>6
<1> HIDE DEF loose, lo, hi, length, D, r
<1>10. /\ lo \in Nat /\ hi \in Nat /\ lo % 4 = 0 /\ hi % 4 = 0 /\ hi <= area[2]
       /\ lo .. hi + 3 \subseteq D
  BY <1>6 DEF Whole, D
<1>11. told' = Recut(One(lo, r), told) /\ (EightAligned(lo) \/ length >= Shortest)
  <2>1. lo \in DOMAIN One(lo, r) /\ One(lo, r)[lo] = r /\ r.length = length
    BY DEF One, Free, r
  <2> QED BY <1>3, <2>1, BecomesIs
<1>12. Fitting(lo, length) /\ length \in Numbers
  <2>1. length % 4 = 0 /\ length >= 15
    BY <1>7, <1>10
  <2> QED BY <1>5, <1>7, <1>10, <1>11, <2>1, NewFits
<1>13. r \in Records /\ r.length = length
  BY <1>12, FreeIs DEF r
<1>14. Good(mem', lo, r) /\ Within(mem', mem, D, lo, hi)
  <2>1. CASE length = told[a].length
    <3>1. loose = mem /\ lo = a
      BY <1>6, <1>8, <1>9, <2>1
    <3>2. mem' = rb_insert(set_block_is_free(mem, a, 1), a, n)
      BY <1>3, <2>1, <3>1
    <3>3. Good(mem', a, Free(told[a].length, n)) /\ Within(mem', mem, D, a, a + told[a].length)
      BY <1>2, <1>5, <3>2, FreedAlone
    <3> QED BY <1>7, <2>1, <3>1, <3>3 DEF r
  <2>2. CASE length # told[a].length
    <3> DEFINE b == read_previous_is_free(loose, lo)
    <3>1. /\ loose \in [D -> Bytes] /\ Inside(loose, mem, D, lo, hi)
          /\ b = read_previous_is_free(mem, lo)
      BY <1>6 DEF Loosened, D
    <3>2. b \in Bits
      <4>1. lo + 3 \in D
        BY <1>7, <1>10
      <4> QED BY <1>5, <3>1, <4>1, ReadsAreKept DEF read_previous_is_free
    <3>3. mem' = rb_insert(TellNext(init_block(loose, lo, length, 1, b), lo, 1), lo, n)
      BY <1>3, <2>2
    <3> HIDE DEF b
    <3>4. /\ Good(mem', lo, r) /\ Inside(mem', loose, D, lo, hi) /\ read_previous_is_free(mem', lo) = b
      <4>1. lo .. lo + length + 3 \subseteq D
        BY <1>7, <1>10
      <4> QED BY <1>5, <1>7, <1>12, <3>1, <3>2, <3>3, <4>1, FreeFormed DEF r
    <3> QED BY <3>1, <3>4, InsideTwice, WithinIs
  <2> QED BY <2>1, <2>2
<1> QED BY <1>3, <1>6, <1>7, <1>11, <1>12, <1>13, <1>14, OneBecomes DEF D

-----------------------------------------------------------------------------
(* A block gets shorter.                                                   *)

LEMMA LesserIs ==
  ASSUME NEW x \in Int, NEW y \in Int
  PROVE  Min({x, y}) \in {x, y} /\ Min({x, y}) <= x /\ Min({x, y}) <= y
<1>1. \E z \in {x, y} : \A w \in {x, y} : z <= w
  BY SMT
<1>2. Min({x, y}) \in {x, y} /\ \A w \in {x, y} : Min({x, y}) <= w
  BY <1>1 DEF Min
<1> QED BY <1>2

(* The two parts of a block in use, when the second is in the tree.        *)
LEMMA CutGood ==
  ASSUME NEW D, NEW a, NEW M, NEW b, NEW N, NEW c, Pair(D, a, M, b, N, c),
         NEW old \in [D -> Bytes], NEW m, Parted(m, old, D, a, M, b, N, c, 0), NEW n \in Nodes,
         NEW fill, NEW kept \in Nat, kept <= M - 12, KeptBytes(old, a, fill, kept)
  PROVE  LET r == rb_insert(m, b, n)
         IN  /\ Good(r, a, Given(M, fill, kept)) /\ Good(r, b, Free(N, n)) /\ Inside(r, old, D, a, c)
             /\ read_previous_is_free(r, a) = read_previous_is_free(old, a)
<1> DEFINE r == rb_insert(m, b, n)
<1>1. /\ D \in SUBSET Nat /\ Fitting(a, M) /\ Fitting(b, N) /\ b = a + M /\ c = b + N
      /\ a \in Nat /\ M \in Nat /\ M >= 16 /\ b \in Nat /\ N \in Nat /\ N >= 16 /\ c \in Nat
      /\ a .. a + M + 3 \subseteq D /\ b .. b + N + 3 \subseteq D
      /\ a + 3 \in D /\ b + 3 \in D /\ c + 3 \in D
  BY PairIs
<1>2. /\ Inside(m, old, D, a, c) /\ m \in [D -> Bytes]
      /\ Headed(m, a, M, 0) /\ TypeBit(m, a)
      /\ read_previous_is_free(m, a) = read_previous_is_free(old, a)
      /\ read_previous_is_free(m, b) = 0
      /\ Headed(m, b, N, 1) /\ read_previous_is_free(m, c) = 1
      /\ \A x \in TypeAt(a) + 1 .. b - 1 : m[x] = old[x]
  BY DEF Parted
<1>3. /\ Good(r, b, Free(N, n)) /\ Outside(r, m, D, b + 3 .. b + N - 1)
      /\ read_previous_is_free(r, b) = 0
  BY <1>1, <1>2, NodeMakesGood
<1> HIDE DEF r
<1>4. r \in [D -> Bytes] /\ \A x \in D : x \notin b + 3 .. b + N - 1 => r[x] = m[x]
  BY <1>3 DEF Outside
<1>5. \A x \in a .. a + M - 1 : r[x] = m[x]
  <2> SUFFICES ASSUME NEW x \in a .. a + M - 1
               PROVE  r[x] = m[x]
    OBVIOUS
  <2>1. x \in a .. a + M + 3 /\ x \notin b + 3 .. b + N - 1
    BY <1>1
  <2> QED BY <1>1, <1>4, <2>1
<1>6. Headed(r, a, M, 0) /\ TypeBit(r, a)
  BY <1>1, <1>2, <1>4, <1>5, HeaderKept
<1>7. KeptBytes(r, a, fill, kept)
  <2> SUFFICES ASSUME NEW k \in 0 .. kept - 1
               PROVE  r[get_block_payload(a) + k] = Written(fill, k)
    BY DEF KeptBytes
  <2> DEFINE x == get_block_payload(a) + k
  <2>1. get_block_payload(a) = TypeAt(a) + 1 /\ get_block_payload(a) \in {a + 8, a + 12}
        /\ k \in Nat /\ k <= M - 13
    BY <1>1, PayloadIs
  <2>2. x \in TypeAt(a) + 1 .. b - 1 /\ x \in a .. a + M - 1
    BY <1>1, <2>1
  <2>3. old[x] = Written(fill, k)
    BY DEF KeptBytes
  <2> HIDE DEF x
  <2>4. r[x] = Written(fill, k)
    BY <1>2, <1>5, <2>2, <2>3
  <2> QED BY <2>4 DEF x
<1>8. Good(r, a, Given(M, fill, kept))
  <2> DEFINE g == Given(M, fill, kept)
  <2>1. g.length = M /\ g.is_free = 0 /\ g.fill = fill /\ g.kept = kept
    BY DEF Given
  <2> HIDE DEF g
  <2> QED BY <1>1, <1>3, <1>6, <1>7, <2>1 DEF Good, g
<1>9. Inside(r, old, D, a, c)
  <2>1. b + 3 .. b + N - 1 \subseteq a .. c - 1
    BY <1>1
  <2>2. Inside(r, m, D, a, c)
    BY <1>1, <1>3, <2>1, OutsideInside
  <2> QED BY <1>2, <2>2, InsideTwice
<1>10. read_previous_is_free(r, a) = read_previous_is_free(m, a)
  <2>1. r[a + 3] = m[a + 3]
    BY <1>1, <1>5
  <2> QED BY <2>1 DEF read_previous_is_free, read_bit
<1> QED BY <1>2, <1>3, <1>8, <1>9, <1>10 DEF r

LEMMA ShrinksHolds ==
  ASSUME LongEnough, IInv, NEW n \in Nodes, NEW length \in Lengths, NEW a \in InUse,
         Shrinks(get_block_payload(a), length, n)
  PROVE  IInv'
<1> DEFINE next  == get_next_block_if_free(mem, a)
           loose == Delete(mem, next)
           old   == told[a].length
           b     == a + length
           c     == End(a) + LengthOf(mem, next)
           left  == c - a - length
           kept  == Min({told[a].kept, length - 12})
           m     == Cut(loose, a, length, c, 0)
           D     == Addresses
           r     == Given(length, told[a].fill, kept)
           s     == Free(left, n)
<1>1. /\ a \in Blocks /\ told[a].fill \in Bytes /\ told[a].kept \in Nat /\ told[a].kept <= old - 12
      /\ KeptBytes(mem, a, told[a].fill, told[a].kept)
  BY InUseIs
<1>2. get_payload_block(mem, get_block_payload(a)) = a /\ get_block_length(mem, a) = old
  BY <1>1, BlockIs
<1>3. /\ length <= old /\ UNCHANGED area
      /\ \/ next = {} /\ old - length < MINIMAL_BLOCK_SIZE /\ UNCHANGED <<mem, told>>
         \/ /\ ~ (next = {} /\ old - length < MINIMAL_BLOCK_SIZE)
            /\ mem' = rb_insert(m, b, n) /\ Becomes(Two(a, r, b, s))
  <2>1. a + old + LengthOf(mem, next) = c
    BY DEF End
  <2> QED BY <1>2, <2>1 DEF Shrinks
<1>4. CASE UNCHANGED <<mem, told>>
  BY <1>3, <1>4 DEF IInv, Tiled, AllGood
<1>5. ASSUME /\ ~ (next = {} /\ old - length < MINIMAL_BLOCK_SIZE)
             /\ mem' = rb_insert(m, b, n) /\ Becomes(Two(a, r, b, s))
      PROVE  IInv'
  <2>1. PreviousIs(a, {}) /\ NextIs(a, next)
    BY <1>1, NeighboursAre DEF PreviousIs
  <2>2. /\ a \in Nat /\ old \in Nat /\ old >= 16 /\ End(a) = a + old
        /\ D \in SUBSET Nat /\ mem \in [D -> Bytes] /\ area[2] \in Numbers /\ area[2] \in Nat
        /\ length \in Nat /\ length % 4 = 0 /\ length >= 16
    BY <1>1, InvFacts, LengthsAssumption DEF End
  <2>3. Delete(Delete(mem, {}), next) = loose /\ LengthOf(mem, {}) = 0
    BY NothingIs
  <2> HIDE DEF next
  <2>4. /\ Whole(a - 0, c) /\ End(a) <= c /\ Loosened(loose, a, a - 0, c)
        /\ LengthOf(mem, next) \in Nat
        /\ next # {} => LengthOf(mem, next) >= 16
    BY <1>1, <2>1, <2>3, LooseIs
  <2>5. a - 0 = a
    BY <2>2
  <2>6. Whole(a, c) /\ Loosened(loose, a, a, c)
    BY <2>4, <2>5
  <2>7. /\ c \in Nat /\ c % 4 = 0 /\ a % 4 = 0 /\ c <= area[2] /\ a .. c + 3 \subseteq D
    BY <2>6 DEF Whole, D
  <2>8. /\ b \in Nat /\ b % 4 = 0 /\ b + left = c /\ left \in Nat /\ left % 4 = 0 /\ left >= 15
        /\ b <= End(a) /\ a + length <= area[2]
    <3>1. left = (old - length) + LengthOf(mem, next) /\ old - length \in Nat
      BY <1>3, <2>2, <2>4
    <3>2. left \in Nat /\ left >= 15
      BY <1>5, <2>4, <3>1 DEF MINIMAL_BLOCK_SIZE
    <3>3. b <= End(a)
      BY <1>3, <2>2
    <3> HIDE DEF c
    <3>4. b \in Nat /\ b % 4 = 0 /\ b + left = c
      BY <2>2, <2>7
    <3>5. left % 4 = 0
      BY <2>2, <2>7
    <3>6. a + length <= area[2]
      BY <2>2, <2>4, <2>7, <3>3
    <3> QED BY <3>2, <3>3, <3>4, <3>5, <3>6
  <2> HIDE DEF b, c, left, kept, m, r, s, loose, D
  <2>9. EightAligned(a) \/ length >= Shortest
    <3>1. a \in DOMAIN Two(a, r, b, s) /\ Two(a, r, b, s)[a] = r /\ r.length = length
      BY DEF Two, Given, r
    <3> QED BY <1>5, <3>1, BecomesIs
  <2>10. EightAligned(b) \/ left >= Shortest
    <3>1. a # b
      BY <2>2 DEF b
    <3>2. b \in DOMAIN Two(a, r, b, s) /\ Two(a, r, b, s)[b] = s /\ s.length = left
      BY <3>1 DEF Two, Free, s
    <3> QED BY <1>5, <3>2, BecomesIs
  <2>11. Fitting(a, length) /\ length \in Numbers
    <3>1. length >= 15
      BY <2>2
    <3> QED BY <2>2, <2>7, <2>8, <2>9, <3>1, NewFits
  <2>12. Fitting(b, left) /\ left \in Numbers
    <3>1. b + left <= area[2]
      BY <2>7, <2>8
    <3> QED BY <2>2, <2>8, <2>10, <3>1, NewFits
  <2>13. kept \in Nat /\ kept <= length - 12 /\ kept <= told[a].kept
    <3>1. told[a].kept \in Int /\ length - 12 \in Nat /\ length - 12 \in Int
      BY <1>1, <2>2
    <3> QED BY <1>1, <3>1, LesserIs DEF kept
  <2>14. /\ r \in Records /\ r.length = length /\ s \in Records /\ s.length = left
    BY <1>1, <2>11, <2>12, <2>13, FreeIs, GivenIs DEF r, s
  <2>15. Pair(D, a, length, b, left, c)
    BY <2>2, <2>7, <2>8, <2>11, <2>12 DEF Pair, b
  <2>16. /\ loose \in [D -> Bytes] /\ Inside(loose, mem, D, a, c)
         /\ read_previous_is_free(loose, a) = read_previous_is_free(mem, a)
         /\ \A x \in a .. End(a) - 1 : loose[x] = mem[x]
    BY <2>6 DEF Loosened, D
  <2>17. Parted(m, loose, D, a, length, b, left, c, 0)
    <3>1. 0 \in Bits
      BY DEF Bits
    <3> QED BY <2>15, <2>16, <3>1, CutIs DEF m
  <2>18. KeptBytes(loose, a, told[a].fill, kept)
    <3> SUFFICES ASSUME NEW k \in 0 .. kept - 1
                 PROVE  loose[get_block_payload(a) + k] = Written(told[a].fill, k)
      BY DEF KeptBytes
    <3>1. get_block_payload(a) \in {a + 8, a + 12}
      BY <2>11, PayloadIs
    <3>2. k \in Nat /\ k <= kept - 1 /\ k \in 0 .. told[a].kept - 1
      BY <1>1, <2>13
    <3>3. get_block_payload(a) + k \in a .. End(a) - 1
      BY <1>3, <2>2, <2>13, <3>1, <3>2
    <3> QED BY <1>1, <2>16, <3>2, <3>3 DEF KeptBytes
  <2>19. /\ Good(mem', a, r) /\ Good(mem', b, s) /\ Inside(mem', loose, D, a, c)
         /\ read_previous_is_free(mem', a) = read_previous_is_free(loose, a)
    BY <1>5, <2>13, <2>15, <2>16, <2>17, <2>18, CutGood DEF r, s
  <2>20. Within(mem', mem, D, a, c)
    BY <2>16, <2>19, InsideTwice, WithinIs
  <2>21. told' = Recut(Two(a, r, b, s), told)
    BY <1>5, BecomesIs
  <2>22. a + r.length = b /\ b + s.length = c /\ Fitting(a, r.length) /\ Fitting(b, s.length)
    BY <2>8, <2>11, <2>12, <2>14 DEF b
  <2> QED BY <1>3, <2>6, <2>8, <2>14, <2>19, <2>20, <2>21, <2>22, TwoBecome DEF D
<1> QED BY <1>3, <1>4, <1>5

-----------------------------------------------------------------------------
(* A block grows into its neighbours.                                      *)

(* f is m with the header of a block in use at lo, the one behind it being *)
(* told when nothing is left.                                              *)
Framed(f, m, D, lo, G, total) ==
  /\ f \in [D -> Bytes] /\ Headed(f, lo, G, 0) /\ TypeBit(f, lo)
  /\ read_previous_is_free(f, lo) = read_previous_is_free(m, lo)
  /\ \A x \in D : x \notin HeadAt(lo) /\ x # lo + G + 3 => f[x] = m[x]
  /\ G # total => f[lo + G + 3] = m[lo + G + 3]
  /\ f[lo + G + 3] \div 2 = m[lo + G + 3] \div 2
  /\ G = total => read_previous_is_free(f, lo + G) = 0

LEMMA FormedIs ==
  ASSUME NEW D \in SUBSET Nat, NEW m \in [D -> Bytes], NEW lo, NEW G, Fitting(lo, G),
         lo .. lo + G + 3 \subseteq D, NEW total
  PROVE  Framed(Formed(m, lo, G, total), m, D, lo, G, total)
<1> DEFINE p == read_previous_is_free(m, lo)
           h == init_block(m, lo, G, 0, p)
           f == TellNext(h, lo, 0)
           e == lo + G + 3
<1>1. /\ lo \in Nat /\ G \in Nat /\ G >= 16 /\ e \in D /\ lo + 3 \in D /\ 0 \in Bits
      /\ InitAt(lo, G, 0) = HeadAt(lo)
      /\ HeadAt(lo) \subseteq lo .. lo + G - 1 /\ lo + 3 \in lo .. lo + G - 1
  <2>1. /\ lo \in Nat /\ G \in Nat /\ G >= 16 /\ e \in D /\ lo + 3 \in D
        /\ HeadAt(lo) \cup FootAt(lo, G) \subseteq lo .. lo + G - 1
    BY BlockIn
  <2>2. 0 \in Bits /\ InitAt(lo, G, 0) = HeadAt(lo)
    BY DEF Bits, InitAt
  <2>3. lo + 3 \in lo .. lo + G - 1
    BY <2>1
  <2> QED BY <2>1, <2>2, <2>3
<1>2. p \in Bits
  BY <1>1, ReadsAreKept DEF read_previous_is_free
<1>3. Formed(m, lo, G, total) = IF G = total THEN f ELSE h
  BY DEF Formed
<1> HIDE DEF p
<1>4. /\ Outside(h, m, D, HeadAt(lo)) /\ Headed(h, lo, G, 0) /\ TypeBit(h, lo)
      /\ read_previous_is_free(h, lo) = p
  <2>1. Outside(h, m, D, InitAt(lo, G, 0)) /\ Headed(h, lo, G, 0) /\ TypeBit(h, lo)
        /\ read_previous_is_free(h, lo) = p
    BY <1>1, <1>2, InitWritten
  <2> QED BY <1>1, <2>1
<1> HIDE DEF h
<1>5. h \in [D -> Bytes] /\ get_block_length(h, lo) = G /\ \A x \in D : x \notin HeadAt(lo) => h[x] = m[x]
  BY <1>4 DEF Outside, Headed
<1>6. h[e] = m[e]
  <2>1. e \notin lo .. lo + G - 1
    BY <1>1
  <2> QED BY <1>1, <1>5, <2>1
<1>7. /\ Outside(f, h, D, {e}) /\ f[e] \div 2 = h[e] \div 2 /\ read_previous_is_free(f, lo + G) = 0
  <2>1. lo + G + 3 \in D
    BY <1>1
  <2>2. /\ Outside(f, h, D, {lo + G + 3}) /\ f[lo + G + 3] \div 2 = h[lo + G + 3] \div 2
        /\ read_previous_is_free(f, lo + G) = 0
    <3>1. h \in [D -> Bytes] /\ get_block_length(h, lo) = G /\ 0 \in Bits
      BY <1>1, <1>5
    <3>2. f = write_bit(h, lo + G + 3, 0)
      BY <3>1 DEF TellNext, get_logical_next_block, write_previous_is_free
    <3> HIDE DEF e, f
    <3>3. /\ Outside(f, h, D, {lo + G + 3}) /\ f[lo + G + 3] \div 2 = h[lo + G + 3] \div 2
          /\ read_bit(f, lo + G + 3) = 0
      BY <2>1, <3>1, <3>2, BitWritten
    <3> QED BY <3>3 DEF read_previous_is_free
  <2> QED BY <2>2
<1> HIDE DEF f
<1>8. f \in [D -> Bytes] /\ \A x \in D : x # e => f[x] = h[x]
  BY <1>7 DEF Outside
<1>9. Headed(f, lo, G, 0) /\ TypeBit(f, lo) /\ read_previous_is_free(f, lo) = p
  <2>1. \A x \in lo .. lo + G - 1 : x \in D /\ x # e
    BY <1>1
  <2>2. \A x \in lo .. lo + G - 1 : f[x] = h[x]
    BY <1>8, <2>1
  <2>3. Headed(f, lo, G, 0) /\ TypeBit(f, lo)
    BY <1>4, <1>5, <1>8, <2>2, HeaderKept
  <2>4. f[lo + 3] = h[lo + 3]
    BY <1>1, <2>2
  <2> QED BY <1>4, <2>3, <2>4 DEF read_previous_is_free, read_bit
<1> QED BY <1>3, <1>4, <1>5, <1>6, <1>7, <1>8, <1>9 DEF Framed, p, e

(* The payload at p is at q afterwards, and nothing but the bytes of the   *)
(* block from there on has changed.                                        *)
LEMMA MovedIs ==
  ASSUME NEW D \in SUBSET Nat, NEW old \in [D -> Bytes], NEW m \in [D -> Bytes], NEW p \in Nat, NEW new,
         NEW q \in Nat, q = get_block_payload(new), q <= p, NEW count \in Nat, NEW e \in Nat, NEW saved,
         p # q => \A x \in saved : x \in D /\ x >= p /\ x < e,
         p .. p + count - 1 \subseteq D, q .. e - 1 \subseteq D, q + count <= e
  PROVE  LET r == Moved(old, m, p, new, count, saved)
         IN  /\ Outside(r, m, D, q .. e - 1)
             /\ \A k \in 0 .. count - 1 : r[q + k] \in {old[p + k], m[p + k]}
<1> DEFINE shift == p - q
           r == Moved(old, m, p, new, count, saved)
<1>1. r = [x \in D |-> CASE shift # 0 /\ x + shift \in saved -> old[x + shift]
                         [] shift # 0 /\ x + shift \in (p .. p + count - 1) \ saved -> m[x + shift]
                         [] OTHER -> m[x]]
  BY DEF Moved
<1>2. shift \in Nat /\ p = q + shift
  OBVIOUS
<1> HIDE DEF r, shift
<1>3. CASE shift = 0
  <2>1. r = [x \in D |-> m[x]]
    BY <1>1, <1>3
  <2>2. r = m /\ p = q
    BY <1>2, <1>3, <2>1
  <2> QED BY <2>2 DEF Outside, r
<1>4. CASE shift # 0
  <2>1. \A x \in saved : x \in D /\ x >= p /\ x < e
    BY <1>2, <1>4
  <2>2. /\ \A x \in D : x + shift \in saved => r[x] = old[x + shift]
        /\ \A x \in D : x + shift \notin saved /\ x + shift \in p .. p + count - 1 => r[x] = m[x + shift]
        /\ \A x \in D : x + shift \notin saved /\ x + shift \notin p .. p + count - 1 => r[x] = m[x]
    BY <1>1, <1>4
  <2>3. \A x \in D : x + shift \in saved => old[x + shift] \in Bytes /\ x \in q .. e - 1
    <3> SUFFICES ASSUME NEW x \in D, x + shift \in saved
                 PROVE  old[x + shift] \in Bytes /\ x \in q .. e - 1
      OBVIOUS
    <3>1. x + shift \in D /\ x + shift >= p /\ x + shift < e /\ x \in Nat
      BY <2>1
    <3>2. x >= q /\ x <= e - 1
      BY <1>2, <3>1
    <3>3. x \in q .. e - 1
      BY <3>1, <3>2
    <3> QED BY <3>1, <3>3
  <2>4. \A x \in D : x + shift \in p .. p + count - 1 => m[x + shift] \in Bytes /\ x \in q .. e - 1
    <3> SUFFICES ASSUME NEW x \in D, x + shift \in p .. p + count - 1
                 PROVE  m[x + shift] \in Bytes /\ x \in q .. e - 1
      OBVIOUS
    <3>1. x + shift \in D /\ x + shift >= p /\ x + shift <= p + count - 1 /\ x \in Nat
      OBVIOUS
    <3>2. x >= q /\ x <= e - 1
      BY <1>2, <3>1
    <3>3. x \in q .. e - 1
      BY <3>1, <3>2
    <3> QED BY <3>1, <3>3
  <2>5. \A x \in D : r[x] \in Bytes /\ (x \notin q .. e - 1 => r[x] = m[x])
    BY <2>2, <2>3, <2>4
  <2>6. r \in [D -> Bytes]
    <3>1. r = [x \in D |-> r[x]]
      BY <1>1
    <3> QED BY <2>5, <3>1
  <2>7. ASSUME NEW k \in 0 .. count - 1
        PROVE  r[q + k] \in {old[p + k], m[p + k]}
    <3>1. q + k \in q .. e - 1 /\ q + k + shift = p + k /\ p + k \in p .. p + count - 1
      BY <1>2
    <3> QED BY <2>2, <3>1
  <2> QED BY <2>5, <2>6, <2>7 DEF Outside, r
<1> QED BY <1>3, <1>4

(* The neighbours that a block grows into are enough for it.               *)
LEMMA JoinedIs ==
  ASSUME IInv, NEW a \in Blocks, NEW length \in Nat, Joined(mem, a, length) # {}
  PROVE  LET joined == Joined(mem, a, length)
             prev   == get_previous_block_if_free(mem, a) \cap joined
             next   == get_next_block_if_free(mem, a) \cap joined
         IN  /\ PreviousIs(a, prev) /\ NextIs(a, next)
             /\ told[a].length + LengthOf(mem, prev) + LengthOf(mem, next) > length
<1> DEFINE P == get_previous_block_if_free(mem, a)
           N == get_next_block_if_free(mem, a)
           J == Joined(mem, a, length)
           lower == told[a].length + LengthOf(mem, P)
           upper == told[a].length + LengthOf(mem, N)
<1>1. PreviousIs(a, P) /\ NextIs(a, N)
  BY NeighboursAre
<1>2. get_block_length(mem, a) = told[a].length
  BY BlockIs
<1>3. J = IF lower + upper - told[a].length <= length THEN {}
          ELSE IF lower <= length /\ upper <= length THEN P \cup N
          ELSE IF lower > length /\ (upper <= length \/ lower < upper) THEN P
          ELSE N
  BY <1>2 DEF Joined
<1>4. /\ told[a].length \in Nat /\ LengthOf(mem, P) \in Nat /\ LengthOf(mem, N) \in Nat
  BY <1>1, LooseIs, InvFacts
<1>5. P \cap N = {}
  <2>1. \A x \in P : x \in Blocks /\ End(x) = a
    BY <1>1 DEF PreviousIs
  <2>2. \A x \in N : x = End(a)
    BY <1>1 DEF NextIs
  <2>3. \A x \in Blocks : x \in Nat /\ End(x) \in Nat /\ End(x) > x
    BY InvFacts DEF End
  <2>4. ASSUME NEW x \in P, x \in N
        PROVE  FALSE
    <3>1. x \in Blocks /\ End(x) = a /\ x = End(a)
      BY <2>1, <2>2, <2>4
    <3> QED BY <2>3, <3>1
  <2> QED BY <2>4
<1> HIDE DEF P, N, J
<1>6. PreviousIs(a, {}) /\ NextIs(a, {}) /\ LengthOf(mem, {}) = 0
  BY NothingIs DEF PreviousIs, NextIs
<1>7. ~ (lower + upper - told[a].length <= length)
  BY <1>3 DEF J
<1>8. CASE lower <= length /\ upper <= length
  <2>1. J = P \cup N
    BY <1>3, <1>7, <1>8
  <2>2. P \cap J = P /\ N \cap J = N
    BY <2>1
  <2>3. told[a].length + LengthOf(mem, P) + LengthOf(mem, N) > length
    BY <1>4, <1>7
  <2> QED BY <1>1, <2>2, <2>3 DEF P, N, J
<1>9. CASE lower > length /\ (upper <= length \/ lower < upper)
  <2>1. J = P
    <3>1. ~ (lower <= length /\ upper <= length)
      BY <1>4, <1>9
    <3> QED BY <1>3, <1>7, <1>9, <3>1
  <2>2. P \cap J = P /\ N \cap J = {}
    BY <1>5, <2>1
  <2>3. told[a].length + LengthOf(mem, P) + 0 > length
    BY <1>4, <1>9
  <2> QED BY <1>1, <1>6, <2>2, <2>3 DEF P, N, J
<1>10. CASE /\ ~ (lower <= length /\ upper <= length)
            /\ ~ (lower > length /\ (upper <= length \/ lower < upper))
  <2>1. J = N
    BY <1>3, <1>7, <1>10
  <2>2. P \cap J = {} /\ N \cap J = N
    BY <1>5, <2>1
  <2>3. told[a].length + 0 + LengthOf(mem, N) > length
    BY <1>4, <1>10
  <2> QED BY <1>1, <1>6, <2>2, <2>3 DEF P, N, J
<1> QED BY <1>8, <1>9, <1>10

(* The block at new gets the payload at p, of count bytes, and G of the    *)
(* bytes up to hi.                                                         *)
RoomFor(p, new, G, total, hi, count, saved) ==
  /\ p \in Nat /\ Fitting(new, G) /\ hi \in Nat /\ total \in Nat /\ new + total = hi /\ G <= total
  /\ G # total => Fitting(new + G, total - G)
  /\ count \in Nat /\ count <= G - 13 /\ p + count <= hi /\ get_block_payload(new) <= p
  /\ \/ p = get_block_payload(new)
     \/ /\ p >= new + 16 /\ p <= hi
        /\ \A x \in saved : x \in Nat /\ x >= p /\ x < new + G

(* It has it, and what is left is free.                                    *)
GoodPlace(r, m, D, new, G, total, hi, n, fill, kept) ==
  /\ Good(r, new, Given(G, fill, kept))
  /\ G # total => Good(r, new + G, Free(total - G, n))
  /\ Within(r, m, D, new, hi)

LEMMA PlacedIs ==
  ASSUME NEW D \in SUBSET Nat, NEW m \in [D -> Bytes], NEW p, NEW new, NEW G, NEW total, NEW hi,
         NEW count, NEW saved, RoomFor(p, new, G, total, hi, count, saved), new .. hi + 3 \subseteq D,
         NEW n \in Nodes, NEW fill, NEW kept \in Nat, kept <= count,
         \A k \in 0 .. kept - 1 : m[p + k] = Written(fill, k)
  PROVE  GoodPlace(Placed(m, p, new, count, saved, G, total, n),
                   m, D, new, G, total, hi, n, fill, kept)
<1>0. /\ p \in Nat /\ Fitting(new, G) /\ hi \in Nat /\ total \in Nat /\ new + total = hi /\ G <= total
      /\ G # total => Fitting(new + G, total - G)
      /\ count \in Nat /\ count <= G - 13 /\ p + count <= hi /\ get_block_payload(new) <= p
      /\ \/ p = get_block_payload(new)
         \/ /\ p >= new + 16 /\ p <= hi
            /\ \A x \in saved : x \in Nat /\ x >= p /\ x < new + G
  BY DEF RoomFor
<1> USE <1>0
<1> DEFINE f == Formed(m, new, G, total)
           v == Moved(m, f, p, new, count, saved)
           r == Rest(v, new, G, total, n)
           q == get_block_payload(new)
           b == new + G
<1>1. r = Placed(m, p, new, count, saved, G, total, n)
  BY DEF Placed
<1>2. /\ new \in Nat /\ G \in Nat /\ G >= 16 /\ b \in Nat /\ b <= hi /\ (G = total <=> b = hi)
      /\ q = TypeAt(new) + 1 /\ q \in {new + 8, new + 12} /\ q \in Nat
      /\ HeadAt(new) \subseteq new .. q - 1
  <2>1. new \in Nat /\ G \in Nat /\ G >= 16 /\ q = TypeAt(new) + 1 /\ q \in {new + 8, new + 12}
    BY FittingIs, PayloadIs
  <2>2. HeadAt(new) \subseteq new .. q - 1
    <3> HIDE DEF q
    <3>1. TypeAt(new) \in new .. q - 1 /\ new .. new + 5 \subseteq new .. q - 1
      BY <2>1, FittingIs
    <3> QED BY <3>1 DEF HeadAt
  <2> QED BY <2>1, <2>2
<1>3. /\ new .. new + G + 3 \subseteq D /\ \A x \in new .. hi + 3 : x \in D
  BY <1>2
<1>4. /\ f \in [D -> Bytes] /\ Headed(f, new, G, 0) /\ TypeBit(f, new)
      /\ read_previous_is_free(f, new) = read_previous_is_free(m, new)
      /\ \A x \in D : x \notin HeadAt(new) /\ x # b + 3 => f[x] = m[x]
      /\ G # total => f[b + 3] = m[b + 3]
      /\ f[b + 3] \div 2 = m[b + 3] \div 2
      /\ G = total => read_previous_is_free(f, b) = 0
  <2>1. Framed(f, m, D, new, G, total)
    BY <1>3, FormedIs
  <2> QED BY <2>1 DEF Framed
<1> HIDE DEF f
<1>5. /\ Outside(v, f, D, q .. b - 1)
      /\ \A k \in 0 .. count - 1 : v[q + k] \in {m[p + k], f[p + k]}
  <2>1. p # q => \A x \in saved : x \in D /\ x >= p /\ x < b
    <3> SUFFICES ASSUME p # q, NEW x \in saved
                 PROVE  x \in D /\ x >= p /\ x < b
      OBVIOUS
    <3>1. x \in Nat /\ x >= p /\ x < b /\ p >= new + 16
      OBVIOUS
    <3>2. x \in new .. hi + 3
      BY <1>2, <3>1
    <3> QED BY <1>3, <3>1, <3>2
  <2>2. p .. p + count - 1 \subseteq D /\ q .. b - 1 \subseteq D /\ q + count <= b
    <3>1. p >= new
      BY <1>2
    <3>2. p .. p + count - 1 \subseteq new .. hi + 3
      BY <1>2, <3>1
    <3>3. q .. b - 1 \subseteq new .. hi + 3
      BY <1>2
    <3>4. q + count <= b
      BY <1>2
    <3> QED BY <1>3, <3>2, <3>3, <3>4
  <2> HIDE DEF b
  <2>3. q = get_block_payload(new) /\ q <= p /\ b \in Nat
    BY <1>2
  <2> HIDE DEF q
  <2> QED BY <1>2, <1>4, <2>1, <2>2, <2>3, MovedIs
<1> HIDE DEF v
<1>6. v \in [D -> Bytes] /\ \A x \in D : x \notin q .. b - 1 => v[x] = f[x]
  BY <1>5 DEF Outside
<1>7. /\ Inside(r, v, D, new, hi)
      /\ \A x \in new .. b - 1 : r[x] = v[x]
      /\ read_previous_is_free(r, b) = 0
      /\ G # total => Good(r, b, Free(total - G, n))
  <2>1. CASE G = total
    <3>1. r = v
      BY <2>1 DEF Rest
    <3>2. v[b + 3] = f[b + 3]
      BY <1>2, <1>3, <1>6
    <3> QED BY <1>4, <1>6, <2>1, <3>1, <3>2 DEF Inside, read_previous_is_free, read_bit
  <2>2. CASE G # total
    <3> DEFINE N == total - G
    <3>1. r = rb_insert(TellNext(init_block(v, b, N, 1, 0), b, 1), b, n)
      BY <2>2 DEF Rest
    <3>2. Fitting(b, N) /\ b + N = hi /\ 0 \in Bits
      BY <1>2, <2>2 DEF Bits
    <3>3. b .. b + N + 3 \subseteq D /\ hi + 3 \in D
      BY <1>2, <1>3, <3>2
    <3> HIDE DEF N, r
    <3>4. Good(r, b, Free(N, n)) /\ Inside(r, v, D, b, b + N) /\ read_previous_is_free(r, b) = 0
      BY <1>6, <3>1, <3>2, <3>3, FreeFormed
    <3>5. Inside(r, v, D, b, hi)
      BY <3>2, <3>4
    <3>6. new <= b /\ b < hi /\ hi = hi
      BY <1>2, <2>2
    <3>7. Inside(r, v, D, new, hi)
      BY <1>2, <3>3, <3>5, <3>6, InsideMore
    <3>8. \A x \in new .. b - 1 : r[x] = v[x]
      <4> SUFFICES ASSUME NEW x \in new .. b - 1
                   PROVE  r[x] = v[x]
        OBVIOUS
      <4>1. x \in new .. hi + 3 /\ x \notin b .. hi - 1 /\ x # hi + 3
        BY <1>2
      <4> QED BY <1>3, <3>5, <4>1 DEF Inside
    <3> QED BY <3>4, <3>7, <3>8 DEF N
  <2> QED BY <2>1, <2>2
<1>8. r \in [D -> Bytes]
  BY <1>7 DEF Inside
<1> HIDE DEF r
<1>9. \A x \in new .. q - 1 : r[x] = f[x]
  <2> SUFFICES ASSUME NEW x \in new .. q - 1
               PROVE  r[x] = f[x]
    OBVIOUS
  <2>1. x \in new .. b - 1 /\ x \in new .. hi + 3 /\ x \notin q .. b - 1
    BY <1>2
  <2> QED BY <1>3, <1>6, <1>7, <2>1
<1>10. Headed(r, new, G, 0) /\ TypeBit(r, new)
       /\ read_previous_is_free(r, new) = read_previous_is_free(m, new)
  <2>1. /\ {new, new + 1, new + 2} \subseteq D /\ new \in D
        /\ \A x \in {new, new + 1, new + 2} : r[x] = f[x]
        /\ r[TypeAt(new)] = f[TypeAt(new)] /\ r[new + 3] = f[new + 3]
    <3>1. \A x \in {new, new + 1, new + 2, new + 3, TypeAt(new)} : x \in new .. q - 1 /\ x \in new .. hi + 3
      BY <1>2
    <3> QED BY <1>3, <1>9, <3>1
  <2>2. read_24_transformed(r, new) = read_24_transformed(f, new)
    BY <1>4, <1>8, <2>1, ReadsAreKept
  <2>3. /\ read_bit(r, new) = read_bit(f, new) /\ read_bit(r, TypeAt(new)) = read_bit(f, TypeAt(new))
        /\ read_bit(r, new + 3) = read_bit(f, new + 3)
    BY <2>1 DEF read_bit
  <2> QED BY <1>4, <2>2, <2>3
      DEF Headed, TypeBit, get_block_length, get_block_is_free, read_previous_is_free
<1>11. \A k \in 0 .. count - 1 : f[p + k] = m[p + k]
  <2> SUFFICES ASSUME NEW k \in 0 .. count - 1
               PROVE  f[p + k] = m[p + k]
    OBVIOUS
  <2>1. p + k >= q /\ p + k < hi /\ p + k \in new .. hi + 3 /\ k \in Nat
    BY <1>2
  <2>2. p + k \notin HeadAt(new)
    BY <1>2, <2>1
  <2>3. CASE p + k = b + 3
    <3>1. G # total
      BY <1>2, <2>1, <2>3
    <3> QED BY <1>4, <2>3, <3>1
  <2>4. CASE p + k # b + 3
    BY <1>3, <1>4, <2>1, <2>2, <2>4
  <2> QED BY <2>3, <2>4
<1>12. KeptBytes(r, new, fill, kept)
  <2> SUFFICES ASSUME NEW k \in 0 .. kept - 1
               PROVE  r[q + k] = Written(fill, k)
    BY DEF KeptBytes
  <2>1. k \in 0 .. count - 1 /\ q + k \in new .. b - 1
    BY <1>2
  <2> QED BY <1>5, <1>7, <1>11, <2>1
<1>13. Good(r, new, Given(G, fill, kept))
  <2> DEFINE g == Given(G, fill, kept)
  <2>1. g.length = G /\ g.is_free = 0 /\ g.fill = fill /\ g.kept = kept
    BY DEF Given
  <2> HIDE DEF g
  <2> QED BY <1>7, <1>10, <1>12, <2>1 DEF Good, g, b
<1>14. Inside(r, m, D, new, hi)
  <2>1. hi + 3 \in D
    BY <1>2, <1>3
  <2>2. Inside(f, m, D, new, hi)
    <3>1. \A x \in D : x \notin new .. hi - 1 /\ x # hi + 3 => f[x] = m[x]
      <4> SUFFICES ASSUME NEW x \in D, x \notin new .. hi - 1, x # hi + 3
                   PROVE  f[x] = m[x]
        OBVIOUS
      <4>1. x \notin HeadAt(new)
        BY <1>2
      <4>2. CASE x = b + 3
        <5>1. G # total
          BY <1>2, <4>2
        <5> QED BY <1>4, <4>2, <5>1
      <4>3. CASE x # b + 3
        BY <1>4, <4>1, <4>3
      <4> QED BY <4>2, <4>3
    <3>2. f[hi + 3] \div 2 = m[hi + 3] \div 2
      <4>1. CASE G = total
        BY <1>2, <1>4, <4>1
      <4>2. CASE G # total
        <5>1. hi + 3 \notin HeadAt(new) /\ hi + 3 # b + 3
          BY <1>2, <4>2
        <5> QED BY <1>4, <2>1, <5>1
      <4> QED BY <4>1, <4>2
    <3> QED BY <1>4, <3>1, <3>2 DEF Inside
  <2>3. q .. b - 1 \subseteq new .. hi - 1
    BY <1>2
  <2>4. Inside(v, f, D, new, hi)
    BY <1>2, <1>5, <2>1, <2>3, OutsideInside
  <2> QED BY <1>7, <2>2, <2>4, InsideTwice
<1> QED BY <1>1, <1>7, <1>10, <1>13, <1>14, WithinIs DEF GoodPlace, b

LEMMA MergesHolds ==
  ASSUME LongEnough, IInv, NEW n \in Nodes, NEW length \in Lengths, NEW a \in InUse,
         Merges(get_block_payload(a), length, n)
  PROVE  IInv'
<1> DEFINE p      == get_block_payload(a)
           old    == told[a].length
           joined == Joined(mem, a, length)
           prev   == get_previous_block_if_free(mem, a) \cap joined
           next   == get_next_block_if_free(mem, a) \cap joined
           new    == a - LengthOf(mem, prev)
           hi     == End(a) + LengthOf(mem, next)
           total  == old + LengthOf(mem, prev) + LengthOf(mem, next)
           given  == IF total - length < MINIMAL_BLOCK_SIZE THEN total ELSE length
           second == new + given - (IF EightAligned(new) THEN 4 ELSE 8)
           saved  == IF second < p + old - 12 /\ new + given > p THEN second .. new + given - 1 ELSE {}
           loose  == Delete(Delete(mem, prev), next)
           D      == Addresses
           r      == Given(given, told[a].fill, told[a].kept)
           s      == Free(total - given, n)
<1>1. /\ a \in Blocks /\ told[a].fill \in Bytes /\ told[a].kept \in Nat /\ told[a].kept <= old - 12
      /\ KeptBytes(mem, a, told[a].fill, told[a].kept)
  BY InUseIs
<1>2. get_payload_block(mem, p) = a /\ get_block_length(mem, a) = old
  BY <1>1, BlockIs
<1>3. /\ length > old /\ joined # {}
      /\ new = a \/ \A x \in saved : x >= p
      /\ mem' = Placed(loose, p, new, old - 12, saved, given, total, n)
      /\ Becomes(IF given = total THEN One(new, r) ELSE Two(new, r, new + given, s))
      /\ UNCHANGED area
  BY <1>2 DEF Merges
<1>30. length > old /\ joined # {}
  BY <1>3
<1>31. UNCHANGED area
  BY <1>3
<1>4. /\ a \in Nat /\ old \in Nat /\ old >= 16 /\ End(a) = a + old
      /\ D \in SUBSET Nat /\ mem \in [D -> Bytes] /\ area[2] \in Numbers /\ area[2] \in Nat
      /\ Fitting(a, old) /\ length \in Nat /\ length % 4 = 0
  BY <1>1, InvFacts, LengthsAssumption DEF End
<1>5. PreviousIs(a, prev) /\ NextIs(a, next) /\ total > length
  BY <1>1, <1>4, <1>30, JoinedIs
<1> HIDE DEF joined, prev, next
<1>6. /\ Whole(new, hi) /\ new <= a /\ End(a) <= hi /\ Loosened(loose, a, new, hi)
      /\ LengthOf(mem, prev) \in Nat /\ LengthOf(mem, next) \in Nat
      /\ prev = {} => new = a
      /\ prev # {} => LengthOf(mem, prev) >= 16
  BY <1>1, <1>5, LooseIs
<1>7. /\ new + total = hi /\ total \in Nat
      /\ new = a \/ a >= new + 16
  BY <1>4, <1>6
<1> HIDE DEF loose, new, hi, total, D
<1>8. /\ new \in Nat /\ hi \in Nat /\ new % 4 = 0 /\ hi % 4 = 0 /\ hi <= area[2]
      /\ new .. hi + 3 \subseteq D
  BY <1>6 DEF Whole, D
<1>9. total % 4 = 0
  BY <1>7, <1>8
<1>10. /\ given \in Nat /\ given <= total /\ given >= length /\ given % 4 = 0
       /\ given # total => total - given \in Nat /\ total - given >= 15
  BY <1>4, <1>5, <1>7, <1>9 DEF MINIMAL_BLOCK_SIZE
<1> HIDE DEF given
<1> DEFINE b    == new + given
           left == total - given
<1>11. EightAligned(new) \/ given >= Shortest
  <2>1. r.length = given
    BY DEF Given
  <2>2. /\ new \in DOMAIN One(new, r) /\ One(new, r)[new] = r
        /\ new \in DOMAIN Two(new, r, b, s) /\ Two(new, r, b, s)[new] = r
    BY DEF One, Two
  <2> HIDE DEF r, s, b
  <2>3. PICK x : Becomes(x) /\ new \in DOMAIN x /\ x[new] = r
    BY <1>3, <2>2 DEF b
  <2> QED BY <2>1, <2>3, BecomesIs
<1>12. Fitting(new, given) /\ given \in Numbers
  <2>1. given >= 15 /\ new + given <= area[2]
    BY <1>4, <1>7, <1>8, <1>10, <1>30
  <2> QED BY <1>4, <1>8, <1>10, <1>11, <2>1, NewFits
<1>13. given # total => /\ Fitting(b, left) /\ left \in Numbers /\ b \in Nat
                        /\ told' = Recut(Two(new, r, b, s), told)
  <2> SUFFICES ASSUME given # total
               PROVE  /\ Fitting(b, left) /\ left \in Numbers /\ b \in Nat
                      /\ told' = Recut(Two(new, r, b, s), told)
    OBVIOUS
  <2>1. Becomes(Two(new, r, b, s))
    BY <1>3
  <2>2. new # b
    <3>1. given \in Nat /\ given >= length /\ length > old /\ old >= 16
      BY <1>4, <1>10, <1>30
    <3>2. given \in Nat /\ given > 0 /\ new \in Nat
      <4> HIDE DEF old
      <4>1. old \in Nat /\ length \in Nat
        BY <1>4
      <4> QED BY <1>8, <3>1, <4>1
    <3> QED BY <3>2
  <2>3. b \in DOMAIN Two(new, r, b, s) /\ Two(new, r, b, s)[b] = s /\ s.length = left
    BY <2>2 DEF Two, Free
  <2>4. b \in Nat /\ left \in Nat /\ left >= 15 /\ b + left = hi /\ b % 4 = 0 /\ left % 4 = 0
    BY <1>7, <1>8, <1>9, <1>10
  <2>5. b + left <= area[2]
    BY <1>8, <2>4
  <2> HIDE DEF r, s, b, left
  <2>6. EightAligned(b) \/ left >= Shortest
    BY <2>1, <2>3, BecomesIs
  <2>7. Fitting(b, left) /\ left \in Numbers
    BY <1>4, <2>4, <2>5, <2>6, NewFits
  <2> QED BY <2>1, <2>4, <2>7, BecomesIs
<1>14. given = total => told' = Recut(One(new, r), told)
  BY <1>3, BecomesIs
<1>15. r \in Records /\ r.length = given
  <2>1. told[a].kept <= given - 12
    BY <1>1, <1>4, <1>10, <1>30
  <2> QED BY <1>1, <1>12, <2>1, GivenIs
<1>16. given # total => s \in Records /\ s.length = left
  BY <1>13, FreeIs
<1>17. /\ loose \in [D -> Bytes] /\ Inside(loose, mem, D, new, hi)
       /\ read_previous_is_free(loose, new) = read_previous_is_free(mem, new)
       /\ \A x \in a .. End(a) - 1 : loose[x] = mem[x]
  BY <1>6 DEF Loosened, D
<1>18. \A k \in 0 .. told[a].kept - 1 : loose[p + k] = Written(told[a].fill, k)
  <2> SUFFICES ASSUME NEW k \in 0 .. told[a].kept - 1
               PROVE  loose[p + k] = Written(told[a].fill, k)
    OBVIOUS
  <2>1. p \in {a + 8, a + 12}
    BY <1>4, PayloadIs
  <2>2. p + k \in a .. End(a) - 1
    BY <1>1, <1>4, <2>1
  <2>3. mem[p + k] = Written(told[a].fill, k)
    BY <1>1 DEF KeptBytes
  <2> QED BY <1>17, <2>2, <2>3
<1>19. /\ p \in Nat /\ get_block_payload(new) <= p /\ p + (old - 12) <= hi
       /\ old - 12 \in Nat /\ old - 12 <= given - 13
       /\ \/ p = get_block_payload(new)
          \/ /\ p >= new + 16 /\ p <= hi
             /\ \A x \in saved : x \in Nat /\ x >= p /\ x < b
  <2>1. p \in {a + 8, a + 12} /\ get_block_payload(new) \in {new + 8, new + 12}
    BY <1>4, <1>12, PayloadIs
  <2>2. /\ p \in Nat /\ p + (old - 12) <= hi
        /\ old - 12 \in Nat /\ old - 12 <= given - 13 /\ p <= hi
    <3>1. p \in Nat /\ p <= a + 12 /\ old - 12 \in Nat
      BY <1>4, <2>1
    <3>2. p + (old - 12) <= End(a) /\ p <= End(a)
      BY <1>4, <3>1
    <3>3. old - 12 <= given - 13
      BY <1>4, <1>10, <1>30
    <3> QED BY <1>4, <1>6, <1>8, <3>1, <3>2, <3>3
  <2>3. CASE new = a
    BY <2>2, <2>3
  <2>4. CASE new # a
    <3>1. p >= new + 16 /\ get_block_payload(new) <= p
      BY <1>4, <1>7, <1>8, <2>1, <2>4
    <3>2. ASSUME NEW x \in saved
          PROVE  x \in Nat /\ x >= p /\ x < b
      <4>1. x >= p
        BY <1>3, <2>4, <3>2
      <4>2. x \in second .. b - 1 /\ second \in Int /\ b \in Int
        BY <1>8, <1>10, <3>2
      <4> HIDE DEF second, b
      <4>3. x \in Int /\ x < b
        BY <4>2
      <4> QED BY <2>2, <4>1, <4>3
    <3> QED BY <2>2, <3>1, <3>2
  <2> QED BY <2>3, <2>4
<1> HIDE DEF second, saved, p, old
<1>20. /\ Good(mem', new, r)
       /\ given # total => Good(mem', b, s)
       /\ Within(mem', loose, D, new, hi)
  <2> DEFINE count == old - 12
             fill  == told[a].fill
             kept  == told[a].kept
  <2>1. /\ count \in Nat /\ count <= given - 13 /\ p + count <= hi /\ kept \in Nat /\ kept <= count
        /\ mem' = Placed(loose, p, new, count, saved, given, total, n)
        /\ \A k \in 0 .. kept - 1 : loose[p + k] = Written(fill, k)
    BY <1>1, <1>3, <1>18, <1>19
  <2>2. given # total => Fitting(new + given, total - given)
    BY <1>13
  <2> HIDE DEF count, fill, kept
  <2>3. RoomFor(p, new, given, total, hi, count, saved)
    BY <1>7, <1>8, <1>10, <1>12, <1>19, <2>1, <2>2 DEF RoomFor
  <2>4. GoodPlace(mem', loose, D, new, given, total, hi, n, fill, kept)
    BY <1>4, <1>8, <1>17, <2>1, <2>3, PlacedIs
  <2> QED BY <2>4 DEF GoodPlace, fill, kept
<1>21. Within(mem', mem, D, new, hi)
  BY <1>17, <1>20, InsideTwice, WithinIs
<1> HIDE DEF r, s, b, left
<1>22. CASE given = total
  <2>1. new + r.length = hi /\ Fitting(new, r.length)
    BY <1>7, <1>12, <1>15, <1>22
  <2>2. /\ Whole(new, hi) /\ Good(mem', new, r) /\ told' = Recut(One(new, r), told)
        /\ Within(mem', mem, Addresses, new, hi)
    BY <1>6, <1>14, <1>20, <1>21, <1>22 DEF D
  <2> QED BY <1>15, <1>31, <2>1, <2>2, OneBecomes
<1>23. CASE given # total
  <2>1. new + r.length = b /\ b + s.length = hi /\ Fitting(new, r.length) /\ Fitting(b, s.length)
    BY <1>7, <1>8, <1>10, <1>12, <1>13, <1>15, <1>16, <1>23 DEF b, left
  <2>2. /\ Whole(new, hi) /\ Good(mem', new, r) /\ Good(mem', b, s) /\ s \in Records /\ b \in Nat
        /\ told' = Recut(Two(new, r, b, s), told) /\ Within(mem', mem, Addresses, new, hi)
    BY <1>6, <1>13, <1>16, <1>20, <1>21, <1>23 DEF D
  <2> QED BY <1>15, <1>31, <2>1, <2>2, TwoBecome
<1> QED BY <1>22, <1>23

-----------------------------------------------------------------------------
(* Theorems.                                                               *)

LEMMA NextHolds == LongEnough /\ IInv /\ [Next]_vars => IInv'
<1> SUFFICES ASSUME LongEnough, IInv, [Next]_vars
             PROVE  IInv'
  OBVIOUS
<1>1. CASE UNCHANGED vars
  BY <1>1 DEF vars, IInv, Tiled, AllGood
<1>2. ASSUME NEW a \in InUse, NEW fill \in Fills, Write(a, fill)
      PROVE  IInv'
  BY <1>2, WriteHolds
<1>3. ASSUME NEW n \in Nodes, NEW length \in Lengths, mm_malloc(length, n)
      PROVE  IInv'
  BY <1>3, MallocHolds
<1>4. ASSUME NEW n \in Nodes, NEW a \in InUse, mm_free(get_block_payload(a), n)
      PROVE  IInv'
  BY <1>4, FreeHolds
<1>5. ASSUME NEW n \in Nodes, NEW a \in InUse, NEW length \in Lengths,
             Shrinks(get_block_payload(a), length, n)
      PROVE  IInv'
  BY <1>5, ShrinksHolds
<1>6. ASSUME NEW n \in Nodes, NEW a \in InUse, NEW length \in Lengths,
             Merges(get_block_payload(a), length, n)
      PROVE  IInv'
  BY <1>6, MergesHolds
<1>7. ASSUME NEW n \in Nodes, NEW a \in Blocks, Relink(a, n)
      PROVE  IInv'
  BY <1>7, RelinkHolds
<1> QED BY <1>1, <1>2, <1>3, <1>4, <1>5, <1>6, <1>7 DEF Next, Step

(* The blocks of the area lie end to end, and the bytes say so: whatever   *)
(* mm_malloc, mm_free and mm_realloc split, merge or move, and whatever    *)
(* programs write, every header, footer and node holds what was last       *)
(* stored in it.                                                           *)
THEOREM Invariance == LongEnough => (Spec => []IInv)
<1> SUFFICES ASSUME LongEnough
             PROVE  Spec => []IInv
  OBVIOUS
<1>1. Init => IInv
  BY InitHolds
<1>2. IInv /\ [Next]_vars => IInv'
  BY NextHolds
<1> QED BY <1>1, <1>2, PTL DEF Spec

(* mm_free and mm_realloc find every block and its free neighbours by      *)
(* lengths, bits and footers that are read as they were stored.            *)
THEOREM EveryBlockIsFound == LongEnough => (Spec => []BlocksAreFound)
<1> SUFFICES ASSUME LongEnough
             PROVE  Spec => []BlocksAreFound
  OBVIOUS
<1>1. IInv => BlocksAreFound
  BY BlockIs DEF BlocksAreFound
<1> QED BY <1>1, Invariance, PTL

(* The four fields of a node of the tree are read as they were stored,     *)
(* though they share bytes with the type bit, the bit that tells of the    *)
(* block before, and the place of the footer.                              *)
THEOREM EveryNodeReadsBack == LongEnough => (Spec => []NodesReadBack)
<1> SUFFICES ASSUME LongEnough
             PROVE  Spec => []NodesReadBack
  OBVIOUS
<1>1. ASSUME IInv, NEW a \in Blocks, IsFree(a)
      PROVE  Noded(mem, a, told[a].node)
  BY <1>1, InvFacts DEF Good, IsFree
<1>2. IInv => NodesReadBack
  BY <1>1 DEF NodesReadBack, Noded
<1> QED BY <1>2, Invariance, PTL

(* Every payload that was given out leads back to its block (mm.c:87).     *)
THEOREM EveryPayloadFindsBlock == LongEnough => (Spec => []PayloadFindsBlock)
<1> SUFFICES ASSUME LongEnough
             PROVE  Spec => []PayloadFindsBlock
  OBVIOUS
<1>1. IInv => PayloadFindsBlock
  BY BlockIs, InUseIs DEF PayloadFindsBlock
<1> QED BY <1>1, Invariance, PTL

(* No header is stored over a payload, and a payload that moves or is cut  *)
(* keeps what still belongs to it.                                         *)
THEOREM EveryPayloadIsKept == LongEnough => (Spec => []PayloadsAreKept)
<1> SUFFICES ASSUME LongEnough
             PROVE  Spec => []PayloadsAreKept
  OBVIOUS
<1>1. IInv => PayloadsAreKept
  BY InUseIs DEF PayloadsAreKept, KeptBytes
<1> QED BY <1>1, Invariance, PTL
=============================================================================

----------------------------- MODULE BasicFacts -----------------------------
(***************************************************************************)
(* Facts about numbers, sequences and finite sets that the proofs of       *)
(* several components need.                                                *)
(***************************************************************************)
EXTENDS Integers, SequencesExt, FiniteSets, SequenceTheorems, FiniteSetTheorems,
        WellFoundedInduction, TLAPS

(* A non-empty set of natural numbers has a least member.                  *)
LEMMA LeastNatural ==
  ASSUME NEW S \in SUBSET Nat, S # {}
  PROVE  \E i \in S : \A j \in S : i <= j
<1> DEFINE R == {ss \in Nat \X Nat : ss[1] < ss[2]}
<1>1. IsWellFoundedOn(R, Nat)
  BY NatLessThanWellFounded DEF OpToRel
<1>2. PICK i \in S : \A j \in S : ~ (<<j, i>> \in R)
  <2> HIDE DEF R
  <2> QED BY <1>1, WFMin
<1>3. \A j \in S : ~ (j < i)
  BY <1>2
<1> QED BY <1>3

(* Quotients and remainders.                                               *)
LEMMA Division ==
  ASSUME NEW B \in Nat \ {0}, NEW n \in Nat
  PROVE  n \div B \in Nat /\ n % B \in 0 .. (B - 1) /\ n = (n \div B) * B + (n % B)
OBVIOUS

LEMMA Products ==
  ASSUME NEW B \in Nat \ {0}, NEW a \in Nat, NEW b \in Nat, a < b
  PROVE  a * B + B <= b * B /\ a * B \in Nat /\ b * B \in Nat
OBVIOUS

LEMMA Quotient ==
  ASSUME NEW B \in Nat \ {0}, NEW k \in Nat, NEW w \in 0 .. (B - 1)
  PROVE  (k * B + w) \div B = k /\ (k * B + w) % B = w
<1> DEFINE n == k * B + w
           q == n \div B
           r == n % B
<1>1. n \in Nat /\ k * B \in Nat
  OBVIOUS
<1>2. q \in Nat /\ r \in 0 .. (B - 1) /\ n = q * B + r
  BY <1>1, Division
<1>3. k * B + w = q * B + r
  BY <1>2
<1> HIDE DEF n, q, r
<1>4. ASSUME k < q PROVE FALSE
  <2>1. k * B + B <= q * B
    BY <1>2, <1>4, Products
  <2> QED BY <1>1, <1>2, <1>3, <2>1
<1>5. ASSUME q < k PROVE FALSE
  <2>1. q * B + B <= k * B
    BY <1>2, <1>5, Products
  <2> QED BY <1>1, <1>2, <1>3, <2>1
<1>6. q = k
  BY <1>2, <1>4, <1>5
<1>7. r = w
  BY <1>1, <1>2, <1>3, <1>6
<1> QED BY <1>6, <1>7 DEF n, q, r

(* The members of a finite set of numbers by rank.                         *)
LEMMA RankGrows ==
  ASSUME NEW S, \A a \in S : a \in Nat, IsFiniteSet(S), NEW b \in S, NEW c \in S, b < c
  PROVE  Cardinality({a \in S : a < b}) < Cardinality({a \in S : a < c})
<1> DEFINE low == {a \in S : a < b}
           high == {a \in S : a < c}
<1>0. \A a \in S : a \in Nat
  OBVIOUS
<1>1. IsFiniteSet(high) /\ low \in SUBSET high /\ b \in high /\ b \notin low
  <2>1. high \in SUBSET S
    OBVIOUS
  <2>2. IsFiniteSet(high)
    BY <2>1, FS_Subset
  <2>3. low \in SUBSET high /\ b \in high /\ b \notin low
    BY <1>0
  <2> QED BY <2>2, <2>3
<1> HIDE DEF low, high
<1>2. IsFiniteSet(low) /\ Cardinality(low) <= Cardinality(high)
      /\ Cardinality(low) # Cardinality(high)
  BY <1>1, FS_Subset
<1>3. Cardinality(low) \in Nat /\ Cardinality(high) \in Nat
  BY <1>1, <1>2, FS_CardinalityType
<1> QED BY <1>2, <1>3 DEF low, high

LEMMA Ranked ==
  ASSUME NEW S, \A a \in S : a \in Nat, IsFiniteSet(S), NEW k \in Nat, k < Cardinality(S)
  PROVE  \E b \in S : Cardinality({a \in S : a < b}) = k
<1> DEFINE Rank(b) == Cardinality({a \in S : a < b})
           T == {m \in Nat : m < Cardinality(S) /\ ~ \E b \in S : Rank(b) = m}
<1>0. \A a \in S : a \in Nat
  OBVIOUS
<1> SUFFICES ASSUME T # {} PROVE FALSE
  OBVIOUS
<1>1. PICK m \in T : \A j \in T : m <= j
  <2>1. T \in SUBSET Nat
    OBVIOUS
  <2> HIDE DEF T
  <2> QED BY <2>1, LeastNatural
<1>2. Cardinality(S) \in Nat
  BY FS_CardinalityType
<1>3. CASE m = 0
  <2>1. S # {}
    BY <1>1, <1>3, FS_EmptySet
  <2>2. PICK b \in S : \A c \in S : b <= c
    BY <2>1, LeastNatural
  <2>3. {a \in S : a < b} = {}
    BY <1>0, <2>2
  <2>4. Rank(b) = 0
    BY <2>3, FS_EmptySet
  <2> QED BY <1>1, <1>3, <2>4
<1>4. CASE m # 0
  <2>1. m - 1 \in Nat /\ m - 1 < Cardinality(S) /\ m - 1 \notin T
    BY <1>1, <1>2, <1>4
  <2>2. PICK b \in S : Rank(b) = m - 1
    BY <2>1
  <2> DEFINE low == {a \in S : a < b}
             upto == low \cup {b}
             above == {a \in S : b < a}
  <2>3. IsFiniteSet(low) /\ b \notin low /\ Cardinality(low) = m - 1
    <3>1. low \in SUBSET S
      OBVIOUS
    <3> QED BY <2>2, <3>1, FS_Subset
  <2>4. IsFiniteSet(upto) /\ Cardinality(upto) = m
    <3> HIDE DEF low
    <3>1. Cardinality(upto) = (m - 1) + 1
      BY <2>3, FS_AddElement
    <3>2. IsFiniteSet(upto)
      BY <2>3, FS_AddElement
    <3> QED BY <1>1, <3>1, <3>2
  <2>5. above # {}
    <3> SUFFICES ASSUME above = {} PROVE FALSE
      OBVIOUS
    <3>1. upto = S
      BY <1>0
    <3> HIDE DEF upto, above
    <3> QED BY <1>1, <2>4, <3>1
  <2>6. PICK c \in above : \A e \in above : c <= e
    <3>1. above \in SUBSET Nat
      OBVIOUS
    <3> HIDE DEF above
    <3> QED BY <2>5, <3>1, LeastNatural
  <2>7. {a \in S : a < c} = upto
    BY <1>0, <2>6
  <2>8. Rank(c) = m /\ c \in S
    <3> HIDE DEF upto
    <3> QED BY <2>4, <2>6, <2>7
  <2> QED BY <1>1, <2>8
<1> QED BY <1>3, <1>4

(* An element leaves a sequence.                                           *)
LEMMA RemovedAt ==
  ASSUME NEW S, NEW s \in Seq(S), NEW e \in 1 .. Len(s)
  PROVE  /\ RemoveAt(s, e) \in Seq(S) /\ Len(RemoveAt(s, e)) = Len(s) - 1
         /\ \A k \in 1 .. (Len(s) - 1) : RemoveAt(s, e)[k] = IF k < e THEN s[k] ELSE s[k + 1]
<1> DEFINE n     == Len(s)
           front == SubSeq(s, 1, e - 1)
           tail  == SubSeq(s, e + 1, n)
<1>1. n \in Nat /\ \A k \in 1 .. n : s[k] \in S
  BY LenProperties, ElementOfSeq
<1>2. /\ front \in Seq(S) /\ Len(front) = e - 1
      /\ \A k \in 1 .. (e - 1) : front[k] = s[k]
  <2>1. /\ front \in Seq(S) /\ Len(front) = IF 1 <= e - 1 THEN (e - 1) - 1 + 1 ELSE 0
        /\ \A k \in 1 .. ((e - 1) - 1 + 1) : front[k] = s[1 + k - 1]
    BY <1>1, SubSeqProperties
  <2> HIDE DEF front, n
  <2>2. (e - 1) - 1 + 1 = e - 1 /\ \A k \in 1 .. (e - 1) : 1 + k - 1 = k
    BY <1>1
  <2> QED BY <1>1, <2>1, <2>2
<1>3. /\ tail \in Seq(S) /\ Len(tail) = n - e
      /\ \A k \in 1 .. (n - e) : tail[k] = s[e + k]
  <2>1. /\ tail \in Seq(S) /\ Len(tail) = IF e + 1 <= n THEN n - (e + 1) + 1 ELSE 0
        /\ \A k \in 1 .. (n - (e + 1) + 1) : tail[k] = s[(e + 1) + k - 1]
    BY <1>1, SubSeqProperties
  <2> HIDE DEF tail, n
  <2>2. n - (e + 1) + 1 = n - e /\ \A k \in 1 .. (n - e) : (e + 1) + k - 1 = e + k
    BY <1>1
  <2>3. e \in 1 .. n
    BY DEF n
  <2> QED BY <1>1, <2>1, <2>2, <2>3
<1>4. RemoveAt(s, e) = front \o tail
  BY DEF RemoveAt
<1>5. e \in 1 .. n
  OBVIOUS
<1> HIDE DEF front, tail
<1>6. /\ front \o tail \in Seq(S) /\ Len(front \o tail) = Len(front) + Len(tail)
      /\ \A k \in 1 .. (Len(front) + Len(tail)) :
           (front \o tail)[k] = IF k <= Len(front) THEN front[k] ELSE tail[k - Len(front)]
  BY <1>2, <1>3, ConcatProperties
<1> HIDE DEF n
<1>7. Len(front) + Len(tail) = n - 1
  BY <1>1, <1>2, <1>3, <1>5
<1>8. ASSUME NEW k \in 1 .. (n - 1)
      PROVE  (front \o tail)[k] = IF k < e THEN s[k] ELSE s[k + 1]
  <2>1. (front \o tail)[k] = IF k <= e - 1 THEN front[k] ELSE tail[k - (e - 1)]
    BY <1>2, <1>6, <1>7
  <2>2. CASE k < e
    BY <1>1, <1>2, <1>5, <2>1, <2>2
  <2>3. CASE ~ k < e
    <3>1. k - (e - 1) \in 1 .. (n - e) /\ e + (k - (e - 1)) = k + 1 /\ ~ k <= e - 1
      BY <1>1, <1>5, <2>3
    <3> QED BY <1>3, <2>1, <2>3, <3>1
  <2> QED BY <2>2, <2>3
<1> QED BY <1>4, <1>6, <1>7, <1>8 DEF n

-----------------------------------------------------------------------------
(* Sums of natural numbers over finite sets, as numbers of units; what the *)
(* folds of the community modules compute is shown to be such a number,    *)
(* whatever order they take the elements in.                               *)

Units(f, S) == {u \in S \X Nat : u[2] \in 1 .. f[u[1]]}
Weight(f, S) == Cardinality(Units(f, S))

LEMMA UnitsFinite ==
  ASSUME NEW S, IsFiniteSet(S), NEW f, \A x \in S : f[x] \in Nat
  PROVE  IsFiniteSet(Units(f, S)) /\ Weight(f, S) \in Nat
<1> DEFINE F == [x \in S |-> {x} \X (1 .. f[x])]
           T == {F[x] : x \in S}
<1>1. IsFiniteSet(T)
  <2>1. F \in Surjection(S, T)
    BY DEF Surjection
  <2> QED BY <2>1, FS_Surjection
<1>2. \A t \in T : IsFiniteSet(t)
  <2> TAKE t \in T
  <2>1. PICK x \in S : t = {x} \X (1 .. f[x])
    OBVIOUS
  <2>2. IsFiniteSet({x})
    BY FS_Singleton
  <2>3. IsFiniteSet(1 .. f[x])
    BY FS_Interval
  <2> QED BY <2>1, <2>2, <2>3, FS_Product
<1>3. IsFiniteSet(UNION T)
  <2> HIDE DEF T
  <2> QED BY <1>1, <1>2, FS_UNION
<1>4. Units(f, S) \in SUBSET UNION T
  <2> SUFFICES ASSUME NEW u \in Units(f, S) PROVE u \in UNION T
    OBVIOUS
  <2>1. u \in {u[1]} \X (1 .. f[u[1]]) /\ u[1] \in S
    BY DEF Units
  <2>2. F[u[1]] = {u[1]} \X (1 .. f[u[1]]) /\ F[u[1]] \in T
    BY <2>1
  <2> HIDE DEF F, T
  <2> QED BY <2>1, <2>2
<1>5. IsFiniteSet(Units(f, S))
  <2> HIDE DEF T
  <2> QED BY <1>3, <1>4, FS_Subset
<1> QED BY <1>5, FS_CardinalityType DEF Weight

LEMMA WeightOfNone ==
  ASSUME NEW f PROVE Weight(f, {}) = 0
<1>1. Units(f, {}) = {}
  BY DEF Units
<1> QED BY <1>1, FS_EmptySet DEF Weight

(* An element counts for what it has.                                      *)
LEMMA WeightOfMore ==
  ASSUME NEW S, IsFiniteSet(S), NEW f, \A x \in S : f[x] \in Nat, NEW x \in S
  PROVE  Weight(f, S) = f[x] + Weight(f, S \ {x}) /\ Weight(f, S \ {x}) \in Nat
<1> DEFINE R == S \ {x}
           A == Units(f, R)
           B == {u \in {x} \X Nat : u[2] \in 1 .. f[x]}
           n == f[x]
<1>1. IsFiniteSet(A) /\ Weight(f, R) \in Nat
  <2>1. IsFiniteSet(R)
    BY FS_RemoveElement
  <2> HIDE DEF R
  <2>2. \A y \in R : f[y] \in Nat
    BY DEF R
  <2> QED BY <2>1, <2>2, UnitsFinite
<1>2. n \in Nat
  OBVIOUS
<1>3. IsFiniteSet(B) /\ Cardinality(B) = n
  <2> DEFINE F == [k \in 1 .. n |-> <<x, k>>]
  <2>0. F \in [1 .. n -> B] /\ \A k \in 1 .. n : F[k] = <<x, k>>
    BY <1>2
  <2>a. \A u \in B : u[2] \in 1 .. n /\ u = <<x, u[2]>>
    BY <1>2
  <2>b. \A j, k \in 1 .. n : <<x, j>> = <<x, k>> => j = k
    OBVIOUS
  <2> HIDE DEF F, B
  <2>1. F \in Bijection(1 .. n, B)
    <3>1. F \in Injection(1 .. n, B)
      BY <2>0, <2>b DEF Injection, IsInjective
    <3>2. F \in Surjection(1 .. n, B)
      BY <2>0, <2>a DEF Surjection
    <3> QED BY <3>1, <3>2 DEF Bijection
  <2>2. ExistsBijection(1 .. n, B)
    BY <2>1 DEF ExistsBijection
  <2>3. IsFiniteSet(1 .. n) /\ Cardinality(1 .. n) = n
    BY <1>2, FS_Interval
  <2> QED BY <2>2, <2>3, FS_Bijection
<1>4. Units(f, S) = A \cup B /\ A \cap B = {}
  BY DEF Units
<1>5. Cardinality(A \cup B) = Cardinality(A) + Cardinality(B) - Cardinality(A \cap B)
  <2> HIDE DEF A, B
  <2> QED BY <1>1, <1>3, FS_Union
<1>6. Cardinality({}) = 0
  BY FS_EmptySet
<1>7. Weight(f, R) = Cardinality(A)
  BY DEF Weight
<1> HIDE DEF A, B, n, R
<1>8. Weight(f, S) = Cardinality(A) + n - 0
  BY <1>3, <1>4, <1>5, <1>6 DEF Weight
<1>9. Weight(f, S) = n + Weight(f, R) /\ Weight(f, R) \in Nat
  BY <1>1, <1>2, <1>7, <1>8
<1> QED BY <1>9 DEF n, R

LEMMA WeightSame ==
  ASSUME NEW S, NEW f, NEW g, \A x \in S : f[x] = g[x]
  PROVE  Weight(f, S) = Weight(g, S)
<1>1. Units(f, S) = Units(g, S)
  BY DEF Units
<1> QED BY <1>1 DEF Weight

(* The recursion of the folds: pick[s] is the element of s that is taken.  *)
Folds(h, f, pick, S) ==
  \A s \in SUBSET S :
    IF s = {} THEN h[s] = 0
    ELSE h[s \ {pick[s]}] \in Nat => h[s] = f[pick[s]] + h[s \ {pick[s]}]

LEMMA WeightFolds ==
  ASSUME NEW S, IsFiniteSet(S), NEW f, \A x \in S : f[x] \in Nat, NEW s \in SUBSET S, NEW x \in s
  PROVE  /\ Weight(f, s) = f[x] + Weight(f, s \ {x}) /\ Weight(f, s) = Weight(f, s \ {x}) + f[x]
<1>1. IsFiniteSet(s) /\ \A y \in s : f[y] \in Nat
  BY FS_Subset
<1>2. Weight(f, s) = f[x] + Weight(f, s \ {x}) /\ Weight(f, s \ {x}) \in Nat /\ f[x] \in Nat
  BY <1>1, WeightOfMore
<1> QED BY <1>2

LEMMA FoldIsWeight ==
  ASSUME NEW S, IsFiniteSet(S), NEW f, \A x \in S : f[x] \in Nat,
         NEW pick, \A s \in SUBSET S : s # {} => pick[s] \in s, NEW h, Folds(h, f, pick, S)
  PROVE  h[S] = Weight(f, S)
<1> DEFINE wrong(s) == h[s] # Weight(f, s)
           D == {Cardinality(s) : s \in {s \in SUBSET S : wrong(s)}}
<1>1. ASSUME NEW s \in SUBSET S
      PROVE  IF s = {} THEN h[s] = 0
             ELSE h[s \ {pick[s]}] \in Nat => h[s] = f[pick[s]] + h[s \ {pick[s]}]
  BY DEF Folds
<1>2. ASSUME NEW s \in SUBSET S PROVE IsFiniteSet(s) /\ Cardinality(s) \in Nat
  BY FS_Subset, FS_CardinalityType
<1>3. D \in SUBSET Nat
  BY <1>2
<1>4. ASSUME NEW s \in SUBSET S, wrong(s) PROVE FALSE
  <2>1. D # {}
    BY <1>4
  <2>2. PICK n \in D : \A m \in D : n <= m
    <3> HIDE DEF D
    <3> QED BY <1>3, <2>1, LeastNatural
  <2>3. PICK t \in SUBSET S : wrong(t) /\ n = Cardinality(t)
    OBVIOUS
  <2>4. t # {}
    BY <1>1, <2>3, WeightOfNone
  <2> DEFINE x == pick[t]
             r == t \ {x}
  <2>5. x \in t /\ r \in SUBSET S
    BY <2>4
  <2>6. IsFiniteSet(t) /\ Cardinality(r) = n - 1 /\ n \in Nat
    BY <1>2, <2>3, <2>5, FS_RemoveElement
  <2>7. ~ wrong(r)
    <3>1. ASSUME wrong(r) PROVE FALSE
      <4>1. Cardinality(r) \in D
        BY <2>5, <3>1
      <4> HIDE DEF D, r
      <4> QED BY <2>2, <2>6, <4>1
    <3> QED BY <3>1
  <2>8. Weight(f, t) = f[x] + Weight(f, r) /\ Weight(f, r) \in Nat
    <3>1. \A y \in t : f[y] \in Nat
      OBVIOUS
    <3> QED BY <2>5, <2>6, <3>1, WeightOfMore
  <2>9. h[t] = f[x] + h[r]
    BY <1>1, <2>4, <2>7, <2>8
  <2> QED BY <2>3, <2>7, <2>8, <2>9
<1> QED BY <1>4

(* The two folds.                                                          *)
LEMMA SumIsWeight ==
  ASSUME NEW S, IsFiniteSet(S), NEW f, \A x \in S : f[x] \in Nat
  PROVE  SumFunctionOnSet(f, S) = Weight(f, S)
<1> DEFINE pick == [s \in SUBSET S |-> CHOOSE x \in s : TRUE]
           G(g) == g = [s \in SUBSET S |-> IF s = {} THEN 0
                                           ELSE LET x == CHOOSE x \in s : TRUE
                                                IN  f[x] + g[s \ {x}]]
           h == [s \in SUBSET S |-> Weight(f, s)]
<1>1. SumFunctionOnSet(f, S) = (CHOOSE g : G(g))[S]
  BY DEF SumFunctionOnSet, FoldFunctionOnSet, MapThenFoldSet
<1>2. \A s \in SUBSET S : /\ s # {} => pick[s] \in s
                          /\ pick[s] = CHOOSE x \in s : TRUE
  OBVIOUS
<1>3. ASSUME NEW g, G(g) PROVE Folds(g, f, pick, S)
  <2>1. \A s \in SUBSET S : g[s] = IF s = {} THEN 0
                                   ELSE f[CHOOSE x \in s : TRUE] + g[s \ {CHOOSE x \in s : TRUE}]
    BY <1>3
  <2> HIDE DEF pick
  <2> QED BY <1>2, <2>1 DEF Folds
<1>4. G(h)
  <2>1. ASSUME NEW s \in SUBSET S
        PROVE  Weight(f, s) = IF s = {} THEN 0
                             ELSE LET x == CHOOSE x \in s : TRUE IN f[x] + h[s \ {x}]
    <3>1. CASE s = {}
      BY <3>1, WeightOfNone
    <3>2. CASE s # {}
      <4> DEFINE x == CHOOSE x \in s : TRUE
      <4>1. x \in s
        BY <3>2
      <4> HIDE DEF x
      <4>2. h[s \ {x}] = Weight(f, s \ {x})
        OBVIOUS
      <4>3. Weight(f, s) = f[x] + h[s \ {x}]
        BY <4>1, <4>2, WeightFolds
      <4> QED BY <3>2, <4>3 DEF x
    <3> QED BY <3>1, <3>2
  <2> QED BY <2>1
<1> HIDE DEF G, pick, h
<1>5. G(CHOOSE g : G(g))
  BY <1>4
<1>6. Folds(CHOOSE g : G(g), f, pick, S)
  BY <1>3, <1>5
<1> QED BY <1>1, <1>2, <1>6, FoldIsWeight

LEMMA GreatestNatural ==
  ASSUME NEW n \in Nat, NEW S \in SUBSET (0 .. n), S # {}
  PROVE  \E i \in S : \A j \in S : j <= i
<1> DEFINE T == {m \in Nat : \A j \in S : j <= m}
<1>1. n \in T /\ T \in SUBSET Nat
  OBVIOUS
<1> HIDE DEF T
<1>2. PICK m \in T : \A k \in T : m <= k
  BY <1>1, LeastNatural
<1>3. m \in Nat /\ \A j \in S : j <= m
  BY DEF T
<1>4. CASE m \in S
  BY <1>3, <1>4
<1>5. CASE m \notin S
  <2>1. \A j \in S : j \in Nat /\ j < m
    BY <1>3, <1>5
  <2>2. m > 0
    <3>1. PICK j \in S : TRUE
      OBVIOUS
    <3>2. j \in Nat /\ j < m
      BY <2>1
    <3> QED BY <1>3, <3>2
  <2>3. m - 1 \in Nat /\ \A j \in S : j <= m - 1
    BY <1>3, <2>1, <2>2
  <2>4. m - 1 \in T
    BY <2>3 DEF T
  <2> QED BY <1>2, <1>3, <2>4
<1> QED BY <1>4, <1>5

LEMMA FoldLeftIsWeight ==
  ASSUME NEW s \in Seq(Nat)
  PROVE  FoldLeft(LAMBDA sum, e : sum + e, 0, s) = Weight(s, DOMAIN s)
<1> DEFINE S == DOMAIN s
           pick == [r \in SUBSET S |-> Max(r)]
           G(g) == g = [r \in SUBSET S |-> IF r = {} THEN 0
                                           ELSE LET x == Max(r) IN g[r \ {x}] + s[x]]
           h == [r \in SUBSET S |-> Weight(s, r)]
<1>1. FoldLeft(LAMBDA sum, e : sum + e, 0, s) = (CHOOSE g : G(g))[S]
  BY DEF FoldLeft, MapThenFoldSet
<1>2. S = 1 .. Len(s) /\ Len(s) \in Nat /\ IsFiniteSet(S) /\ \A x \in S : s[x] \in Nat
  <2>1. Len(s) \in Nat /\ DOMAIN s = 1 .. Len(s)
    BY LenProperties
  <2>2. IsFiniteSet(1 .. Len(s))
    BY <2>1, FS_Interval
  <2>3. \A x \in 1 .. Len(s) : s[x] \in Nat
    BY <2>1, ElementOfSeq
  <2> QED BY <2>1, <2>2, <2>3
<1>3. ASSUME NEW r \in SUBSET S, r # {} PROVE Max(r) \in r
  <2>1. r \in SUBSET (0 .. Len(s))
    BY <1>2
  <2>2. PICK m \in r : \A k \in r : k <= m
    BY <1>2, <1>3, <2>1, GreatestNatural
  <2>3. \A k \in r : m >= k
    BY <1>2, <2>1, <2>2
  <2> QED BY <2>3, Zenon DEF Max
<1>4. \A r \in SUBSET S : (r # {} => pick[r] \in r) /\ pick[r] = Max(r)
  BY <1>3
<1> HIDE DEF S
<1>5. ASSUME NEW g, G(g) PROVE Folds(g, s, pick, S)
  <2>1. \A r \in SUBSET S : g[r] = IF r = {} THEN 0 ELSE g[r \ {Max(r)}] + s[Max(r)]
    BY <1>5
  <2> HIDE DEF pick
  <2> SUFFICES ASSUME NEW r \in SUBSET S, r # {}, g[r \ {pick[r]}] \in Nat
               PROVE  g[r] = s[pick[r]] + g[r \ {pick[r]}]
    BY <2>1 DEF Folds
  <2>2. s[pick[r]] \in Nat /\ g[r] = g[r \ {pick[r]}] + s[pick[r]]
    BY <1>2, <1>4, <2>1
  <2> QED BY <2>2
<1>6. G(h)
  <2>1. ASSUME NEW r \in SUBSET S
        PROVE  Weight(s, r) = IF r = {} THEN 0 ELSE LET x == Max(r) IN h[r \ {x}] + s[x]
    <3>1. CASE r = {}
      BY <3>1, WeightOfNone
    <3>2. CASE r # {}
      <4> DEFINE x == Max(r)
      <4>1. x \in r
        BY <1>3, <3>2
      <4> HIDE DEF x
      <4>2. h[r \ {x}] = Weight(s, r \ {x})
        OBVIOUS
      <4>3. Weight(s, r) = h[r \ {x}] + s[x]
        <5>1. Weight(s, r) = Weight(s, r \ {x}) + s[x]
          <6>1. IsFiniteSet(S) /\ \A y \in S : s[y] \in Nat
            BY <1>2
          <6> QED BY <4>1, <6>1, WeightFolds
        <5> QED BY <4>2, <5>1
      <4> QED BY <3>2, <4>3 DEF x
    <3> QED BY <3>1, <3>2
  <2> QED BY <2>1
<1> HIDE DEF G, pick, h
<1>7. G(CHOOSE g : G(g))
  BY <1>6
<1>8. Folds(CHOOSE g : G(g), s, pick, S)
  BY <1>5, <1>7
<1> QED BY <1>1, <1>2, <1>4, <1>8, FoldIsWeight DEF S

(* An element is put before the i-th.                                      *)
LEMMA InsertedAt ==
  ASSUME NEW S, NEW s \in Seq(S), NEW i \in 1 .. Len(s) + 1, NEW e \in S
  PROVE  /\ InsertAt(s, i, e) \in Seq(S) /\ Len(InsertAt(s, i, e)) = Len(s) + 1
         /\ \A k \in 1 .. (Len(s) + 1) :
              InsertAt(s, i, e)[k] = IF k < i THEN s[k] ELSE IF k = i THEN e ELSE s[k - 1]
<1> DEFINE n     == Len(s)
           front == SubSeq(s, 1, i - 1)
           one   == <<e>>
           tail  == SubSeq(s, i, n)
           mid   == front \o one
<1>1. n \in Nat /\ \A k \in 1 .. n : s[k] \in S
  BY LenProperties, ElementOfSeq
<1>2. /\ front \in Seq(S) /\ Len(front) = i - 1
      /\ \A k \in 1 .. (i - 1) : front[k] = s[k]
  <2>1. /\ front \in Seq(S) /\ Len(front) = IF 1 <= i - 1 THEN (i - 1) - 1 + 1 ELSE 0
        /\ \A k \in 1 .. ((i - 1) - 1 + 1) : front[k] = s[1 + k - 1]
    BY <1>1, SubSeqProperties
  <2> HIDE DEF front, n
  <2>2. (i - 1) - 1 + 1 = i - 1 /\ \A k \in 1 .. (i - 1) : 1 + k - 1 = k
    BY <1>1
  <2> QED BY <1>1, <2>1, <2>2
<1>3. /\ tail \in Seq(S) /\ Len(tail) = n - i + 1
      /\ \A k \in 1 .. (n - i + 1) : tail[k] = s[i + k - 1]
  <2>1. /\ tail \in Seq(S) /\ Len(tail) = IF i <= n THEN n - i + 1 ELSE 0
        /\ \A k \in 1 .. (n - i + 1) : tail[k] = s[i + k - 1]
    BY <1>1, SubSeqProperties
  <2>2. i \in 1 .. n + 1
    BY DEF n
  <2> HIDE DEF tail, n
  <2> QED BY <1>1, <2>1, <2>2
<1>4. one \in Seq(S) /\ Len(one) = 1 /\ one[1] = e
  OBVIOUS
<1>5. InsertAt(s, i, e) = mid \o tail
  BY DEF InsertAt
<1>6. i \in 1 .. n + 1
  OBVIOUS
<1> HIDE DEF front, tail, one
<1>7. /\ mid \in Seq(S) /\ Len(mid) = Len(front) + Len(one)
      /\ \A k \in 1 .. (Len(front) + Len(one)) :
           mid[k] = IF k <= Len(front) THEN front[k] ELSE one[k - Len(front)]
  BY <1>2, <1>4, ConcatProperties
<1> HIDE DEF mid
<1>8. /\ mid \o tail \in Seq(S) /\ Len(mid \o tail) = Len(mid) + Len(tail)
      /\ \A k \in 1 .. (Len(mid) + Len(tail)) :
           (mid \o tail)[k] = IF k <= Len(mid) THEN mid[k] ELSE tail[k - Len(mid)]
  <2>1. mid \in Seq(S) /\ tail \in Seq(S)
    BY <1>3, <1>7
  <2> QED BY <2>1, ConcatProperties
<1> HIDE DEF n
<1>9. Len(mid) = i /\ Len(mid) + Len(tail) = n + 1
  BY <1>1, <1>2, <1>3, <1>4, <1>6, <1>7
<1>10. ASSUME NEW k \in 1 .. (n + 1)
       PROVE  (mid \o tail)[k] = IF k < i THEN s[k] ELSE IF k = i THEN e ELSE s[k - 1]
  <2>1. (mid \o tail)[k] = IF k <= i THEN mid[k] ELSE tail[k - i]
    BY <1>8, <1>9
  <2>2. CASE k < i
    <3>1. k \in 1 .. (Len(front) + Len(one)) /\ k <= Len(front) /\ k \in 1 .. (i - 1)
      BY <1>1, <1>2, <1>4, <1>6, <2>2
    <3>2. mid[k] = s[k]
      BY <1>2, <1>7, <3>1
    <3> QED BY <1>6, <2>1, <2>2, <3>2
  <2>3. CASE k = i
    <3>1. k \in 1 .. (Len(front) + Len(one)) /\ ~ k <= Len(front) /\ k - Len(front) = 1
      BY <1>1, <1>2, <1>4, <1>6, <2>3
    <3>2. mid[k] = e
      BY <1>4, <1>7, <3>1
    <3> QED BY <1>6, <2>1, <2>3, <3>2
  <2>4. CASE k > i
    <3>1. k - i \in 1 .. (n - i + 1) /\ i + (k - i) - 1 = k - 1 /\ ~ k <= i
      BY <1>1, <1>6, <2>4
    <3>2. tail[k - i] = s[k - 1]
      BY <1>3, <3>1
    <3>3. (mid \o tail)[k] = s[k - 1] /\ ~ k < i /\ k # i
      BY <1>1, <1>6, <2>1, <2>4, <3>1, <3>2
    <3> QED BY <3>3
  <2>5. k < i \/ k = i \/ k > i
    BY <1>1, <1>6
  <2> QED BY <1>1, <1>6, <2>2, <2>3, <2>4, <2>5
<1> QED BY <1>5, <1>8, <1>9, <1>10 DEF n

(* Quotients and remainders of integers.                                   *)
LEMMA DivisionInt ==
  ASSUME NEW B \in Nat \ {0}, NEW n \in Int
  PROVE  n \div B \in Int /\ n % B \in 0 .. (B - 1) /\ n = (n \div B) * B + (n % B)
OBVIOUS

LEMMA ProductsInt ==
  ASSUME NEW B \in Nat \ {0}, NEW a \in Int, NEW b \in Int, a < b
  PROVE  a * B + B <= b * B /\ a * B \in Int /\ b * B \in Int
OBVIOUS

LEMMA QuotientInt ==
  ASSUME NEW B \in Nat \ {0}, NEW k \in Int, NEW w \in 0 .. (B - 1)
  PROVE  (k * B + w) \div B = k /\ (k * B + w) % B = w
<1> DEFINE n == k * B + w
           q == n \div B
           r == n % B
<1>1. n \in Int /\ k * B \in Int
  OBVIOUS
<1>2. q \in Int /\ r \in 0 .. (B - 1) /\ n = q * B + r
  BY <1>1, DivisionInt
<1>3. k * B + w = q * B + r
  BY <1>2
<1> HIDE DEF n, q, r
<1>4. ASSUME k < q PROVE FALSE
  <2>1. k * B + B <= q * B /\ q * B \in Int
    BY <1>2, <1>4, ProductsInt
  <2> QED BY <1>1, <1>2, <1>3, <2>1
<1>5. ASSUME q < k PROVE FALSE
  <2>1. q * B + B <= k * B /\ q * B \in Int
    BY <1>2, <1>5, ProductsInt
  <2> QED BY <1>1, <1>2, <1>3, <2>1
<1>6. q = k
  BY <1>2, <1>4, <1>5
<1>7. r = w
  BY <1>1, <1>2, <1>3, <1>6
<1> QED BY <1>6, <1>7 DEF n, q, r

=============================================================================

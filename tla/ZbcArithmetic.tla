--------------------------- MODULE ZbcArithmetic ---------------------------
(***************************************************************************)
(* Facts about numbers that the proofs of several components rest on:      *)
(* integer division, for the library's unit conversions and alignment      *)
(* checks; induction, for layouts and arrays of any size; and the order of *)
(* reports.                                                                *)
(***************************************************************************)
EXTENDS ZbcOrder, TLAPS, WellFoundedInduction, FiniteSetTheorems,
        FunctionTheorems

\* Division with remainder: the quotient of libzbc's unit conversions.
LEMMA DivFacts ==
  ASSUME NEW x \in Nat, NEW p \in Nat \ {0}
  PROVE  /\ x \div p \in Nat
         /\ p * (x \div p) <= x
         /\ x < p * (x \div p) + p
  OBVIOUS

\* The remainder, which the alignment checks of the library test.
LEMMA ModFacts ==
  ASSUME NEW x \in Nat, NEW p \in Nat \ {0}
  PROVE  /\ x % p \in Nat /\ x % p < p
         /\ x = p * (x \div p) + (x % p)
  OBVIOUS

\* A multiple is the size times the quotient.
LEMMA Quotient ==
  ASSUME NEW x \in Nat, NEW p \in Nat \ {0}, x % p = 0
  PROVE  x \div p \in Nat /\ x = p * (x \div p)
  BY ModFacts, DivFacts

\* Multiplication by a page or block size is monotone.
LEMMA MulMono ==
  ASSUME NEW a \in Nat, NEW b \in Nat, NEW p \in Nat, a <= b
  PROVE  p * a <= p * b
  OBVIOUS

\* A quotient is bounded by any q whose next multiple exceeds x.
LEMMA DivUpper ==
  ASSUME NEW x \in Nat, NEW p \in Nat \ {0}, NEW q \in Nat, x < p * q + p
  PROVE  x \div p <= q
<1>1. SUFFICES ASSUME x \div p >= q + 1 PROVE FALSE
  BY DivFacts
<1>2. p * (q + 1) <= p * (x \div p)
  BY <1>1, MulMono, DivFacts
<1> QED BY <1>2, DivFacts

\* A multiple of p has remainder 0 and the expected quotient.
LEMMA MultipleMod ==
  ASSUME NEW p \in Nat \ {0}, NEW q \in Nat
  PROVE  /\ (p * q) % p = 0
         /\ (p * q) \div p = q
<1> DEFINE x == p * q
<1>0. x \in Nat
  OBVIOUS
<1>1. x \div p <= q
  BY <1>0, DivUpper
<1>2. q <= x \div p
  <2>1. SUFFICES ASSUME x \div p <= q - 1 PROVE FALSE
    BY <1>0, DivFacts
  <2>2. q - 1 \in Nat
    BY <2>1, <1>0, DivFacts
  <2>3. p * (x \div p) <= p * (q - 1)
    BY <2>1, <2>2, <1>0, DivFacts, MulMono
  <2>4. p * (q - 1) = p * q - p
    BY <2>2
  <2> QED BY <2>3, <2>4, <1>0, DivFacts
<1>3. x \div p = q
  BY <1>0, <1>1, <1>2, DivFacts
<1>4. x % p = 0
  BY <1>0, <1>3, ModFacts
<1> QED BY <1>3, <1>4

\* Aligned values: rounding to a block changes nothing, and sums and
\* differences stay aligned (the offsets of the read and write loops).
LEMMA AlignedFacts ==
  ASSUME NEW p \in Nat \ {0}, NEW a \in Nat, NEW b \in Nat,
         a % p = 0, b % p = 0
  PROVE  /\ (a \div p) * p = a
         /\ (a + b) % p = 0
         /\ a >= b => (a - b) % p = 0
<1> DEFINE qa == a \div p
           qb == b \div p
<1>1. qa \in Nat /\ qb \in Nat /\ a = p * qa /\ b = p * qb
  BY ModFacts, DivFacts
<1>2. (a + b) % p = 0
  <2>1. a + b = p * (qa + qb)
    BY <1>1
  <2> HIDE DEF qa, qb
  <2> QED BY <1>1, <2>1, MultipleMod
<1>3. ASSUME a >= b PROVE (a - b) % p = 0
  <2> HIDE DEF qa, qb
  <2>1. qa >= qb
    <3>1. SUFFICES ASSUME qa + 1 <= qb PROVE FALSE
      BY <1>1
    <3>2. p * (qa + 1) <= p * qb
      BY <1>1, <3>1, MulMono
    <3> QED BY <1>1, <1>3, <3>2
  <2>2. a - b = p * (qa - qb)
    BY <1>1
  <2>3. qa - qb \in Nat
    BY <1>1, <2>1
  <2> QED BY <2>2, <2>3, MultipleMod
<1> QED BY <1>1, <1>2, <1>3

\* Alignment to a larger block implies alignment to one that divides it.
LEMMA AlignedTrans ==
  ASSUME NEW p \in Nat \ {0}, NEW b \in Nat \ {0}, NEW x \in Nat,
         b % p = 0, x % b = 0
  PROVE  x % p = 0
<1> DEFINE m == b \div p
           q == x \div b
<1>1. m \in Nat /\ q \in Nat /\ b = p * m /\ x = b * q
  BY ModFacts, DivFacts
<1> HIDE DEF m, q
<1>2. m * q \in Nat /\ x = p * (m * q)
  BY <1>1
<1> QED BY <1>2, MultipleMod

-----------------------------------------------------------------------------
(***************************************************************************)
(* Induction: a set of naturals has a least element, so that a set that    *)
(* holds 0 and all successors of its elements is all of Nat.               *)
(***************************************************************************)
LEMMA LeastNatural ==
  ASSUME NEW T \in SUBSET Nat, T # {}
  PROVE  \E m \in T : \A k \in T : m <= k
<1> DEFINE R == OpToRel(<, Nat)
<1>1. IsWellFoundedOn(R, Nat)
  BY NatLessThanWellFounded
<1>2. \A x, y \in Nat : x < y => <<x, y>> \in R
  BY DEF OpToRel
<1> HIDE DEF R
<1>3. \E x \in T : \A y \in T : ~(<<y, x>> \in R)
  BY <1>1, WFMin
<1>4. \A x, y \in Nat : ~(x < y) => y <= x
  OBVIOUS
<1> QED BY <1>2, <1>3, <1>4

LEMMA SetInduction ==
  ASSUME NEW S, 0 \in S, \A n \in Nat : n \in S => n + 1 \in S
  PROVE  Nat \subseteq S
<1> DEFINE T == Nat \ S
<1> SUFFICES ASSUME T # {} PROVE FALSE
  OBVIOUS
<1>1. PICK m \in T : \A k \in T : m <= k
  BY LeastNatural
<1>2. m \in Nat /\ m - 1 \in Nat /\ m - 1 \notin T
  BY <1>1
<1>3. m - 1 \in S /\ (m - 1) + 1 = m
  BY <1>2
<1> QED BY <1>2, <1>3

-----------------------------------------------------------------------------
(***************************************************************************)
(* The order of a report.  The rank of a number in a finite set is the     *)
(* number of elements of the set up to it.                                 *)
(***************************************************************************)
LEMMA IntervalSize ==
  ASSUME NEW n \in Nat
  PROVE  IsFiniteSet(1..n) /\ Cardinality(1..n) = n
<1>1. 1 \in Int /\ n \in Int
  OBVIOUS
<1>2. IsFiniteSet(1..n) /\ Cardinality(1..n) = IF 1 > n THEN 0 ELSE n - 1 + 1
  BY <1>1, FS_Interval
<1>3. (IF 1 > n THEN 0 ELSE n - 1 + 1) = n
  OBVIOUS
<1> QED BY <1>2, <1>3

UpTo(S, z) == {y \in S : y <= z}

LEMMA RankFacts ==
  ASSUME NEW S \in SUBSET Nat, IsFiniteSet(S), NEW y \in S, NEW z \in S
  PROVE  /\ Cardinality(UpTo(S, z)) \in 1..Cardinality(S)
         /\ y < z <=> Cardinality(UpTo(S, y)) < Cardinality(UpTo(S, z))
<1>1. \A w \in S : w \in Nat
  OBVIOUS
<1>2. ASSUME NEW w \in S PROVE Cardinality(UpTo(S, w)) \in 1..Cardinality(S)
  <2>1. UpTo(S, w) \in SUBSET S /\ w \in UpTo(S, w)
    BY <1>1 DEF UpTo
  <2>2. /\ IsFiniteSet(S) /\ Cardinality(S) \in Nat
        /\ IsFiniteSet(UpTo(S, w)) /\ Cardinality(UpTo(S, w)) \in Nat
    BY <2>1, FS_Subset, FS_CardinalityType
  <2>3. Cardinality(UpTo(S, w)) <= Cardinality(S)
    BY <2>1, <2>2, FS_Subset
  <2>4. Cardinality(UpTo(S, w)) # 0
    BY <2>1, <2>2, FS_EmptySet
  <2> QED BY <2>2, <2>3, <2>4
<1>3. ASSUME NEW v \in S, NEW w \in S, v < w
      PROVE  Cardinality(UpTo(S, v)) < Cardinality(UpTo(S, w))
  <2>1. /\ UpTo(S, v) \in SUBSET UpTo(S, w)
        /\ w \in UpTo(S, w) /\ w \notin UpTo(S, v)
    <3>1. v \in Nat /\ w \in Nat /\ ~(w <= v) /\ w <= w
      BY <1>1, <1>3
    <3>2. \A x \in S : x <= v => x <= w
      BY <1>1, <1>3
    <3> QED BY <3>1, <3>2 DEF UpTo
  <2>2. IsFiniteSet(UpTo(S, w))
    <3>1. UpTo(S, w) \in SUBSET S
      BY DEF UpTo
    <3> QED BY <3>1, FS_Subset
  <2>3. /\ Cardinality(UpTo(S, v)) <= Cardinality(UpTo(S, w))
        /\ Cardinality(UpTo(S, v)) # Cardinality(UpTo(S, w))
    BY <2>1, <2>2, FS_Subset
  <2> QED BY <2>3, <1>2
<1>4. y \in Nat /\ z \in Nat
  BY <1>1
<1>5. /\ Cardinality(UpTo(S, y)) \in Nat /\ Cardinality(UpTo(S, z)) \in Nat
  BY <1>2
<1>6. z < y => Cardinality(UpTo(S, z)) < Cardinality(UpTo(S, y))
  BY <1>3
<1>7. y < z => Cardinality(UpTo(S, y)) < Cardinality(UpTo(S, z))
  BY <1>3
<1>8. Cardinality(UpTo(S, y)) < Cardinality(UpTo(S, z)) => y < z
  BY <1>4, <1>5, <1>6
<1> QED BY <1>2, <1>7, <1>8

\* Each rank is taken, because there are as many as elements.
LEMMA RankTaken ==
  ASSUME NEW S \in SUBSET Nat, IsFiniteSet(S), NEW k \in 1..Cardinality(S)
  PROVE  \E z \in S : Cardinality(UpTo(S, z)) = k
<1> DEFINE n == Cardinality(S)
           f == [z \in S |-> Cardinality(UpTo(S, z))]
<1>1. IsFiniteSet(S) /\ n \in Nat
  BY FS_CardinalityType
<1>2. f \in [S -> 1..n]
  BY RankFacts
<1>3. \A y, z \in S : f[y] = f[z] => y = z
  <2> SUFFICES ASSUME NEW y \in S, NEW z \in S, f[y] = f[z] PROVE y = z
    OBVIOUS
  <2>1. f[y] \in Nat /\ f[z] \in Nat /\ y \in Nat /\ z \in Nat
    BY <1>2
  <2>2. ~(y < z) /\ ~(z < y)
    BY <2>1, RankFacts
  <2> QED BY <2>1, <2>2
<1>4. f \in Bijection(S, Range(f))
  <2>1. f \in Injection(S, 1..n)
    BY <1>2, <1>3, Fun_IsInj
  <2> HIDE DEF f
  <2> QED BY <2>1, Fun_InjMeansBijImage
<1>5. IsFiniteSet(Range(f)) /\ Cardinality(Range(f)) = n
  BY <1>1, <1>4, FS_Bijection, Fun_ExistsBij
<1>6. Range(f) \in SUBSET (1..n)
  BY <1>2 DEF Range
<1>7. IsFiniteSet(1..n) /\ Cardinality(1..n) = n
  BY <1>1, IntervalSize
<1>8. Range(f) = 1..n
  BY <1>5, <1>6, <1>7, FS_Subset
<1>9. k \in Range(f)
  BY <1>8
<1> QED BY <1>9 DEF Range

\* InOrder lists each element of the set once, in ascending order.
LEMMA InOrderFacts ==
  ASSUME NEW S \in SUBSET Nat, IsFiniteSet(S)
  PROVE  /\ InOrder(S) \in Seq(S) /\ Len(InOrder(S)) = Cardinality(S)
         /\ Cardinality(S) \in Nat
         /\ \A j, k \in 1..Cardinality(S) : j < k => InOrder(S)[j] < InOrder(S)[k]
         /\ \A z \in S : \E k \in 1..Cardinality(S) : InOrder(S)[k] = z
<1> DEFINE n == Cardinality(S)
           s == InOrder(S)
<1>1. n \in Nat
  BY FS_CardinalityType
<1>2. ASSUME NEW k \in 1..n
      PROVE  s[k] \in S /\ Cardinality(UpTo(S, s[k])) = k
  <2>1. \E z \in S : Cardinality(UpTo(S, z)) = k
    BY RankTaken
  <2>2. s[k] = CHOOSE z \in S : Cardinality(UpTo(S, z)) = k
    BY DEF InOrder, UpTo
  <2> QED BY <2>1, <2>2
<1>3. s \in Seq(S) /\ Len(s) = n
  <2>1. s = [k \in 1..n |-> s[k]]
    BY DEF InOrder
  <2> HIDE DEF s, n
  <2> QED BY <2>1, <1>1, <1>2
<1>4. ASSUME NEW j \in 1..n, NEW k \in 1..n, j < k PROVE s[j] < s[k]
  <2>1. s[j] \in S /\ s[k] \in S
    BY <1>2
  <2>2. s[j] < s[k] <=> Cardinality(UpTo(S, s[j])) < Cardinality(UpTo(S, s[k]))
    BY <2>1, RankFacts, Zenon
  <2> QED BY <2>2, <1>2, <1>4
<1>5. ASSUME NEW z \in S PROVE \E k \in 1..n : s[k] = z
  <2> DEFINE k == Cardinality(UpTo(S, z))
  <2>1. k \in 1..n
    BY RankFacts
  <2>2. s[k] \in S /\ Cardinality(UpTo(S, s[k])) = k
    BY <2>1, <1>2
  <2>3. ~(z < s[k]) /\ ~(s[k] < z)
    <3>1. /\ z < s[k] <=> Cardinality(UpTo(S, z)) < Cardinality(UpTo(S, s[k]))
          /\ s[k] < z <=> Cardinality(UpTo(S, s[k])) < Cardinality(UpTo(S, z))
      BY <2>2, RankFacts, Zenon
    <3>2. ~(k < k)
      BY <2>1
    <3> QED BY <2>2, <3>1, <3>2
  <2>4. z \in Nat /\ s[k] \in Nat
    BY <2>2
  <2>5. s[k] = z
    BY <2>3, <2>4
  <2> QED BY <2>1, <2>5
<1> QED BY <1>1, <1>3, <1>4, <1>5

=============================================================================

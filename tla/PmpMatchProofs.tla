--------------------------- MODULE PmpMatchProofs ---------------------------
(***************************************************************************)
(* The comparators match the block their mode stands for, for every number *)
(* of entries, width and granularity: bits against numbers.                *)
(***************************************************************************)
EXTENDS PmpMatch, PmpCsrProofs, FiniteSets, FiniteSetTheorems, WellFoundedInduction

-----------------------------------------------------------------------------
(* Powers of two and division.                                             *)

\* The subsets of a set of n elements are 2^n.
LEMMA PowIs ==
  ASSUME NEW n \in Nat
  PROVE  IsFiniteSet(SUBSET (1 .. n)) /\ Cardinality(SUBSET (1 .. n)) = 2^n
<1>1. IsFiniteSet(1 .. n) /\ Cardinality(1 .. n) = n
  BY FS_Interval
<1> QED BY <1>1, FS_SUBSET

\* Powers of two are numbers.
LEMMA PowNat == \A n \in Nat : 2^n \in Nat
<1> TAKE n \in Nat
<1>1. Cardinality(SUBSET (1 .. n)) \in Nat
  BY PowIs, FS_CardinalityType
<1> QED BY <1>1, PowIs

\* 2^(n + 1) = 2 * 2^n: the subsets with n + 1 are as many as those without.
LEMMA PowSucc ==
  ASSUME NEW n \in Nat
  PROVE  2^(n + 1) = 2 * 2^n
<1> DEFINE A == SUBSET (1 .. n)
           B == {a \cup {n + 1} : a \in A}
<1>1. IsFiniteSet(A) /\ Cardinality(A) = 2^n
  BY PowIs
<1>2. SUBSET (1 .. (n + 1)) = A \cup B
  <2>1. ASSUME NEW x \in SUBSET (1 .. (n + 1)) PROVE x \in A \cup B
    <3>1. CASE n + 1 \in x
      <4>1. x = (x \ {n + 1}) \cup {n + 1} /\ x \ {n + 1} \in A
        BY <3>1
      <4> QED BY <4>1
    <3>2. CASE n + 1 \notin x
      BY <3>2
    <3> QED BY <3>1, <3>2
  <2>2. \A x \in A \cup B : x \subseteq 1 .. (n + 1)
    <3>1. 1 .. n \subseteq 1 .. (n + 1) /\ n + 1 \in 1 .. (n + 1)
      OBVIOUS
    <3> QED BY <3>1
  <2> HIDE DEF A, B
  <2> QED BY <2>1, <2>2
<1>3. A \cap B = {}
  OBVIOUS
<1>4. ExistsBijection(A, B)
  <2> DEFINE f == [a \in A |-> a \cup {n + 1}]
  <2>1. f \in Bijection(A, B)
    <3>1. ASSUME NEW a \in A, NEW b \in A, f[a] = f[b] PROVE a = b
      <4>1. a = (a \cup {n + 1}) \ {n + 1} /\ b = (b \cup {n + 1}) \ {n + 1}
        OBVIOUS
      <4> QED BY <3>1, <4>1
    <3>2. f \in [A -> B] /\ \A b \in B : \E a \in A : f[a] = b
      OBVIOUS
    <3> HIDE DEF f
    <3> QED BY <3>1, <3>2 DEF Bijection, Injection, Surjection, IsInjective
  <2> QED BY <2>1 DEF ExistsBijection
<1>5. IsFiniteSet(B) /\ Cardinality(B) = Cardinality(A)
  BY <1>1, <1>4, FS_Bijection
<1>6. Cardinality(A \cup B) = Cardinality(A) + Cardinality(B) - Cardinality({})
  <2> HIDE DEF A, B
  <2> QED BY <1>1, <1>3, <1>5, FS_Union
<1>7. Cardinality({}) = 0
  BY FS_EmptySet
<1>8. n + 1 \in Nat
  OBVIOUS
<1>9. 2^(n + 1) = Cardinality(A \cup B)
  <2> HIDE DEF A, B
  <2> QED BY <1>2, <1>8, PowIs
<1> HIDE DEF A, B
<1> QED BY <1>1, <1>5, <1>6, <1>7, <1>9, PowNat

\* The first one.
LEMMA PowZero == 2^0 = 1
OBVIOUS

\* Induction, for sets.
LEMMA NatSets ==
  ASSUME NEW S, 0 \in S, \A n \in Nat : n \in S => n + 1 \in S
  PROVE  Nat \subseteq S
<1> SUFFICES ASSUME ~(Nat \subseteq S) PROVE FALSE
  OBVIOUS
<1> DEFINE T == Nat \ S
<1>1. T \subseteq Nat /\ T # {}
  OBVIOUS
<1>2. IsWellFoundedOn(OpToRel(<, Nat), Nat)
  BY NatLessThanWellFounded
<1>3. PICK x \in T : \A y \in T : ~(<<y, x>> \in OpToRel(<, Nat))
  <2> HIDE DEF T
  <2> QED BY <1>1, <1>2, WFMin
<1>4. x # 0 /\ x - 1 \in Nat /\ x - 1 < x
  OBVIOUS
<1>5. <<x - 1, x>> \in OpToRel(<, Nat)
  BY <1>4 DEF OpToRel
<1>6. x - 1 \in S
  BY <1>3, <1>4, <1>5
<1> QED BY <1>4, <1>6

\* Every power of two is positive.
LEMMA PowPositive == \A n \in Nat : 2^n \in Nat \ {0}
<1> DEFINE S == {n \in Nat : 2^n \in Nat \ {0}}
<1>1. 0 \in S
  BY PowZero
<1>2. ASSUME NEW n \in Nat, n \in S PROVE n + 1 \in S
  <2>1. 2^(n + 1) = 2 * 2^n /\ 2^n \in Nat \ {0}
    BY <1>2, PowSucc
  <2> QED BY <2>1
<1> HIDE DEF S
<1>3. Nat \subseteq S
  BY <1>1, <1>2, NatSets
<1> QED BY <1>3 DEF S

\* The quotient of a division is the number q with n = d * q + r, r < d.
LEMMA Quotient ==
  ASSUME NEW n \in Int, NEW d \in Nat, d > 0, NEW q \in Int, NEW r \in 0 .. (d - 1),
         n = d * q + r
  PROVE  n \div d = q /\ n % d = r
OBVIOUS

\* What \div and % are, for any divisor.
LEMMA Division ==
  ASSUME NEW n \in Int, NEW d \in Nat, d > 0
  PROVE  /\ n = d * (n \div d) + (n % d)
         /\ n % d \in 0 .. (d - 1) /\ n \div d \in Int
         /\ n >= 0 => n \div d >= 0
OBVIOUS

\* Dividing twice.
LEMMA Twice ==
  ASSUME NEW n \in Nat, NEW d \in Nat, d > 0, NEW e \in Nat, e > 0
  PROVE  (n \div d) \div e = n \div (e * d) 
<1> DEFINE a == n \div d
           b == a \div e
           r == n % d
           s == a % e
<1>1. n = d * a + r /\ r \in 0 .. (d - 1) /\ a \in Nat
  BY Division
<1>2. a = e * b + s /\ s \in 0 .. (e - 1) /\ b \in Int
  BY <1>1, Division
<1> HIDE DEF a, b, r, s
<1>3. d * a = d * (e * b) + d * s
  BY <1>1, <1>2
<1>4. d * (e * b) = (e * d) * b
  BY <1>2
<1>5. n = (e * d) * b + (d * s + r)
  BY <1>1, <1>2, <1>3, <1>4
<1>6. 0 =< d * s /\ d * s =< d * (e - 1) /\ d * s \in Int
  BY <1>2
<1>7. d * (e - 1) = e * d - d /\ e * d \in Nat /\ e * d > 0
  OBVIOUS
<1>8. d * s + r \in 0 .. (e * d - 1)
  BY <1>1, <1>6, <1>7
<1>9. n \div (e * d) = b
  BY <1>2, <1>5, <1>7, <1>8, Quotient
<1> QED BY <1>9 DEF a, b

-----------------------------------------------------------------------------
(* The bits of a number.                                                   *)

\* What is left of n above its k lowest bits.
High(n, k) == n \div 2^k

\* One bit less is half the number, and the bit is what is left.
LEMMA HighSteps ==
  ASSUME NEW n \in Nat, NEW k \in Nat
  PROVE  /\ High(n, k) \in Nat /\ High(n, k + 1) \in Nat
         /\ High(n, k) % 2 \in {0, 1}
         /\ High(n, k) = 2 * High(n, k + 1) + (High(n, k) % 2)
<1>1. 2^k \in Nat /\ 2^k > 0 /\ 2^(k + 1) = 2 * 2^k /\ 2^(k + 1) \in Nat /\ 2^(k + 1) > 0
  BY PowPositive, PowSucc
<1>2. n \div 2^k \in Nat /\ n \div 2^(k + 1) \in Nat
  BY <1>1, Division
<1>3. n \div 2^(k + 1) = (n \div 2^k) \div 2
  BY <1>1, Twice
<1>4. \A x \in Nat : x = 2 * (x \div 2) + (x % 2) /\ x % 2 \in {0, 1}
  OBVIOUS
<1>5. High(n, k) \in Nat /\ High(n, k + 1) \in Nat /\ High(n, k + 1) = High(n, k) \div 2
  BY <1>2, <1>3 DEF High
<1>6. /\ High(n, k) = 2 * (High(n, k) \div 2) + (High(n, k) % 2)
      /\ High(n, k) % 2 \in {0, 1}
  BY <1>4, <1>5
<1> QED BY <1>5, <1>6

\* Numbers are compared by their halves first.
LEMMA Halves ==
  ASSUME NEW p \in Nat, NEW r \in Nat, NEW a \in {0, 1}, NEW b \in {0, 1},
         NEW x, NEW y, x = 2 * p + a, y = 2 * r + b
  PROVE  /\ x = y <=> p = r /\ a = b
         /\ x < y <=> p < r \/ (p = r /\ a = 0 /\ b = 1)
OBVIOUS

\* Above no bits is the number.
LEMMA HighZero ==
  ASSUME NEW n \in Nat
  PROVE  High(n, 0) = n
BY PowZero DEF High

\* Above all its bits is nothing.
LEMMA HighAll ==
  ASSUME NEW k \in Nat, NEW n \in 0 .. (2^k - 1)
  PROVE  High(n, k) = 0
<1>1. 2^k \in Nat /\ 2^k > 0
  BY PowPositive
<1>2. n = 2^k * 0 + n
  BY <1>1
<1> QED BY <1>1, <1>2, Quotient DEF High

\* A bit of a number, in these terms.
LEMMA BitsAre ==
  ASSUME NEW n, NEW b \in 0 .. (AddrBits - 1)
  PROVE  b \in Bits(n) <=> High(n, b) % 2 = 1
BY DEF Bits, High

\* Downward from AddrBits.
LEMMA DownTo ==
  ASSUME NEW S, AddrBits \in S,
         \A k \in 0 .. (AddrBits - 1) : k + 1 \in S => k \in S
  PROVE  0 .. AddrBits \subseteq S
<1> DEFINE T == {j \in Nat : j =< AddrBits => AddrBits - j \in S}
<1>0. AddrBits \in Nat
  BY PmpParameters
<1>1. 0 \in T
  BY <1>0
<1>2. ASSUME NEW j \in Nat, j \in T PROVE j + 1 \in T
  <2>1. CASE j + 1 =< AddrBits
    <3>1. AddrBits - (j + 1) \in 0 .. (AddrBits - 1) /\ (AddrBits - (j + 1)) + 1 = AddrBits - j
      BY <1>0, <2>1
    <3>2. AddrBits - j \in S
      BY <1>0, <1>2, <2>1
    <3>3. AddrBits - (j + 1) \in S
      BY <3>1, <3>2
    <3> QED BY <3>3
  <2>2. CASE ~(j + 1 =< AddrBits)
    BY <2>2
  <2> QED BY <2>1, <2>2
<1>3. Nat \subseteq T
  <2> HIDE DEF T
  <2> QED BY <1>1, <1>2, NatSets
<1>4. ASSUME NEW k \in 0 .. AddrBits PROVE k \in S
  <2>1. AddrBits - k \in Nat /\ AddrBits - k =< AddrBits /\ AddrBits - (AddrBits - k) = k
    BY <1>0
  <2> QED BY <1>3, <2>1
<1> QED BY <1>4

Agree(m, n, k) == \A b \in k .. (AddrBits - 1) : b \in Bits(m) <=> b \in Bits(n)

\* Two numbers agree in their bits from k up just when they do above k.
LEMMA AgreeHigh ==
  ASSUME NEW m \in AllWords, NEW n \in AllWords, NEW k \in 0 .. AddrBits
  PROVE  Agree(m, n, k) <=> High(m, k) = High(n, k)
<1> DEFINE S == {j \in 0 .. AddrBits : Agree(m, n, j) <=> High(m, j) = High(n, j)}
<1>0. AddrBits \in Nat /\ m \in Nat /\ n \in Nat
  BY PmpParameters, PowNat DEF AllWords
<1>1. AddrBits \in S
  <2>1. High(m, AddrBits) = 0 /\ High(n, AddrBits) = 0
    BY <1>0, HighAll DEF AllWords
  <2>2. Agree(m, n, AddrBits)
    BY <1>0 DEF Agree
  <2> QED BY <1>0, <2>1, <2>2
<1>2. ASSUME NEW j \in 0 .. (AddrBits - 1), j + 1 \in S PROVE j \in S
  <2>1. Agree(m, n, j) <=> Agree(m, n, j + 1) /\ (j \in Bits(m) <=> j \in Bits(n))
    <3>1. j .. (AddrBits - 1) = {j} \cup ((j + 1) .. (AddrBits - 1))
      BY <1>0
    <3> QED BY <3>1 DEF Agree
  <2>2. (j \in Bits(m) <=> High(m, j) % 2 = 1) /\ (j \in Bits(n) <=> High(n, j) % 2 = 1)
    BY BitsAre
  <2>3. j \in Nat /\ j \in 0 .. AddrBits
    BY <1>0
  <2> DEFINE a == High(m, j) % 2
             b == High(n, j) % 2
  <2>4. /\ High(m, j) = 2 * High(m, j + 1) + a /\ a \in {0, 1} /\ High(m, j + 1) \in Nat
        /\ High(n, j) = 2 * High(n, j + 1) + b /\ b \in {0, 1} /\ High(n, j + 1) \in Nat
    BY <1>0, <2>3, HighSteps
  <2>5. Agree(m, n, j + 1) <=> High(m, j + 1) = High(n, j + 1)
    BY <1>2
  <2>6. (j \in Bits(m) <=> j \in Bits(n)) <=> a = b
    BY <2>2, <2>4
  <2> HIDE DEF a, b
  <2>7. High(m, j) = High(n, j) <=> High(m, j + 1) = High(n, j + 1) /\ a = b
    <3> DEFINE x == High(m, j)
               y == High(n, j)
               p == High(m, j + 1)
               r == High(n, j + 1)
    <3>1. x = 2 * p + a /\ y = 2 * r + b /\ p \in Nat /\ r \in Nat /\ a \in {0, 1} /\ b \in {0, 1}
      BY <2>4
    <3> HIDE DEF x, y, p, r
    <3>2. x = y <=> p = r /\ a = b
      BY <3>1
    <3> QED BY <3>2 DEF x, y, p, r
  <2> QED BY <2>1, <2>3, <2>5, <2>6, <2>7
<1> HIDE DEF S
<1>3. k \in S
  BY <1>1, <1>2, DownTo
<1> QED BY <1>3 DEF S

\* The highest bit in which they differ, if it is not below k.
Lower(m, n, k) ==
  \E b \in k .. (AddrBits - 1) : b \in Bits(n) /\ b \notin Bits(m) /\ Agree(m, n, b + 1)

\* It decides which of them is less above k.
LEMMA LowerHigh ==
  ASSUME NEW m \in AllWords, NEW n \in AllWords, NEW k \in 0 .. AddrBits
  PROVE  Lower(m, n, k) <=> High(m, k) < High(n, k)
<1> DEFINE S == {j \in 0 .. AddrBits : Lower(m, n, j) <=> High(m, j) < High(n, j)}
<1>0. AddrBits \in Nat /\ m \in Nat /\ n \in Nat
  BY PmpParameters, PowNat DEF AllWords
<1>1. AddrBits \in S
  <2>1. High(m, AddrBits) = 0 /\ High(n, AddrBits) = 0
    BY <1>0, HighAll DEF AllWords
  <2>2. ~Lower(m, n, AddrBits)
    BY <1>0 DEF Lower
  <2> QED BY <1>0, <2>1, <2>2
<1>2. ASSUME NEW j \in 0 .. (AddrBits - 1), j + 1 \in S PROVE j \in S
  <2>0. j \in Nat /\ j \in 0 .. AddrBits /\ j + 1 \in 0 .. AddrBits
    BY <1>0
  <2>1. Lower(m, n, j) <=> \/ Lower(m, n, j + 1)
                           \/ j \in Bits(n) /\ j \notin Bits(m) /\ Agree(m, n, j + 1)
    <3>1. j .. (AddrBits - 1) = {j} \cup ((j + 1) .. (AddrBits - 1))
      BY <1>0
    <3> QED BY <3>1 DEF Lower
  <2>2. (j \in Bits(m) <=> High(m, j) % 2 = 1) /\ (j \in Bits(n) <=> High(n, j) % 2 = 1)
    BY BitsAre
  <2> DEFINE a == High(m, j) % 2
             b == High(n, j) % 2
  <2>3. /\ High(m, j) = 2 * High(m, j + 1) + a /\ a \in {0, 1} /\ High(m, j + 1) \in Nat
        /\ High(n, j) = 2 * High(n, j + 1) + b /\ b \in {0, 1} /\ High(n, j + 1) \in Nat
    BY <1>0, <2>0, HighSteps
  <2>4. Agree(m, n, j + 1) <=> High(m, j + 1) = High(n, j + 1)
    BY <2>0, AgreeHigh
  <2>5. Lower(m, n, j + 1) <=> High(m, j + 1) < High(n, j + 1)
    BY <1>2
  <2>6. j \in Bits(n) /\ j \notin Bits(m) <=> a = 0 /\ b = 1
    BY <2>2, <2>3
  <2> HIDE DEF a, b
  <2>7. High(m, j) < High(n, j) <=> \/ High(m, j + 1) < High(n, j + 1)
                                    \/ High(m, j + 1) = High(n, j + 1) /\ a = 0 /\ b = 1
    BY <2>3, Halves
  <2> QED BY <2>0, <2>1, <2>4, <2>5, <2>6, <2>7
<1> HIDE DEF S
<1>3. k \in S
  BY <1>1, <1>2, DownTo
<1> QED BY <1>3 DEF S

\* A number is determined by its bits.
LEMMA BitsOne ==
  ASSUME NEW m \in AllWords, NEW n \in AllWords, Bits(m) = Bits(n)
  PROVE  m = n
<1>1. 0 \in 0 .. AddrBits /\ m \in Nat /\ n \in Nat
  BY PmpParameters, PowNat DEF AllWords
<1>2. Agree(m, n, 0)
  BY DEF Agree
<1> QED BY <1>1, <1>2, AgreeHigh, HighZero

\* Every set of bits is that of a number.
LEMMA BitsOnto ==
  ASSUME NEW a \in Words
  PROVE  \E n \in AllWords : Bits(n) = a
<1> DEFINE Has(n, k) == \A b \in k .. (AddrBits - 1) : b \in a <=> High(n, b - k) % 2 = 1
           S == {k \in 0 .. AddrBits : \E n \in 0 .. (2^(AddrBits - k) - 1) : Has(n, k)}
<1>0. AddrBits \in Nat
  BY PmpParameters
<1>1. AddrBits \in S
  <2>1. 2^(AddrBits - AddrBits) = 1
    BY <1>0, PowZero
  <2>2. Has(0, AddrBits)
    BY <1>0
  <2> QED BY <1>0, <2>1, <2>2
<1>2. ASSUME NEW k \in 0 .. (AddrBits - 1), k + 1 \in S PROVE k \in S
  <2>0. k \in Nat /\ AddrBits - (k + 1) \in Nat /\ AddrBits - k = (AddrBits - (k + 1)) + 1
        /\ AddrBits - k \in Nat
    BY <1>0
  <2>1. PICK n \in 0 .. (2^(AddrBits - (k + 1)) - 1) : Has(n, k + 1)
    BY <1>2
  <2>2. 2^(AddrBits - k) = 2 * 2^(AddrBits - (k + 1)) /\ 2^(AddrBits - (k + 1)) \in Nat
    BY <2>0, PowSucc, PowNat
  <2> DEFINE e == IF k \in a THEN 1 ELSE 0
             w == 2 * n + e
  <2>3. w \in 0 .. (2^(AddrBits - k) - 1) /\ w \in Nat /\ n \in Nat /\ w \div 2 = n /\ w % 2 = e
    BY <2>2
  <2>4. Has(w, k)
    <3> SUFFICES ASSUME NEW b \in k .. (AddrBits - 1) PROVE b \in a <=> High(w, b - k) % 2 = 1
      OBVIOUS
    <3>1. CASE b = k
      <4>1. High(w, b - k) = w
        BY <2>0, <2>3, <3>1, HighZero
      <4> QED BY <2>3, <3>1, <4>1
    <3>2. CASE b # k
      <4>1. b \in (k + 1) .. (AddrBits - 1) /\ b - (k + 1) \in Nat /\ b - k = (b - (k + 1)) + 1
        BY <1>0, <3>2
      <4>2. b \in a <=> High(n, b - (k + 1)) % 2 = 1
        BY <2>1, <4>1
      <4> DEFINE d == 2^(b - (k + 1))
      <4>3. d \in Nat /\ d > 0 /\ 2^(b - k) = 2 * d
        BY <4>1, PowPositive, PowSucc
      <4>4. w \div (d * 2) = (w \div 2) \div d
        <5> HIDE DEF d, w
        <5> QED BY <2>3, <4>3, Twice
      <4>5. d * 2 = 2 * d
        BY <4>3
      <4>6. High(w, b - k) = High(n, b - (k + 1))
        BY <2>3, <4>3, <4>4, <4>5 DEF High
      <4> QED BY <4>2, <4>6
    <3> QED BY <3>1, <3>2
  <2>5. w \in 0 .. (2^(AddrBits - k) - 1) /\ k \in 0 .. AddrBits
    BY <1>0, <2>3
  <2> HIDE DEF w, Has
  <2> QED BY <2>4, <2>5
<1>3. 0 \in S
  <2> HIDE DEF S
  <2>1. 0 \in 0 .. AddrBits
    BY <1>0
  <2> QED BY <1>1, <1>2, <2>1, DownTo
<1>4. PICK n \in 0 .. (2^AddrBits - 1) : Has(n, 0)
  <2>1. AddrBits - 0 = AddrBits
    BY <1>0
  <2> QED BY <1>3, <2>1
<1>5. \A b \in 0 .. (AddrBits - 1) : b \in a <=> b \in Bits(n)
  <2> TAKE b \in 0 .. (AddrBits - 1)
  <2>1. b - 0 = b
    OBVIOUS
  <2> QED BY <1>4, <2>1, BitsAre
<1>6. Bits(n) \subseteq 0 .. (AddrBits - 1) /\ a \subseteq 0 .. (AddrBits - 1)
  BY DEF Bits, Words
<1>7. Bits(n) = a
  BY <1>5, <1>6
<1> HIDE DEF Has, S
<1> QED BY <1>4, <1>7 DEF AllWords

USE PmpParameters DEF Regions

\* Powers multiply.
LEMMA PowSum ==
  ASSUME NEW x \in Nat, NEW y \in Nat
  PROVE  2^(x + y) = 2^x * 2^y
<1> DEFINE S == {n \in Nat : 2^(x + n) = 2^x * 2^n}
<1>1. 0 \in S
  <2>1. x + 0 = x /\ 2^x \in Nat
    BY PowNat
  <2> QED BY <2>1, PowZero
<1>2. ASSUME NEW n \in Nat, n \in S PROVE n + 1 \in S
  <2> DEFINE a == 2^x
             b == 2^n
  <2>1. 2^(x + n) = a * b /\ a \in Nat /\ b \in Nat
    BY <1>2, PowNat
  <2>2. x + (n + 1) = (x + n) + 1 /\ x + n \in Nat
    OBVIOUS
  <2>3. 2^(x + (n + 1)) = 2 * (a * b)
    BY <2>1, <2>2, PowSucc
  <2>4. 2^(n + 1) = 2 * b
    BY PowSucc
  <2>5. 2 * (a * b) = a * (2 * b)
    <3> HIDE DEF a, b
    <3> QED BY <2>1
  <2> QED BY <2>3, <2>4, <2>5
<1> HIDE DEF S
<1>3. y \in S
  BY <1>1, <1>2, NatSets
<1> QED BY <1>3 DEF S

\* Powers grow.
LEMMA PowLess ==
  ASSUME NEW x \in Nat, NEW y \in Nat, x < y
  PROVE  2^x < 2^y
<1>1. y = x + (y - x) /\ y - x \in Nat /\ y - x - 1 \in Nat /\ y - x = (y - x - 1) + 1
  OBVIOUS
<1> DEFINE a == 2^x
           b == 2^(y - x - 1)
<1>2. 2^y = a * 2^(y - x)
  BY <1>1, PowSum
<1>3. 2^(y - x) = 2 * b /\ a \in Nat /\ a > 0 /\ b \in Nat /\ b > 0
  BY <1>1, PowSucc, PowPositive
<1>4. a < a * (2 * b)
  <2> HIDE DEF a, b
  <2>1. a * 2 =< a * (2 * b)
    BY <1>3
  <2> QED BY <1>3, <2>1
<1> QED BY <1>2, <1>3, <1>4

\* The bits of a power of two, and of the number below it.
LEMMA PowBits ==
  ASSUME NEW p \in 0 .. (AddrBits - 1)
  PROVE  /\ p \in Bits(2^p) /\ p \notin Bits(2^p - 1)
         /\ \A x \in 0 .. (p - 1) : x \in Bits(2^p - 1)
         /\ \A x \in (p + 1) .. (AddrBits - 1) : x \notin Bits(2^p) /\ x \notin Bits(2^p - 1)
<1>1. p \in Nat /\ 2^p \in Nat /\ 2^p > 0
  BY PowPositive
<1>2. p \in Bits(2^p)
  <2>1. 2^p = 2^p * 1 + 0
    BY <1>1
  <2>2. High(2^p, p) = 1
    BY <1>1, <2>1, Quotient DEF High
  <2> QED BY <2>2, BitsAre
<1>3. p \notin Bits(2^p - 1)
  <2>1. High(2^p - 1, p) = 0
    BY <1>1, HighAll
  <2> QED BY <2>1, BitsAre
<1>4. ASSUME NEW x \in 0 .. (p - 1) PROVE x \in Bits(2^p - 1)
  <2> DEFINE a == 2^x
             b == 2^(p - x - 1)
  <2>1. x \in Nat /\ p - x - 1 \in Nat /\ p = x + (p - x)
        /\ p - x = (p - x - 1) + 1 /\ p - x \in Nat
        /\ x \in 0 .. (AddrBits - 1)
    OBVIOUS
  <2>2. a \in Nat /\ a > 0 /\ b \in Nat /\ b > 0
    BY <2>1, PowPositive
  <2>3. 2^p = a * (2 * b)
    <3>1. 2^p = a * 2^(p - x)
      BY <2>1, PowSum
    <3>2. 2^(p - x) = 2 * b
      BY <2>1, PowSucc
    <3> QED BY <3>1, <3>2
  <2>4. 2^p - 1 = a * (2 * b - 1) + (a - 1)
    <3> DEFINE c == 2 * b - 1
    <3>1. 2 * b = c + 1 /\ c \in Int
      BY <2>2
    <3>2. a * (c + 1) = a * c + a
      <4> HIDE DEF a, c
      <4> QED BY <2>2, <3>1
    <3>3. a * (2 * b) = a * c + a /\ a * c \in Int
      BY <2>2, <3>1, <3>2
    <3> QED BY <2>2, <2>3, <3>3
  <2>5. High(2^p - 1, x) = 2 * b - 1
    <3> HIDE DEF b
    <3>1. 2 * b - 1 \in Int /\ a - 1 \in 0 .. (a - 1) /\ 2^p - 1 \in Int
      BY <1>1, <2>2
    <3> QED BY <2>2, <2>4, <3>1, Quotient DEF High
  <2>6. (2 * b - 1) % 2 = 1
    <3> HIDE DEF b
    <3> QED BY <2>2
  <2> QED BY <2>1, <2>5, <2>6, BitsAre
<1>5. ASSUME NEW x \in (p + 1) .. (AddrBits - 1)
      PROVE  x \notin Bits(2^p) /\ x \notin Bits(2^p - 1)
  <2>1. x \in Nat /\ x \in 0 .. (AddrBits - 1) /\ p < x
    OBVIOUS
  <2>2. 2^p < 2^x /\ 2^x \in Nat
    BY <1>1, <2>1, PowLess, PowNat
  <2>3. High(2^p, x) = 0 /\ High(2^p - 1, x) = 0
    BY <1>1, <2>1, <2>2, HighAll
  <2> QED BY <2>1, <2>3, BitsAre
<1> QED BY <1>2, <1>3, <1>4, <1>5


-----------------------------------------------------------------------------
(* The comparators, in numbers.                                            *)

\* Numbers and words correspond.
LEMMA ValueBits ==
  /\ \A n \in AllWords : Bits(n) \in Words /\ Value(Bits(n)) = n
  /\ \A a \in Words : Value(a) \in AllWords /\ Bits(Value(a)) = a
<1>1. \A a \in Words : Value(a) \in AllWords /\ Bits(Value(a)) = a
  BY BitsOnto DEF Value
<1>2. \A n : Bits(n) \in Words
  BY DEF Bits, Words
<1>3. \A n \in AllWords : Value(Bits(n)) = n
  BY <1>1, <1>2, BitsOne
<1> QED BY <1>1, <1>2, <1>3

\* The comparators see the numbers above the grain.
LEMMA ComparedSame ==
  ASSUME NEW a \in Words, NEW r \in Words
  PROVE  Compared(a) = Compared(r)
           <=> High(Value(a), Granularity) = High(Value(r), Granularity)
<1>1. /\ Value(a) \in AllWords /\ Bits(Value(a)) = a
      /\ Value(r) \in AllWords /\ Bits(Value(r)) = r
  BY ValueBits
<1>2. Granularity \in 0 .. AddrBits
  BY PmpParameters
<1>3. Compared(a) = Compared(r) <=> Agree(Value(a), Value(r), Granularity)
  <2>1. \A b \in a \cup r : b \in Granularity .. (AddrBits - 1) <=> b >= Granularity
    BY PmpParameters DEF Words
  <2> QED BY <1>1, <2>1 DEF Compared, Agree
<1> QED BY <1>1, <1>2, <1>3, AgreeHigh

\* So does their order.
LEMMA ComparedBelow ==
  ASSUME NEW a \in Words, NEW r \in Words
  PROVE  Below(Compared(a), Compared(r))
           <=> High(Value(a), Granularity) < High(Value(r), Granularity)
<1>1. /\ Value(a) \in AllWords /\ Bits(Value(a)) = a
      /\ Value(r) \in AllWords /\ Bits(Value(r)) = r
  BY ValueBits
<1>2. Granularity \in 0 .. AddrBits
  BY PmpParameters
<1>3. Below(Compared(a), Compared(r)) <=> Lower(Value(a), Value(r), Granularity)
  <2>1. \A b \in a \cup r : b \in Granularity .. (AddrBits - 1) <=> b >= Granularity
    BY PmpParameters DEF Words
  <2>2. \A b \in Granularity .. (AddrBits - 1) :
          (\A j \in (b + 1) .. (AddrBits - 1) : j \in Compared(a) <=> j \in Compared(r))
            <=> Agree(Value(a), Value(r), b + 1)
    BY <1>1, PmpParameters DEF Compared, Agree
  <2>3. \A b : b \in Compared(r) \ Compared(a) <=>
                 b \in Granularity .. (AddrBits - 1) /\ b \in r /\ b \notin a
    BY <2>1, PmpParameters DEF Compared, Words
  <2> QED BY <1>1, <2>2, <2>3 DEF Below, Lower
<1> QED BY <1>1, <1>2, <1>3, LowerHigh

\* The bits of a word.
LEMMA WordBits ==
  ASSUME NEW a \in Words, NEW b \in a
  PROVE  b \in 0 .. (AddrBits - 1) /\ b \in Nat
BY DEF Words

\* The numbers an entry and its start stand for.
Top(cfg, addr, i) == Value(pmp_addr_rdata(cfg[i], addr[i]))
Start(cfg, addr, i) == Value(region_start_addr(cfg, addr, i))

\* They are words.
LEMMA StartType ==
  ASSUME NEW cfg \in [Regions -> CfgEntries], NEW addr \in [Regions -> Addrs], NEW i \in Regions
  PROVE  region_start_addr(cfg, addr, i) \in Words /\ pmp_addr_rdata(cfg[i], addr[i]) \in Words
<1>1. \A j \in Regions : pmp_addr_rdata(cfg[j], addr[j]) \in Words
  BY ReadDataType
<1>2. i # 0 => i - 1 \in Regions
  OBVIOUS
<1>3. {} \in Words
  BY DEF Words
<1> QED BY <1>1, <1>2, <1>3 DEF region_start_addr

\* TOR compares with both; without masked bits equality is part of the order.
LEMMA MatchTor ==
  ASSUME NEW cfg \in [Regions -> CfgEntries], NEW addr \in [Regions -> Addrs], NEW i \in Regions,
         cfg[i].mode = "TOR", NEW req \in Words
  PROVE  region_match_all(cfg, addr, i, req)
           <=> /\ High(Start(cfg, addr, i), Granularity) =< High(Value(req), Granularity)
               /\ High(Value(req), Granularity) < High(Top(cfg, addr, i), Granularity)
<1> DEFINE g(a) == High(Value(a), Granularity)
           s == region_start_addr(cfg, addr, i)
           t == pmp_addr_rdata(cfg[i], addr[i])
<1>1. s \in Words /\ t \in Words
  BY StartType
<1>2. MaskedBits(cfg[i], addr[i]) = {}
  BY DEF MaskedBits
<1>3. region_match_all(cfg, addr, i, req) <=>
        /\ Compared(req) = Compared(s) \/ Below(Compared(s), Compared(req))
        /\ Below(Compared(req), Compared(t))
  BY <1>2 DEF region_match_all, region_match_eq, region_match_gt, region_match_lt
<1>4. /\ Compared(req) = Compared(s) <=> g(req) = g(s)
      /\ Below(Compared(s), Compared(req)) <=> g(s) < g(req)
      /\ Below(Compared(req), Compared(t)) <=> g(req) < g(t)
  <2> HIDE DEF s, t
  <2> QED BY <1>1, ComparedSame, ComparedBelow
<1>5. \A a \in Words : g(a) \in Nat
  <2>1. \A a \in Words : Value(a) \in Nat
    BY ValueBits, PowNat, PmpParameters DEF AllWords
  <2>2. Granularity \in Nat
    BY PmpParameters
  <2> QED BY <2>1, <2>2, HighSteps
<1>6. g(s) =< g(req) <=> g(req) = g(s) \/ g(s) < g(req)
  <2> HIDE DEF g, s
  <2> QED BY <1>1, <1>5
<1> QED BY <1>3, <1>4, <1>6 DEF Start, Top

\* OFF matches nothing.
LEMMA MatchOff ==
  ASSUME NEW cfg, NEW addr, NEW i, cfg[i].mode = "OFF", NEW req
  PROVE  ~region_match_all(cfg, addr, i, req)
BY DEF region_match_all

\* NA4 compares every bit.
LEMMA MatchNa4 ==
  ASSUME NEW cfg \in [Regions -> CfgEntries], NEW addr \in [Regions -> Addrs], NEW i \in Regions,
         cfg[i].mode = "NA4", Granularity = 0, NEW req \in Words
  PROVE  region_match_all(cfg, addr, i, req) <=> Value(req) = Top(cfg, addr, i)
<1> DEFINE t == pmp_addr_rdata(cfg[i], addr[i])
<1>1. t \in Words
  BY StartType
<1>2. MaskedBits(cfg[i], addr[i]) = {} /\ region_start_addr(cfg, addr, i) = t
  BY DEF MaskedBits, region_start_addr
<1>3. \A a \in Words : Compared(a) = a
  <2> SUFFICES ASSUME NEW a \in Words PROVE Compared(a) = a
    OBVIOUS
  <2>1. \A b \in a : b >= Granularity
    BY WordBits
  <2> QED BY <2>1 DEF Compared
<1>4. region_match_all(cfg, addr, i, req) <=> req = t
  <2> HIDE DEF t
  <2> QED BY <1>1, <1>2, <1>3 DEF region_match_all, region_match_eq
<1> HIDE DEF t
<1>5. req = t <=> Value(req) = Value(t)
  BY <1>1, ValueBits
<1> QED BY <1>4, <1>5 DEF Top, t

\* NAPOT compares the bits above the lowest 0.
LEMMA MatchNapot ==
  ASSUME NEW cfg \in [Regions -> CfgEntries], NEW addr \in [Regions -> Addrs], NEW i \in Regions,
         cfg[i].mode = "NAPOT", NEW req \in Words, NEW n \in 0 .. AddrBits,
         n \notin pmp_addr_rdata(cfg[i], addr[i]),
         0 .. (n - 1) \subseteq pmp_addr_rdata(cfg[i], addr[i])
  PROVE  region_match_all(cfg, addr, i, req)
           <=> High(Value(req), n + 1) = High(Top(cfg, addr, i), n + 1)
<1> DEFINE t == pmp_addr_rdata(cfg[i], addr[i])
           masked == MaskedBits(cfg[i], addr[i])
<1>1. t \in Words /\ region_start_addr(cfg, addr, i) = t
  BY StartType DEF region_start_addr
<1>2. 0 .. (Granularity - 2) \subseteq t
  BY DEF pmp_addr_rdata
<1>3. n + 1 >= Granularity
  BY <1>2
<1>4. masked = {b \in Granularity .. (AddrBits - 1) : b =< n}
  <2>1. masked = {b \in Granularity .. (AddrBits - 1) : LowBit .. (b - 1) \subseteq t}
    BY DEF MaskedBits
  <2>2. ASSUME NEW b \in Granularity .. (AddrBits - 1)
        PROVE  LowBit .. (b - 1) \subseteq t <=> b =< n
    <3>1. CASE b =< n
      <4>1. LowBit .. (b - 1) \subseteq 0 .. (n - 1)
        BY <3>1 DEF LowBit
      <4> QED BY <3>1, <4>1
    <3>2. CASE ~(b =< n)
      <4>1. n \in LowBit .. (b - 1)
        BY <1>3, <3>2 DEF LowBit
      <4> QED BY <3>2, <4>1
    <3> QED BY <3>1, <3>2
  <2> HIDE DEF masked, t
  <2> QED BY <2>1, <2>2
<1>5. region_match_all(cfg, addr, i, req) <=> Compared(req) \ masked = Compared(t) \ masked
  <2> HIDE DEF t
  <2> QED BY <1>1 DEF region_match_all, region_match_eq
<1>6. \A a \in Words : Compared(a) \ masked = {b \in a : b > n}
  <2> HIDE DEF masked
  <2> SUFFICES ASSUME NEW a \in Words PROVE Compared(a) \ masked = {b \in a : b > n}
    OBVIOUS
  <2>1. ASSUME NEW b \in a PROVE b \in Compared(a) \ masked <=> b > n
    <3>1. b \in 0 .. (AddrBits - 1) /\ b \in Nat
      BY WordBits
    <3> QED BY <1>3, <1>4, <3>1 DEF Compared
  <2> QED BY <2>1 DEF Compared
<1>7. /\ Value(req) \in AllWords /\ Bits(Value(req)) = req
      /\ Value(t) \in AllWords /\ Bits(Value(t)) = t
  <2> HIDE DEF t
  <2> QED BY <1>1, ValueBits
<1> HIDE DEF t, masked
<1>8. CASE n < AddrBits
  <2>1. {b \in req : b > n} = {b \in t : b > n} <=> Agree(Value(req), Value(t), n + 1)
    <3>1. \A b \in req \cup t : b > n <=> b \in (n + 1) .. (AddrBits - 1)
      BY <1>1, WordBits
    <3>2. \A b \in (n + 1) .. (AddrBits - 1) : b > n
      OBVIOUS
    <3> QED BY <1>7, <3>1, <3>2 DEF Agree
  <2>2. n + 1 \in 0 .. AddrBits
    BY <1>8
  <2> QED BY <1>1, <1>5, <1>6, <1>7, <2>1, <2>2, AgreeHigh DEF Top, t
<1>9. CASE n = AddrBits
  <2>1. {b \in req : b > n} = {} /\ {b \in t : b > n} = {}
    BY <1>1, <1>9, WordBits
  <2>2. \A x \in AllWords : High(x, n + 1) = 0
    <3>1. AddrBits \in Nat /\ AddrBits + 1 \in Nat
      OBVIOUS
    <3>2. 2^(AddrBits + 1) = 2 * 2^AddrBits /\ 2^AddrBits \in Nat
      BY <3>1, PowSucc, PowNat
    <3>3. \A x \in AllWords : x \in 0 .. (2^(AddrBits + 1) - 1)
      BY <3>2 DEF AllWords
    <3> QED BY <1>9, <3>1, <3>3, HighAll
  <2> QED BY <1>1, <1>5, <1>6, <1>7, <2>1, <2>2 DEF Top, t
<1> QED BY <1>8, <1>9

\* The words between two numbers.
LEMMA WordsBetween ==
  ASSUME NEW lo \in Nat, NEW hi \in Int, hi < 2^AddrBits
  PROVE  {req \in Words : lo =< Value(req) /\ Value(req) =< hi} = {Bits(w) : w \in lo .. hi}
<1>1. 2^AddrBits \in Nat
  BY PowNat
<1>2. ASSUME NEW w \in lo .. hi
      PROVE  Bits(w) \in Words /\ lo =< Value(Bits(w)) /\ Value(Bits(w)) =< hi
  <2>1. w \in AllWords
    BY <1>1 DEF AllWords
  <2> QED BY <2>1, ValueBits
<1>3. ASSUME NEW req \in Words, lo =< Value(req) /\ Value(req) =< hi
      PROVE  Value(req) \in lo .. hi /\ Bits(Value(req)) = req
  <2>1. Value(req) \in AllWords
    BY ValueBits
  <2>2. Value(req) \in Int
    BY <1>1, <2>1 DEF AllWords
  <2> QED BY <1>3, <2>2, ValueBits
<1> QED BY <1>2, <1>3

-----------------------------------------------------------------------------
(* Blocks.                                                                 *)

\* The numbers with the quotient q are a block of d.
LEMMA QuotientBlock ==
  ASSUME NEW v \in Nat, NEW d \in Nat, d > 0, NEW q \in Nat
  PROVE  v \div d = q <=> v \in (d * q) .. (d * q + d - 1)
<1>1. v = d * (v \div d) + (v % d) /\ v % d \in 0 .. (d - 1)
  BY Division
<1>2. d * q \in Int
  OBVIOUS
<1>3. ASSUME v \in (d * q) .. (d * q + d - 1) PROVE v \div d = q
  <2>1. v = d * q + (v - d * q) /\ v - d * q \in 0 .. (d - 1)
    BY <1>2, <1>3
  <2> QED BY <2>1, Quotient
<1> QED BY <1>1, <1>2, <1>3

\* The least bit that is not in a word.
LEMMA LeastOut ==
  ASSUME NEW a \in Words
  PROVE  \E n \in 0 .. AddrBits : n \notin a /\ 0 .. (n - 1) \subseteq a
<1> SUFFICES ASSUME \A n \in 0 .. AddrBits : ~(n \notin a /\ 0 .. (n - 1) \subseteq a)
             PROVE FALSE
  OBVIOUS
<1> DEFINE S == {n \in Nat : n =< AddrBits + 1 => 0 .. (n - 1) \subseteq a}
<1>1. 0 \in S
  OBVIOUS
<1>2. ASSUME NEW n \in Nat, n \in S PROVE n + 1 \in S
  <2>1. CASE n + 1 =< AddrBits + 1
    <3>1. 0 .. (n - 1) \subseteq a /\ n \in 0 .. AddrBits
      BY <1>2, <2>1
    <3>2. n \in a
      BY <3>1
    <3>3. 0 .. ((n + 1) - 1) = (0 .. (n - 1)) \cup {n}
      OBVIOUS
    <3>4. 0 .. ((n + 1) - 1) \subseteq a
      BY <3>1, <3>2, <3>3
    <3> QED BY <3>4
  <2>2. CASE ~(n + 1 =< AddrBits + 1)
    BY <2>2
  <2> QED BY <2>1, <2>2
<1>3. Nat \subseteq S
  <2> HIDE DEF S
  <2> QED BY <1>1, <1>2, NatSets
<1>4. AddrBits + 1 \in S
  BY <1>3
<1>5. AddrBits \in a
  BY <1>4
<1> QED BY <1>5, WordBits

\* It is the number of trailing ones.
LEMMA TrailingIs ==
  ASSUME NEW a \in Words
  PROVE  /\ TrailingOnes(a) \in 0 .. AddrBits /\ TrailingOnes(a) \notin a
         /\ 0 .. (TrailingOnes(a) - 1) \subseteq a
<1> DEFINE T == {n \in 0 .. AddrBits : n \notin a}
<1>1. PICK n \in 0 .. AddrBits : n \notin a /\ 0 .. (n - 1) \subseteq a
  BY LeastOut
<1>2. n \in T /\ \A m \in T : n =< m /\ m \in Nat
  <2>1. \A m \in 0 .. AddrBits : m < n => m \in 0 .. (n - 1)
    OBVIOUS
  <2> QED BY <1>1, <2>1
<1>3. TrailingOnes(a) = CHOOSE x \in T : \A y \in T : x =< y
  BY DEF TrailingOnes, Min
<1> HIDE DEF T
<1>4. \E x \in T : \A y \in T : x =< y
  BY <1>2
<1>5. TrailingOnes(a) \in T /\ TrailingOnes(a) =< n
  BY <1>2, <1>3, <1>4
<1>6. TrailingOnes(a) = n
  <2>1. TrailingOnes(a) \in Nat /\ n =< TrailingOnes(a) /\ n \in Nat
    BY <1>2, <1>5
  <2> HIDE DEF TrailingOnes
  <2> QED BY <1>5, <2>1
<1> QED BY <1>1, <1>6

\* NA4 is not stored when the granularity is above 4 bytes.
NoNa4 == Granularity > 0 => \A i \in Regions : pmpncfg[i].mode # "NA4"

\* The WARL rule of the mode keeps it out.
LEMMA NoNa4Step == Inv /\ NoNa4 /\ [Next]_vars => NoNa4'
<1> SUFFICES ASSUME Inv, NoNa4, [Next]_vars, Granularity > 0, NEW i \in Regions
             PROVE  pmpncfg'[i].mode # "NA4"
  BY DEF NoNa4
<1>1. pmpncfg[i].mode # "NA4" /\ pmpncfg \in [Regions -> CfgEntries]
  BY DEF NoNa4, Inv, TypeOK
<1>2. \A w : pmpncfg_n(i, w).mode # "NA4"
  BY <1>1 DEF pmpncfg_n, mode_n
<1>3. ASSUME NEW g \in Regions, NEW w \in [Group(g) -> CfgWrites], WritePmpcfg(g, w)
      PROVE  pmpncfg'[i].mode # "NA4"
  BY <1>1, <1>2, <1>3 DEF WritePmpcfg
<1>4. CASE Reset
  BY <1>4 DEF Reset, PMPNCFG_DEFAULT
<1>5. CASE UNCHANGED pmpncfg
  BY <1>1, <1>5
<1> QED BY <1>3, <1>4, <1>5 DEF Next, CsrWrite, WritePmpaddr, WriteMseccfg, WriteSecurityLevel, vars

\* What an entry covers.
LEMMA BlockHolds ==
  ASSUME TypeOK, NoNa4
  PROVE  MatchesBlock
<1> SUFFICES ASSUME NEW i \in Regions
             PROVE  {Value(req) : req \in Covered(i)} = Block(i)
  BY DEF MatchesBlock
<1> DEFINE a == pmp_addr_rdata(pmpncfg[i], pmpaddr[i])
           s == region_start_addr(pmpncfg, pmpaddr, i)
           matches(v) == region_match_all(pmpncfg, pmpaddr, i, Bits(v))
<1>1. pmpncfg \in [Regions -> CfgEntries] /\ pmpaddr \in [Regions -> Addrs]
  BY DEF TypeOK
<1>2. a \in Words /\ s \in Words
  BY <1>1, StartType
<1>3. pmpncfg[i].mode \in Modes
  BY <1>1 DEF CfgEntries
<1>4. {Value(req) : req \in Covered(i)} = {v \in AllWords : matches(v)}
  BY ValueBits DEF Covered
<1>5. \A v \in AllWords : Bits(v) \in Words /\ Value(Bits(v)) = v /\ v \in Nat
  BY ValueBits, PowNat DEF AllWords
<1>6. Value(a) \in AllWords /\ Value(a) \in Nat
  BY <1>2, ValueBits, PowNat DEF AllWords
<1> DEFINE t == TrailingOnes(a)
           size == 2^(t + 1)
           base == size * (Value(a) \div size)
<1>7. CASE pmpncfg[i].mode = "OFF"
  <2>1. Block(i) = {}
    BY <1>7 DEF Block
  <2> QED BY <1>4, <1>7, <2>1, MatchOff
<1>8. CASE pmpncfg[i].mode = "TOR"
  <2>1. s = IF i = 0 THEN {} ELSE pmp_addr_rdata(pmpncfg[i - 1], pmpaddr[i - 1])
    BY <1>8 DEF region_start_addr
  <2>2. Block(i) = {v \in AllWords : Grain(s) <= v \div 2^Granularity
                                      /\ v \div 2^Granularity < Grain(a)}
    BY <1>8, <2>1 DEF Block
  <2>3. ASSUME NEW v \in AllWords
        PROVE  matches(v) <=> Grain(s) <= v \div 2^Granularity
                              /\ v \div 2^Granularity < Grain(a)
    <3>1. matches(v) <=>
            /\ High(Start(pmpncfg, pmpaddr, i), Granularity) =< High(Value(Bits(v)), Granularity)
            /\ High(Value(Bits(v)), Granularity) < High(Top(pmpncfg, pmpaddr, i), Granularity)
      BY <1>1, <1>5, <1>8, MatchTor
    <3> QED BY <1>5, <3>1 DEF Grain, High, Start, Top
  <2> HIDE DEF a, s, matches
  <2> QED BY <1>4, <2>2, <2>3
<1>9. CASE pmpncfg[i].mode = "NA4"
  <2>1. Block(i) = {Value(a)} /\ Granularity = 0
    BY <1>9 DEF Block, NoNa4
  <2>2. \A v \in AllWords : matches(v) <=> v = Value(a)
    BY <1>1, <1>5, <1>9, <2>1, MatchNa4 DEF Top
  <2> HIDE DEF a, matches
  <2> QED BY <1>4, <1>6, <2>1, <2>2
<1>10. CASE pmpncfg[i].mode = "NAPOT"
  <2>1. Block(i) = (base .. (base + size - 1)) \cap AllWords
    BY <1>10 DEF Block
  <2>2. t \in 0 .. AddrBits /\ t \notin a /\ 0 .. (t - 1) \subseteq a
    BY <1>2, TrailingIs
  <2>3. ASSUME NEW v \in AllWords
        PROVE  matches(v) <=> v \div size = Value(a) \div size
    <3> HIDE DEF t
    <3>1. matches(v) <=> High(Value(Bits(v)), t + 1) = High(Top(pmpncfg, pmpaddr, i), t + 1)
      BY <1>1, <1>5, <1>10, <2>2, MatchNapot
    <3> QED BY <1>5, <3>1 DEF High, Top
  <2>4. size \in Nat /\ size > 0
    <3>1. t + 1 \in Nat
      BY <2>2
    <3> HIDE DEF t
    <3> QED BY <3>1, PowPositive
  <2>5. Value(a) \div size \in Nat
    <3> HIDE DEF size, a
    <3> QED BY <1>6, <2>4, Division
  <2>6. \A v \in AllWords : v \div size = Value(a) \div size
                             <=> v \in base .. (base + size - 1)
    <3> HIDE DEF size, a
    <3> QED BY <1>5, <2>4, <2>5, QuotientBlock
  <2> HIDE DEF a, matches, base, size
  <2> QED BY <1>4, <2>1, <2>3, <2>6
<1> QED BY <1>3, <1>7, <1>8, <1>9, <1>10 DEF Modes

\* For every number of entries, width and granularity, the comparators select the
\* words of the block the mode describes.
THEOREM BlocksMatched == Spec => []MatchesBlock
<1>1. Init => NoNa4
  BY DEF Init, NoNa4, PMPNCFG_DEFAULT
<1>2. Inv /\ NoNa4 => MatchesBlock
  BY BlockHolds DEF Inv
<1> QED BY <1>1, <1>2, InitInv, StepInv, NoNa4Step, PTL DEF Spec
=============================================================================

------------------------------ MODULE DataLemmas ----------------------------
(***************************************************************************)
(* Facts about data that the proofs of several components need: induction  *)
(* and recursive functions, stated with sets and functions in place of     *)
(* operators, the powers of two, and sequences without repetition.         *)
(***************************************************************************)
EXTENDS Integers, Functions, FiniteSetTheorems, SequenceTheorems, WellFoundedInduction, TLAPS

\* Every set of numbers has a least one.
LEMMA LeastNumber ==
  ASSUME NEW T \in SUBSET Nat, T # {}
  PROVE  \E x \in T : \A y \in T : x <= y
<1> DEFINE R == {ss \in Nat \X Nat : ss[1] < ss[2]}
<1>1. IsWellFoundedOn(R, Nat)
  BY NatLessThanWellFounded DEF OpToRel
<1>2. PICK x \in T : \A y \in T : ~(<<y, x>> \in R)
  <2> HIDE DEF R
  <2> QED
    BY <1>1, WFMin, Zenon
<1>3. ASSUME NEW y \in T PROVE x <= y
  <2>1. <<y, x>> \in Nat \X Nat /\ <<y, x>>[1] = y /\ <<y, x>>[2] = x
    OBVIOUS
  <2>2. ~(y < x)
    BY <1>2, <2>1
  <2> QED
    BY <2>2
<1> QED
  BY <1>3

\* A set that has 0 and with each number the next has them all.
LEMMA SetInduction ==
  ASSUME NEW T, 0 \in T, \A i \in Nat : i \in T => i + 1 \in T
  PROVE  Nat \subseteq T
<1> SUFFICES ASSUME Nat \ T # {} PROVE FALSE
  OBVIOUS
<1>1. PICK x \in Nat \ T : \A y \in Nat \ T : x <= y
  <2>1. Nat \ T \in SUBSET Nat
    OBVIOUS
  <2> QED
    BY <2>1, LeastNumber
<1>2. x # 0 /\ x - 1 \in Nat
  BY <1>1
<1>3. x - 1 \in T
  BY <1>1, <1>2
<1>4. (x - 1) + 1 = x
  BY <1>1
<1> QED
  BY <1>1, <1>2, <1>3, <1>4

\* The same up to a bound, ...
LEMMA IntervalInduction ==
  ASSUME NEW N \in Nat, NEW T, 0 \in T, \A i \in 0 .. N - 1 : i \in T => i + 1 \in T
  PROVE  0 .. N \subseteq T
<1> DEFINE U == {i \in Nat : i <= N => i \in T}
<1>1. 0 \in U
  OBVIOUS
<1>2. ASSUME NEW i \in Nat, i \in U PROVE i + 1 \in U
  <2>1. CASE i + 1 <= N
    BY <1>2, <2>1
  <2>2. CASE ~(i + 1 <= N)
    BY <2>2
  <2> QED
    BY <2>1, <2>2
<1>3. Nat \subseteq U
  <2> HIDE DEF U
  <2> QED
    BY <1>1, <1>2, SetInduction
<1> QED
  BY <1>3

\* ... and from a bound down.
LEMMA DownwardInduction ==
  ASSUME NEW N \in Nat, NEW T, N \in T, \A i \in 0 .. N - 1 : i + 1 \in T => i \in T
  PROVE  0 .. N \subseteq T
<1> DEFINE U == {i \in 0 .. N : N - i \in T}
<1>1. 0 \in U
  OBVIOUS
<1>2. ASSUME NEW i \in 0 .. N - 1, i \in U PROVE i + 1 \in U
  <2>1. N - (i + 1) \in 0 .. N - 1 /\ (N - (i + 1)) + 1 = N - i /\ i + 1 \in 0 .. N
    OBVIOUS
  <2> QED
    BY <1>2, <2>1
<1>3. 0 .. N \subseteq U
  <2> HIDE DEF U
  <2> QED
    BY <1>1, <1>2, IntervalInduction
<1>4. ASSUME NEW j \in 0 .. N PROVE j \in T
  <2>1. N - j \in 0 .. N /\ N - (N - j) = j
    OBVIOUS
  <2> QED
    BY <1>3, <2>1
<1> QED
  BY <1>4

\* What a recursive function keeps in every step it has in all its values.
LEMMA Stays ==
  ASSUME NEW N \in Nat, NEW S, NEW f, f[0] \in S,
         \A i \in 0 .. N - 1 : f[i] \in S => f[i + 1] \in S
  PROVE  \A i \in 0 .. N : f[i] \in S
<1> DEFINE T == {i \in 0 .. N : f[i] \in S}
<1>1. 0 \in T
  OBVIOUS
<1>2. ASSUME NEW i \in 0 .. N - 1, i \in T PROVE i + 1 \in T
  BY <1>2
<1>3. 0 .. N \subseteq T
  <2> HIDE DEF T
  <2> QED
    BY <1>1, <1>2, IntervalInduction
<1> QED
  BY <1>3

\* Function f starts at a and takes step i from i - 1 to i.
Iterates(f, N, a, step) == f[0] = a /\ \A i \in 1 .. N : f[i] = step[i][f[i - 1]]

\* A recursive definition by steps within a set has a solution.
LEMMA Iteration ==
  ASSUME NEW N \in Nat, NEW S, NEW a \in S, NEW step \in [1 .. N -> [S -> S]]
  PROVE  \E f \in [0 .. N -> S] : Iterates(f, N, a, step)
<1> USE DEF Iterates
<1> DEFINE Upto(k) == \E f \in [0 .. k -> S] :
                        f[0] = a /\ \A i \in 1 .. k : f[i] = step[i][f[i - 1]]
           T == {k \in 0 .. N : Upto(k)}
<1>1. 0 \in T
  <2>1. [i \in 0 .. 0 |-> a] \in [0 .. 0 -> S]
    OBVIOUS
  <2>2. Upto(0)
    <3> DEFINE g == [i \in 0 .. 0 |-> a]
    <3>1. g[0] = a /\ \A i \in 1 .. 0 : g[i] = step[i][g[i - 1]]
      OBVIOUS
    <3> HIDE DEF g
    <3> QED
      BY <2>1, <3>1 DEF g
  <2> QED
    BY <2>2
<1>2. ASSUME NEW k \in 0 .. N - 1, k \in T PROVE k + 1 \in T
  <2>1. PICK f \in [0 .. k -> S] : f[0] = a /\ \A i \in 1 .. k : f[i] = step[i][f[i - 1]]
    BY <1>2
  <2> DEFINE g == [i \in 0 .. k + 1 |-> IF i = k + 1 THEN step[i][f[k]] ELSE f[i]]
  <2>2. f[k] \in S /\ k + 1 \in 1 .. N
    OBVIOUS
  <2>3. step[k + 1][f[k]] \in S
    BY <2>2
  <2>4. g \in [0 .. k + 1 -> S]
    BY <2>3
  <2>5. g[0] = a
    BY <2>1
  <2>6. ASSUME NEW i \in 1 .. k + 1 PROVE g[i] = step[i][g[i - 1]]
    <3>1. CASE i = k + 1
      <4>1. g[i] = step[i][f[k]] /\ g[i - 1] = f[k]
        BY <3>1
      <4> QED
        BY <4>1
    <3>2. CASE i # k + 1
      <4>1. g[i] = f[i] /\ g[i - 1] = f[i - 1] /\ i \in 1 .. k
        BY <3>2
      <4> QED
        BY <2>1, <4>1
    <3> QED
      BY <3>1, <3>2
  <2>7. Upto(k + 1)
    <3> HIDE DEF g
    <3> QED
      BY <2>4, <2>5, <2>6
  <2> QED
    BY <2>7
<1>3. 0 .. N \subseteq T
  <2> HIDE DEF T
  <2> QED
    BY <1>1, <1>2, IntervalInduction
<1>4. N \in T
  BY <1>3
<1> QED
  BY <1>4

-----------------------------------------------------------------------------
(* Remainders *)

\* Division with remainder.
LEMMA Remainder ==
  ASSUME NEW n \in Nat, NEW b \in Nat \ {0}
  PROVE  /\ n % b \in 0 .. b - 1 /\ n \div b \in Nat
         /\ n = (b * (n \div b)) + (n % b)
OBVIOUS

\* Only one remainder is less than the divisor.
LEMMA RemainderIsUnique ==
  ASSUME NEW b \in Nat \ {0}, NEW q \in Int, NEW p \in Int,
         NEW r \in 0 .. b - 1, NEW s \in 0 .. b - 1, (b * q) + r = (b * p) + s
  PROVE  r = s
<1>1. CASE q = p
  BY <1>1
<1>2. ASSUME q < p PROVE FALSE
  <2>1. p - q >= 1 /\ b * (p - q) = r - s
    BY <1>2
  <2>2. b * (p - q) >= b
    BY <2>1
  <2> QED
    BY <2>1, <2>2
<1>3. ASSUME q > p PROVE FALSE
  <2>1. q - p >= 1 /\ b * (q - p) = s - r
    BY <1>3
  <2>2. b * (q - p) >= b
    BY <2>1
  <2> QED
    BY <2>1, <2>2
<1> QED
  BY <1>1, <1>2, <1>3

\* Counting the blocks of an epoch.
LEMMA NextRemainder ==
  ASSUME NEW n \in Nat, NEW b \in Nat \ {0}
  PROVE  (n + 1) % b = IF n % b = b - 1 THEN 0 ELSE (n % b) + 1
<1>1. n + 1 \in Nat
  OBVIOUS
<1>2. /\ (n + 1) % b \in 0 .. b - 1 /\ (n + 1) \div b \in Nat
      /\ n + 1 = (b * ((n + 1) \div b)) + ((n + 1) % b)
  BY <1>1, Remainder
<1>3. n % b \in 0 .. b - 1 /\ n \div b \in Nat /\ n = (b * (n \div b)) + (n % b)
  BY Remainder
<1>4. CASE n % b = b - 1
  <2>1. n + 1 = (b * ((n \div b) + 1)) + 0
    BY <1>3, <1>4
  <2>2. 0 \in 0 .. b - 1 /\ (n \div b) + 1 \in Nat
    BY <1>3
  <2> QED
    BY <1>2, <1>4, <2>1, <2>2, RemainderIsUnique
<1>5. CASE n % b # b - 1
  <2>1. n + 1 = (b * (n \div b)) + ((n % b) + 1)
    BY <1>3
  <2>2. (n % b) + 1 \in 0 .. b - 1
    BY <1>3, <1>5
  <2> QED
    BY <1>2, <1>3, <1>5, <2>1, <2>2, RemainderIsUnique, SMTT(30)
<1> QED
  BY <1>4, <1>5

\* A remainder is at most the dividend.
LEMMA RemainderAtMost ==
  ASSUME NEW n \in Nat, NEW b \in Nat \ {0}
  PROVE  n % b \in 0 .. n
<1>1. n % b \in 0 .. b - 1 /\ n \div b \in Nat /\ n = (b * (n \div b)) + (n % b)
  BY Remainder
<1>2. b * (n \div b) \in Nat
  BY <1>1
<1> QED
  BY <1>1, <1>2

\* The quotient that a remainder less than the divisor belongs to.
LEMMA QuotientIs ==
  ASSUME NEW b \in Nat \ {0}, NEW q \in Nat, NEW r \in 0 .. b - 1
  PROVE  ((b * q) + r) \div b = q
OBVIOUS

\* Halving a quotient.
LEMMA HalfOfQuotient ==
  ASSUME NEW a \in Nat, NEW b \in Nat \ {0}
  PROVE  (a \div b) \div 2 = a \div (2 * b)
<1> DEFINE q == a \div b
           r == a % b
           d == q % 2
<1>1. q \in Nat /\ r \in 0 .. b - 1 /\ a = (b * q) + r
  BY Remainder
<1>2. q \div 2 \in Nat /\ d \in 0 .. 1 /\ q = (2 * (q \div 2)) + d
  <2> HIDE DEF q
  <2> QED
    BY <1>1, Remainder
<1> HIDE DEF q, r, d
<1>3. b * d \in 0 .. b
  <2>1. CASE d = 0
    BY <2>1
  <2>2. CASE d = 1
    BY <2>2
  <2> QED
    BY <1>2, <2>1, <2>2
<1>4. (b * d) + r \in 0 .. (2 * b) - 1
  BY <1>1, <1>3
<1>5. a = ((2 * b) * (q \div 2)) + ((b * d) + r)
  <2>1. b * q = (b * (2 * (q \div 2))) + (b * d)
    BY <1>2
  <2>2. b * (2 * (q \div 2)) = (2 * b) * (q \div 2)
    BY <1>2
  <2>3. b * (2 * (q \div 2)) \in Nat
    BY <1>2
  <2> QED
    BY <1>1, <1>3, <2>1, <2>2, <2>3
<1>6. 2 * b \in Nat \ {0}
  OBVIOUS
<1>7. a \div (2 * b) = q \div 2
  BY <1>2, <1>4, <1>5, <1>6, QuotientIs
<1> QED
  BY <1>7 DEF q

\* Quotient and remainder are the only ones.
LEMMA DivisionIs ==
  ASSUME NEW n \in Nat, NEW b \in Nat \ {0}, NEW q \in Nat, NEW r \in 0 .. b - 1,
         n = (b * q) + r
  PROVE  n \div b = q /\ n % b = r
<1> DEFINE qq == n \div b
           rr == n % b
<1>1. rr \in 0 .. b - 1 /\ qq \in Nat /\ n = (b * qq) + rr
  BY Remainder
<1> HIDE DEF rr, qq
<1>2. (b * qq) + rr = (b * q) + r /\ qq \in Int /\ q \in Int
  BY <1>1
<1>3. rr = r
  BY <1>1, <1>2, RemainderIsUnique
<1>4. n \div b = q
  BY QuotientIs
<1> QED
  BY <1>3, <1>4 DEF rr

\* A quotient lies where its dividend does.
LEMMA QuotientBetween ==
  ASSUME NEW t \in Nat, NEW w \in Nat \ {0}, NEW a \in Nat, NEW b \in Nat,
         a * w <= t, t < b * w
  PROVE  t \div w \in a .. b - 1
<1> DEFINE q == t \div w
<1>1. q \in Nat /\ t = (w * q) + (t % w) /\ t % w \in 0 .. w - 1
  BY Remainder
<1>2. q >= a
  <2> SUFFICES ASSUME q + 1 <= a PROVE FALSE
    BY <1>1
  <2>1. w * (q + 1) <= w * a
    <3> HIDE DEF q
    <3>1. \A c, d, v \in Nat : c <= d => v * c <= v * d
      OBVIOUS
    <3> QED
      BY <1>1, <3>1
  <2>2. w * (q + 1) = (w * q) + w /\ w * a = a * w /\ w * q \in Nat
    <3> HIDE DEF q
    <3> QED
      BY <1>1
  <2> HIDE DEF q
  <2> QED
    BY <1>1, <2>1, <2>2
<1>3. q < b
  <2> SUFFICES ASSUME b <= q PROVE FALSE
    BY <1>1
  <2>1. w * b <= w * q
    <3> HIDE DEF q
    <3>1. \A c, d, v \in Nat : c <= d => v * c <= v * d
      OBVIOUS
    <3> QED
      BY <1>1, <3>1
  <2>2. w * b = b * w /\ w * q \in Nat
    <3> HIDE DEF q
    <3> QED
      BY <1>1
  <2> HIDE DEF q
  <2> QED
    BY <1>1, <2>1, <2>2
<1> HIDE DEF q
<1>4. q \in a .. b - 1
  BY <1>1, <1>2, <1>3
<1> QED
  BY <1>4 DEF q

\* Dividing twice is dividing by the product.
LEMMA QuotientOfQuotient ==
  ASSUME NEW a \in Nat, NEW b \in Nat \ {0}, NEW c \in Nat \ {0}
  PROVE  (a \div b) \div c = a \div (c * b)
<1> DEFINE q == a \div b
           r == a % b
           p == q \div c
           s == q % c
<1>1. r \in 0 .. b - 1 /\ q \in Nat /\ a = (b * q) + r
  BY Remainder
<1>2. s \in 0 .. c - 1 /\ p \in Nat /\ q = (c * p) + s
  BY <1>1, Remainder
<1> HIDE DEF q, r, p, s
<1>3. c * b \in Nat \ {0}
  OBVIOUS
<1>4. a = ((c * b) * p) + ((b * s) + r)
  <2>1. \A x, y, z, v \in Nat : y * ((x * z) + v) = ((x * y) * z) + (y * v)
    OBVIOUS
  <2>2. b * q = ((c * b) * p) + (b * s)
    BY <1>2, <2>1
  <2>3. (c * b) * p \in Nat /\ b * s \in Nat
    BY <1>2, <1>3
  <2> QED
    BY <1>1, <2>2, <2>3
<1>5. (b * s) + r \in 0 .. (c * b) - 1
  <2>1. b * s <= b * (c - 1)
    <3>1. \A x, y, v \in Nat : x <= y => v * x <= v * y
      OBVIOUS
    <3> QED
      BY <1>2, <3>1
  <2>2. b * (c - 1) = (c * b) - b /\ b * s \in Nat
    BY <1>2
  <2> QED
    BY <1>1, <1>3, <2>1, <2>2
<1>6. a \div (c * b) = p
  <2> DEFINE d == c * b
             v == (b * s) + r
  <2>1. d \in Nat \ {0} /\ v \in 0 .. d - 1 /\ a = (d * p) + v
    BY <1>3, <1>4, <1>5
  <2> HIDE DEF d, v
  <2>2. a \div d = p
    BY <1>2, <2>1, QuotientIs
  <2> QED
    BY <2>2 DEF d
<1> QED
  BY <1>6 DEF p, q

\* A product divided by a factor.
LEMMA Cancelled ==
  ASSUME NEW a \in Nat, NEW b \in Nat \ {0}
  PROVE  (a * b) \div b = a
OBVIOUS

\* The remainder by twice the divisor.
LEMMA RemainderOfDouble ==
  ASSUME NEW n \in Nat, NEW b \in Nat \ {0}
  PROVE  n % (2 * b) = (b * ((n \div b) % 2)) + (n % b)
<1> DEFINE q == n \div b
           r == n % b
           d == q % 2
           p == q \div 2
<1>1. q \in Nat /\ r \in 0 .. b - 1 /\ n = (b * q) + r
  BY Remainder
<1>2. p \in Nat /\ d \in 0 .. 1 /\ q = (2 * p) + d
  <2> HIDE DEF q
  <2> QED
    BY <1>1, Remainder
<1> HIDE DEF q, r, d, p
<1>3. b * d \in 0 .. b /\ b * q = ((2 * b) * p) + (b * d)
  <2>1. CASE d = 0
    BY <1>2, <2>1
  <2>2. CASE d = 1
    BY <1>2, <2>2
  <2> QED
    BY <1>2, <2>1, <2>2
<1>4. (b * d) + r \in 0 .. (2 * b) - 1
  <2>1. CASE d = 0
    BY <1>1, <2>1
  <2>2. CASE d = 1
    BY <1>1, <2>2
  <2> QED
    BY <1>2, <2>1, <2>2
<1> DEFINE s == (b * d) + r
           bb == 2 * b
<1>5. bb \in Nat \ {0} /\ s \in 0 .. bb - 1
  BY <1>4
<1>6. n = (bb * p) + s
  <2>1. (2 * b) * p \in Nat
    BY <1>2
  <2> QED
    BY <1>1, <1>3, <2>1
<1> HIDE DEF s, bb
<1>7. n % bb = s
  BY <1>2, <1>5, <1>6, DivisionIs
<1> QED
  BY <1>7 DEF bb, s, d, q, r

-----------------------------------------------------------------------------
(* Powers of two *)

\* The subsets of a set with one element more: with it and without it.
LEMMA SubsetsOfOneMore ==
  ASSUME NEW S, IsFiniteSet(S), NEW x, x \notin S
  PROVE  Cardinality(SUBSET (S \union {x})) = 2 * Cardinality(SUBSET S)
<1> DEFINE A == SUBSET S
           B == {X \union {x} : X \in A}
           f == [X \in A |-> X \union {x}]
<1>1. IsFiniteSet(A) /\ Cardinality(A) \in Nat
  BY FS_SUBSET, FS_CardinalityType
<1>2. IsFiniteSet(B) /\ Cardinality(B) = Cardinality(A)
  <2>1. f \in [A -> B] /\ \A y \in B : \E X \in A : f[X] = y
    OBVIOUS
  <2>2. \A X, Y \in A : f[X] = f[Y] => X = Y
    <3> SUFFICES ASSUME NEW X \in A, NEW Y \in A, X \union {x} = Y \union {x} PROVE X = Y
      OBVIOUS
    <3>1. x \notin X /\ x \notin Y
      OBVIOUS
    <3> QED
      BY <3>1
  <2>3. f \in Bijection(A, B)
    <3> HIDE DEF f, A, B
    <3> QED
      BY <2>1, <2>2 DEF Bijection, Injection, Surjection, IsInjective
  <2>4. ExistsBijection(A, B)
    <3> HIDE DEF f, A, B
    <3> QED
      BY <2>3 DEF ExistsBijection
  <2> HIDE DEF A, B
  <2> QED
    BY <1>1, <2>4, FS_Bijection
<1>3. A \intersect B = {} /\ SUBSET (S \union {x}) = A \union B
  <2>1. A \intersect B = {}
    OBVIOUS
  <2>2. ASSUME NEW Y \in SUBSET (S \union {x}) PROVE Y \in A \union B
    <3>1. CASE x \in Y
      <4>1. Y = (Y \ {x}) \union {x} /\ Y \ {x} \in A
        BY <3>1
      <4> QED
        BY <4>1
    <3>2. CASE x \notin Y
      BY <3>2
    <3> QED
      BY <3>1, <3>2
  <2> QED
    BY <2>1, <2>2
<1>4. Cardinality(A \intersect B) = 0
  BY <1>3, FS_EmptySet
<1>5. Cardinality(A \union B) = Cardinality(A) + Cardinality(B) - Cardinality(A \intersect B)
  <2> HIDE DEF A, B
  <2> QED
    BY <1>1, <1>2, FS_Union
<1>6. Cardinality(A \union B) = 2 * Cardinality(A)
  <2> HIDE DEF A, B
  <2> QED
    BY <1>1, <1>2, <1>4, <1>5
<1>7. Cardinality(SUBSET (S \union {x})) = Cardinality(A \union B)
  BY <1>3
<1> HIDE DEF B
<1> QED
  BY <1>6, <1>7

\* The provers do not know exponentiation; the number of subsets tells it them.
LEMMA PowersOfTwo ==
  /\ 2^0 = 1
  /\ \A k \in Nat : 2^k \in Nat \ {0} /\ 2^(k + 1) = 2 * 2^k
<1>1. ASSUME NEW k \in Nat
      PROVE  /\ IsFiniteSet(1 .. k) /\ Cardinality(SUBSET (1 .. k)) = 2^k
             /\ Cardinality(SUBSET (1 .. k)) \in Nat
  <2>1. IsFiniteSet(1 .. k) /\ Cardinality(1 .. k) = k
    BY FS_Interval
  <2> QED
    BY <2>1, FS_SUBSET, FS_CardinalityType
<1>2. 2^0 = 1
  <2>1. 1 .. 0 = {} /\ SUBSET {} = {{}}
    OBVIOUS
  <2>2. Cardinality({{}}) = 1
    BY FS_Singleton
  <2> QED
    BY <1>1, <2>1, <2>2
<1>3. ASSUME NEW k \in Nat PROVE 2^(k + 1) = 2 * 2^k
  <2>1. 1 .. k + 1 = (1 .. k) \union {k + 1} /\ k + 1 \notin 1 .. k /\ k + 1 \in Nat
    OBVIOUS
  <2>2. Cardinality(SUBSET ((1 .. k) \union {k + 1})) = 2 * Cardinality(SUBSET (1 .. k))
    BY <1>1, <2>1, SubsetsOfOneMore
  <2>3. Cardinality(SUBSET (1 .. k + 1)) = 2 * 2^k
    BY <1>1, <2>1, <2>2
  <2> QED
    BY <1>1, <2>1, <2>3
<1>4. ASSUME NEW k \in Nat PROVE 2^k # 0
  <2>1. {} \in SUBSET (1 .. k) /\ IsFiniteSet(SUBSET (1 .. k))
    BY <1>1, FS_SUBSET
  <2>2. Cardinality(SUBSET (1 .. k)) # 0
    BY <2>1, FS_EmptySet
  <2> QED
    BY <1>1, <2>2
<1> QED
  BY <1>1, <1>2, <1>3, <1>4

\* Greater exponents have greater powers.
LEMMA PowersGrow ==
  ASSUME NEW i \in Nat, NEW j \in Nat, i < j
  PROVE  2^i < 2^j
<1> DEFINE T == {d \in Nat : 2^i < 2^(i + d + 1)}
<1>1. 0 \in T
  <2>1. i + 0 + 1 = i + 1 /\ 2^(i + 1) = 2 * 2^i /\ 2^i \in Nat \ {0}
    BY PowersOfTwo
  <2> QED
    BY <2>1
<1>2. ASSUME NEW d \in Nat, d \in T PROVE d + 1 \in T
  <2>1. /\ i + d + 1 \in Nat /\ i + (d + 1) + 1 = (i + d + 1) + 1
    OBVIOUS
  <2>2. 2^((i + d + 1) + 1) = 2 * 2^(i + d + 1) /\ 2^(i + d + 1) \in Nat \ {0} /\ 2^i \in Nat
    BY <2>1, PowersOfTwo
  <2>3. 2^i < 2^(i + d + 1)
    BY <1>2
  <2>4. 2^i < 2^((i + d + 1) + 1)
    BY <2>2, <2>3
  <2> QED
    BY <2>1, <2>4
<1>3. Nat \subseteq T
  <2> HIDE DEF T
  <2> QED
    BY <1>1, <1>2, SetInduction
<1>4. j - i - 1 \in T
  <2>1. j - i - 1 \in Nat
    OBVIOUS
  <2> HIDE DEF T
  <2> QED
    BY <1>3, <2>1
<1>5. i + (j - i - 1) + 1 = j
  OBVIOUS
<1> QED
  BY <1>4, <1>5

\* A number is less than its power.
LEMMA BelowPower == \A n \in Nat : n < 2^n
<1> DEFINE T == {n \in Nat : n < 2^n}
<1>1. 0 \in T
  BY PowersOfTwo
<1>2. ASSUME NEW n \in Nat, n \in T PROVE n + 1 \in T
  <2>1. 2^(n + 1) = 2 * 2^n /\ 2^n \in Nat \ {0} /\ n < 2^n
    BY <1>2, PowersOfTwo
  <2> QED
    BY <2>1
<1>3. Nat \subseteq T
  <2> HIDE DEF T
  <2> QED
    BY <1>1, <1>2, SetInduction
<1> QED
  BY <1>3

\* Different exponents give different powers.
LEMMA PowersDiffer ==
  ASSUME NEW i \in Nat, NEW j \in Nat, 2^i = 2^j
  PROVE  i = j
<1>1. 2^i \in Nat /\ 2^j \in Nat
  BY PowersOfTwo
<1>2. ~(i < j) /\ ~(j < i)
  BY <1>1, PowersGrow
<1> QED
  BY <1>2

\* The quotients of a number by powers of two, and its binary digits.
LEMMA BinaryDigits ==
  ASSUME NEW K \in Nat, NEW at \in [0 .. K -> Nat], NEW bit \in [0 .. K - 1 -> {0, 1}],
         \A i \in 0 .. K - 1 : at[i] = 2 * at[i + 1] + bit[i]
  PROVE  /\ \A i \in 0 .. K : at[0] \div 2^i = at[i]
         /\ \A i \in 0 .. K - 1 : (at[0] \div 2^i) % 2 = bit[i]
<1> DEFINE T == {i \in 0 .. K : \E r \in 0 .. 2^i - 1 : at[0] = (2^i * at[i]) + r}
<1>1. 0 \in T
  <2>1. 2^0 = 1 /\ 0 \in 0 .. 2^0 - 1 /\ at[0] \in Nat /\ 0 \in 0 .. K
    BY PowersOfTwo
  <2>2. at[0] = (2^0 * at[0]) + 0
    BY <2>1
  <2> QED
    BY <2>1, <2>2
<1>2. ASSUME NEW i \in 0 .. K - 1, i \in T PROVE i + 1 \in T
  <2>1. PICK r \in 0 .. 2^i - 1 : at[0] = (2^i * at[i]) + r
    BY <1>2
  <2> DEFINE p == 2^i
             q == at[i + 1]
             b == bit[i]
  <2>2. p \in Nat \ {0} /\ 2^(i + 1) = 2 * p /\ q \in Nat /\ b \in {0, 1} /\ i + 1 \in 0 .. K
    BY PowersOfTwo
  <2>3. at[0] = (p * (2 * q + b)) + r /\ r \in 0 .. p - 1
    BY <2>1
  <2>4. at[0] = ((2 * p) * q) + (IF b = 0 THEN r ELSE p + r)
    <3> HIDE DEF p, q, b
    <3>1. p * (2 * q) = (2 * p) * q /\ p * (2 * q + 1) = ((2 * p) * q) + p
      BY <2>2
    <3> QED
      BY <2>2, <2>3, <3>1
  <2>5. (IF b = 0 THEN r ELSE p + r) \in 0 .. (2 * p) - 1
    <3> HIDE DEF p, b
    <3> QED
      BY <2>2, <2>3
  <2>6. \E s \in 0 .. 2^(i + 1) - 1 : at[0] = (2^(i + 1) * at[i + 1]) + s
    <3> HIDE DEF p, b
    <3> QED
      BY <2>2, <2>4, <2>5
  <2> QED
    BY <2>2, <2>6
<1>3. 0 .. K \subseteq T
  <2> HIDE DEF T
  <2> QED
    BY <1>1, <1>2, IntervalInduction
<1>4. ASSUME NEW i \in 0 .. K PROVE at[0] \div 2^i = at[i]
  <2>1. PICK r \in 0 .. 2^i - 1 : at[0] = (2^i * at[i]) + r
    BY <1>3
  <2> DEFINE b == 2^i
             q == at[i]
  <2>2. b \in Nat \ {0} /\ q \in Nat /\ r \in 0 .. b - 1 /\ at[0] = (b * q) + r
    BY <2>1, PowersOfTwo
  <2>3. at[0] \div b = q
    <3> HIDE DEF b, q
    <3> QED
      BY <2>2, QuotientIs
  <2> QED
    BY <2>3
<1>5. ASSUME NEW i \in 0 .. K - 1 PROVE at[i] % 2 = bit[i]
  <2>1. at[i + 1] \in Nat /\ bit[i] \in {0, 1} /\ at[i] = 2 * at[i + 1] + bit[i]
    OBVIOUS
  <2> QED
    BY <2>1
<1> QED
  BY <1>4, <1>5

-----------------------------------------------------------------------------
(* Sequences *)

\* A concatenation has the elements of both sequences, ...
LEMMA ConcatRange ==
  ASSUME NEW S, NEW s \in Seq(S), NEW t \in Seq(S)
  PROVE  Range(s \o t) = Range(s) \union Range(t)
<1> DEFINE st == s \o t
<1>1. /\ st \in Seq(S) /\ Len(st) = Len(s) + Len(t)
      /\ \A i \in 1 .. Len(s) + Len(t) : st[i] = IF i <= Len(s) THEN s[i] ELSE t[i - Len(s)]
  BY ConcatProperties
<1>2. /\ Len(s) \in Nat /\ Len(t) \in Nat
      /\ DOMAIN s = 1 .. Len(s) /\ DOMAIN t = 1 .. Len(t) /\ DOMAIN st = 1 .. Len(s) + Len(t)
  BY <1>1, LenProperties
<1>3. Range(st) \subseteq Range(s) \union Range(t)
  <2> SUFFICES ASSUME NEW i \in 1 .. Len(s) + Len(t)
               PROVE  st[i] \in Range(s) \union Range(t)
    BY <1>2 DEF Range
  <2>1. CASE i <= Len(s)
    BY <2>1, <1>1, <1>2 DEF Range
  <2>2. CASE ~(i <= Len(s))
    <3>1. i - Len(s) \in DOMAIN t
      BY <2>2, <1>2
    <3>2. st[i] = t[i - Len(s)]
      BY <2>2, <1>1
    <3> QED BY <3>1, <3>2 DEF Range
  <2> QED BY <2>1, <2>2
<1>4. Range(s) \subseteq Range(st)
  <2> SUFFICES ASSUME NEW i \in 1 .. Len(s)
               PROVE  s[i] \in Range(st)
    BY <1>2 DEF Range
  <2>1. i \in DOMAIN st /\ st[i] = s[i]
    BY <1>1, <1>2
  <2> QED BY <2>1 DEF Range
<1>5. Range(t) \subseteq Range(st)
  <2> SUFFICES ASSUME NEW i \in 1 .. Len(t)
               PROVE  t[i] \in Range(st)
    BY <1>2 DEF Range
  <2>1. Len(s) + i \in DOMAIN st /\ st[Len(s) + i] = t[i]
    BY <1>1, <1>2
  <2> QED BY <2>1 DEF Range
<1> QED BY <1>3, <1>4, <1>5

\* ... and has none twice iff neither has and they share none.
LEMMA ConcatInjective ==
  ASSUME NEW S, NEW s \in Seq(S), NEW t \in Seq(S)
  PROVE  IsInjective(s \o t) <=>
           IsInjective(s) /\ IsInjective(t) /\ Range(s) \intersect Range(t) = {}
<1> DEFINE st == s \o t
<1>1. /\ st \in Seq(S) /\ Len(st) = Len(s) + Len(t)
      /\ \A i \in 1 .. Len(s) + Len(t) : st[i] = IF i <= Len(s) THEN s[i] ELSE t[i - Len(s)]
  BY ConcatProperties
<1>2. /\ Len(s) \in Nat /\ Len(t) \in Nat
      /\ DOMAIN s = 1 .. Len(s) /\ DOMAIN t = 1 .. Len(t) /\ DOMAIN st = 1 .. Len(s) + Len(t)
  BY <1>1, LenProperties
<1>3. /\ \A i \in 1 .. Len(s) : i \in DOMAIN st /\ st[i] = s[i]
      /\ \A i \in 1 .. Len(t) : Len(s) + i \in DOMAIN st /\ st[Len(s) + i] = t[i]
  BY <1>1, <1>2
<1>4. ASSUME IsInjective(st)
      PROVE  IsInjective(s) /\ IsInjective(t) /\ Range(s) \intersect Range(t) = {}
  <2>1. IsInjective(s)
    BY <1>2, <1>3, <1>4 DEF IsInjective
  <2>2. IsInjective(t)
    <3> SUFFICES ASSUME NEW i \in 1 .. Len(t), NEW j \in 1 .. Len(t), t[i] = t[j]
                 PROVE  i = j
      BY <1>2 DEF IsInjective
    <3>1. Len(s) + i = Len(s) + j
      BY <1>3, <1>4 DEF IsInjective
    <3> QED BY <3>1, <1>2
  <2>3. ASSUME NEW i \in 1 .. Len(s), NEW j \in 1 .. Len(t), s[i] = t[j]
        PROVE  FALSE
    <3>1. i = Len(s) + j
      BY <2>3, <1>3, <1>4 DEF IsInjective
    <3> QED BY <3>1, <1>2
  <2> QED BY <2>1, <2>2, <2>3, <1>2 DEF Range
<1>5. ASSUME IsInjective(s), IsInjective(t), Range(s) \intersect Range(t) = {},
             NEW i \in 1 .. Len(s) + Len(t), NEW j \in 1 .. Len(s) + Len(t), st[i] = st[j]
      PROVE  i = j
  <2>1. CASE i <= Len(s) /\ j <= Len(s)
    BY <2>1, <1>1, <1>2, <1>5 DEF IsInjective
  <2>2. CASE ~(i <= Len(s)) /\ ~(j <= Len(s))
    <3>1. i - Len(s) \in DOMAIN t /\ j - Len(s) \in DOMAIN t
      BY <2>2, <1>2
    <3>2. st[i] = t[i - Len(s)] /\ st[j] = t[j - Len(s)]
      BY <2>2, <1>1
    <3>3. i - Len(s) = j - Len(s)
      BY <3>1, <3>2, <1>5 DEF IsInjective
    <3> QED BY <3>3, <1>2
  <2>3. CASE i <= Len(s) /\ ~(j <= Len(s))
    <3>1. st[i] \in Range(s)
      BY <2>3, <1>1, <1>2 DEF Range
    <3>2. j - Len(s) \in DOMAIN t /\ st[j] = t[j - Len(s)]
      BY <2>3, <1>1, <1>2
    <3> QED BY <3>1, <3>2, <1>5 DEF Range
  <2>4. CASE ~(i <= Len(s)) /\ j <= Len(s)
    <3>1. st[j] \in Range(s)
      BY <2>4, <1>1, <1>2 DEF Range
    <3>2. i - Len(s) \in DOMAIN t /\ st[i] = t[i - Len(s)]
      BY <2>4, <1>1, <1>2
    <3> QED BY <3>1, <3>2, <1>5 DEF Range
  <2> QED BY <2>1, <2>2, <2>3, <2>4
<1> QED BY <1>2, <1>4, <1>5 DEF IsInjective

\* A sequence of even length is the concatenation of its halves, ...
LEMMA Halves ==
  ASSUME NEW S, NEW t \in Seq(S), NEW m \in Nat, Len(t) = 2 * m
  PROVE  /\ SubSeq(t, 1, Len(t) \div 2) \in Seq(S) /\ Len(SubSeq(t, 1, Len(t) \div 2)) = m
         /\ SubSeq(t, Len(t) \div 2 + 1, Len(t)) \in Seq(S)
         /\ Len(SubSeq(t, Len(t) \div 2 + 1, Len(t))) = m
         /\ t = SubSeq(t, 1, Len(t) \div 2) \o SubSeq(t, Len(t) \div 2 + 1, Len(t))
<1>1. Len(t) \div 2 = m /\ Len(t) \in Nat /\ \A i \in 1 .. Len(t) : t[i] \in S
  BY LenProperties
<1>2. /\ SubSeq(t, 1, m) \in Seq(S) /\ Len(SubSeq(t, 1, m)) = m
      /\ \A i \in 1 .. m : SubSeq(t, 1, m)[i] = t[i]
  <2>1. /\ SubSeq(t, 1, m) \in Seq(S)
        /\ Len(SubSeq(t, 1, m)) = IF 1 <= m THEN m - 1 + 1 ELSE 0
        /\ \A i \in 1 .. m - 1 + 1 : SubSeq(t, 1, m)[i] = t[1 + i - 1]
    BY <1>1, SubSeqProperties
  <2> QED
    BY <2>1
<1>3. /\ SubSeq(t, m + 1, 2 * m) \in Seq(S) /\ Len(SubSeq(t, m + 1, 2 * m)) = m
      /\ \A i \in 1 .. m : SubSeq(t, m + 1, 2 * m)[i] = t[m + i]
  <2>1. /\ SubSeq(t, m + 1, 2 * m) \in Seq(S)
        /\ Len(SubSeq(t, m + 1, 2 * m)) = IF m + 1 <= 2 * m THEN 2 * m - (m + 1) + 1 ELSE 0
        /\ \A i \in 1 .. 2 * m - (m + 1) + 1 :
             SubSeq(t, m + 1, 2 * m)[i] = t[m + 1 + i - 1]
    BY <1>1, SubSeqProperties
  <2> QED
    BY <2>1
<1>4. t = SubSeq(t, 1, m) \o SubSeq(t, m + 1, 2 * m)
  <2> DEFINE l == SubSeq(t, 1, m)
             r == SubSeq(t, m + 1, 2 * m)
  <2> HIDE DEF l, r
  <2>1. /\ l \o r \in Seq(S) /\ Len(l \o r) = Len(l) + Len(r)
        /\ \A i \in 1 .. Len(l) + Len(r) : (l \o r)[i] = IF i <= Len(l) THEN l[i] ELSE r[i - Len(l)]
    BY <1>2, <1>3, ConcatProperties DEF l, r
  <2>2. ASSUME NEW i \in 1 .. Len(t) PROVE t[i] = (l \o r)[i]
    <3>1. CASE i <= m
      BY <1>1, <1>2, <1>3, <2>1, <3>1 DEF l, r
    <3>2. CASE ~(i <= m)
      <4>1. i - m \in 1 .. m /\ m + (i - m) = i
        BY <1>1, <3>2
      <4> QED
        BY <1>1, <1>2, <1>3, <2>1, <3>2, <4>1 DEF l, r
    <3> QED
      BY <3>1, <3>2
  <2>3. Len(l \o r) = Len(t)
    BY <1>1, <1>2, <1>3, <2>1 DEF l, r
  <2> QED
    BY <2>1, <2>2, <2>3, SeqEqual DEF l, r
<1> QED
  BY <1>1, <1>2, <1>3, <1>4

\* ... which are what sequences of equal length were before they met.
LEMMA HalvesOfConcat ==
  ASSUME NEW S, NEW s \in Seq(S), NEW t \in Seq(S), Len(s) = Len(t)
  PROVE  /\ SubSeq(s \o t, 1, Len(s \o t) \div 2) = s
         /\ SubSeq(s \o t, Len(s \o t) \div 2 + 1, Len(s \o t)) = t
<1> DEFINE m == Len(s)
           st == s \o t
<1>1. /\ st \in Seq(S) /\ Len(st) = 2 * m /\ m \in Nat /\ Len(t) = m
      /\ \A i \in 1 .. 2 * m : st[i] = IF i <= m THEN s[i] ELSE t[i - m]
  BY ConcatProperties, LenProperties, SMTT(30)
<1>2. Len(st) \div 2 = m
  BY <1>1
<1>3. \A i \in 1 .. 2 * m : st[i] \in S
  BY <1>1, LenProperties
<1> HIDE DEF st
<1>4. /\ SubSeq(st, 1, m) \in Seq(S) /\ Len(SubSeq(st, 1, m)) = m
      /\ \A i \in 1 .. m : SubSeq(st, 1, m)[i] = s[i]
  <2>1. /\ SubSeq(st, 1, m) \in Seq(S)
        /\ Len(SubSeq(st, 1, m)) = IF 1 <= m THEN m - 1 + 1 ELSE 0
        /\ \A i \in 1 .. m - 1 + 1 : SubSeq(st, 1, m)[i] = st[1 + i - 1]
    BY <1>1, <1>3, SubSeqProperties
  <2> QED
    BY <1>1, <2>1
<1>5. /\ SubSeq(st, m + 1, 2 * m) \in Seq(S) /\ Len(SubSeq(st, m + 1, 2 * m)) = m
      /\ \A i \in 1 .. m : SubSeq(st, m + 1, 2 * m)[i] = t[i]
  <2>1. /\ SubSeq(st, m + 1, 2 * m) \in Seq(S)
        /\ Len(SubSeq(st, m + 1, 2 * m)) = IF m + 1 <= 2 * m THEN 2 * m - (m + 1) + 1 ELSE 0
        /\ \A i \in 1 .. 2 * m - (m + 1) + 1 :
             SubSeq(st, m + 1, 2 * m)[i] = st[m + 1 + i - 1]
    BY <1>1, <1>3, SubSeqProperties
  <2>2. ASSUME NEW i \in 1 .. m PROVE st[m + 1 + i - 1] = t[i]
    <3>1. m + 1 + i - 1 \in 1 .. 2 * m /\ ~(m + 1 + i - 1 <= m) /\ (m + 1 + i - 1) - m = i
      BY <1>1
    <3> QED
      BY <1>1, <3>1
  <2> QED
    BY <1>1, <2>1, <2>2
<1>6. SubSeq(st, 1, m) = s
  BY <1>4, SeqEqual
<1>7. SubSeq(st, m + 1, 2 * m) = t
  BY <1>1, <1>5, SeqEqual
<1> QED
  BY <1>1, <1>2, <1>6, <1>7 DEF st
\* A list by its length.
LEMMA ListOf ==
  ASSUME NEW m \in Nat, NEW s, s = [i \in 1 .. m |-> s[i]]
  PROVE  Len(s) = m /\ s \in Seq({s[i] : i \in 1 .. m}) /\ DOMAIN s = 1 .. m
<1> DEFINE S == {s[i] : i \in 1 .. m}
<1>1. s \in [1 .. m -> S]
  OBVIOUS
<1> HIDE DEF S
<1>2. s \in Seq(S) /\ DOMAIN s = 1 .. m
  BY <1>1, SeqDef
<1>3. Len(s) = m
  BY <1>2, LenProperties
<1> QED
  BY <1>2, <1>3 DEF S
=============================================================================

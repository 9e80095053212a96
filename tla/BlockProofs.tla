----------------------------- MODULE BlockProofs -----------------------------
(***************************************************************************)
(* What holds of a block's validation for every value of the constants:    *)
(* its Merkle root commits to its transactions, the chained hash of an     *)
(* array of words commits to the array, the streams it is read from and    *)
(* hashed in keep their bytes, and its outputs are never worth more than   *)
(* the subsidies.                                                          *)
(***************************************************************************)
EXTENDS Ledger, MerkleTree, HashChain, Serialize, DataLemmas

-----------------------------------------------------------------------------
(* The Merkle root *)

Up(row) == IF Len(row) > 1 THEN NextRow(row) ELSE row

\* The row of level k, and the function that compute_merkle_root chooses.
RowStep(f, leaves, k) == IF k = 1 THEN leaves ELSE Up(f[k - 1])
Rows(leaves) == CHOOSE f : f = [k \in 1 .. Len(leaves) |-> RowStep(f, leaves, k)]

\* The rows of a tree are defined from its leaves up.
LEMMA RowsExist ==
  ASSUME NEW leaves, Len(leaves) \in Nat
  PROVE  Rows(leaves) = [k \in 1 .. Len(leaves) |-> RowStep(Rows(leaves), leaves, k)]
<1> DEFINE n == Len(leaves)
           T == {k \in Nat : \E f : \A j \in 1 .. k : f[j] = RowStep(f, leaves, j)}
<1> HIDE DEF n
<1>0. n \in Nat
  BY DEF n
<1>1. 0 \in T
  OBVIOUS
<1>2. ASSUME NEW k \in Nat, k \in T PROVE k + 1 \in T
  <2>1. PICK f : \A j \in 1 .. k : f[j] = RowStep(f, leaves, j)
    BY <1>2
  <2> DEFINE h == [j \in 1 .. k + 1 |-> RowStep(f, leaves, j)]
  <2>2. ASSUME NEW j \in 1 .. k + 1 PROVE h[j] = RowStep(h, leaves, j)
    <3>1. CASE j = 1
      BY <3>1 DEF RowStep
    <3>2. CASE j # 1
      <4>1. j - 1 \in 1 .. k /\ j - 1 \in 1 .. k + 1
        BY <3>2
      <4>2. h[j - 1] = f[j - 1]
        BY <2>1, <4>1
      <4> HIDE DEF h
      <4>3. h[j] = RowStep(f, leaves, j)
        BY DEF h
      <4> QED
        BY <3>2, <4>2, <4>3 DEF RowStep
    <3> QED
      BY <3>1, <3>2
  <2> HIDE DEF h
  <2> QED
    BY <2>2
<1>3. n \in T
  <2> HIDE DEF T
  <2>1. Nat \subseteq T
    BY <1>1, <1>2, SetInduction
  <2> QED
    BY <1>0, <2>1
<1>4. PICK f : \A j \in 1 .. n : f[j] = RowStep(f, leaves, j)
  BY <1>3
<1> DEFINE h == [j \in 1 .. n |-> RowStep(f, leaves, j)]
<1>5. ASSUME NEW j \in 1 .. n PROVE h[j] = RowStep(h, leaves, j)
  <2>1. CASE j = 1
    BY <2>1 DEF RowStep
  <2>2. CASE j # 1
    <3>1. j - 1 \in 1 .. n
      BY <1>0, <2>2
    <3>2. h[j - 1] = f[j - 1]
      BY <1>4, <3>1
    <3> HIDE DEF h
    <3>3. h[j] = RowStep(f, leaves, j)
      BY DEF h
    <3> QED
      BY <2>2, <3>2, <3>3 DEF RowStep
  <2> QED
    BY <2>1, <2>2
<1>6. h = [j \in 1 .. n |-> h[j]]
  OBVIOUS
<1> HIDE DEF h
<1>7. h = [j \in 1 .. n |-> RowStep(h, leaves, j)]
  BY <1>5, <1>6
<1> QED
  BY <1>7 DEF Rows, n

\* The root is the last of them.
LEMMA RootIs ==
  ASSUME NEW leaves
  PROVE  compute_merkle_root(leaves) = Rows(leaves)[Len(leaves)]
BY DEF compute_merkle_root, Rows, RowStep, Up

-----------------------------------------------------------------------------
IsRow(s) == \E m \in Nat : s = [k \in 1 .. m |-> s[k]]

\* A function on 1 .. m is a row of length m.
LEMMA RowLength ==
  ASSUME NEW m \in Nat, NEW s, s = [k \in 1 .. m |-> s[k]]
  PROVE  IsRow(s) /\ Len(s) = m
<1> DEFINE R == {s[k] : k \in 1 .. m}
<1>1. s \in [1 .. m -> R]
  OBVIOUS
<1>2. s \in Seq(R) /\ DOMAIN s = 1 .. m
  <2> HIDE DEF R
  <2> QED
    BY <1>1
<1>3. Len(s) = m
  <2> HIDE DEF R
  <2> QED
    BY <1>2
<1> QED
  BY <1>3 DEF IsRow

\* A row is a function on its positions.
LEMMA RowIs ==
  ASSUME NEW s, IsRow(s)
  PROVE  Len(s) \in Nat /\ s = [k \in 1 .. Len(s) |-> s[k]]
<1>1. PICK m \in Nat : s = [k \in 1 .. m |-> s[k]]
  BY DEF IsRow
<1>2. Len(s) = m
  BY <1>1, RowLength
<1> QED
  BY <1>1, <1>2

\* Row r is what the m pairs of row s are hashed to, where the last may be alone and
\* is not two equal ones.
Paired(s, r, m) ==
  /\ m \in Nat \ {0} /\ Len(s) \in {2 * m - 1, 2 * m}
  /\ r = [k \in 1 .. m |-> r[k]]
  /\ \A k \in 1 .. m :
       r[k] = hash256(s[2 * k - 1], IF 2 * k <= Len(s) THEN s[2 * k] ELSE s[2 * k - 1])
  /\ Len(s) = 2 * m => s[2 * m] # s[2 * m - 1]

\* Half of an even length.
LEMMA EvenHalf ==
  ASSUME NEW n \in Nat, n > 1, n % 2 # 1
  PROVE  (n + 1) \div 2 \in Nat \ {0} /\ n = 2 * ((n + 1) \div 2) /\ (n + 1) \div 2 < n
<1> DEFINE q == n \div 2
           r == n % 2
<1>1. q \in Nat /\ r \in 0 .. 1 /\ n = (2 * q) + r
  BY Remainder
<1>2. r = 0
  BY <1>1
<1> HIDE DEF q, r
<1>3. n = 2 * q
  BY <1>1, <1>2
<1>4. n + 1 = (2 * q) + 1 /\ 1 \in 0 .. 2 - 1 /\ n + 1 \in Nat
  BY <1>3
<1>5. (n + 1) \div 2 = q
  BY <1>1, <1>4, DivisionIs
<1>6. q # 0 /\ q < n
  BY <1>1, <1>3
<1> QED
  BY <1>1, <1>3, <1>5, <1>6

\* A row that is not refused is hashed to a shorter one, pair by pair.
LEMMA RowOfPairs ==
  ASSUME NEW s, IsRow(s), Len(s) > 1, NextRow(s) # Failed
  PROVE  \E m \in Nat : Paired(s, NextRow(s), m) /\ m < Len(s)
<1> DEFINE n == Len(s)
           m == (n + 1) \div 2
<1>1. n \in Nat /\ n > 1 /\ s = [k \in 1 .. n |-> s[k]]
  BY RowIs
<1>2. CASE n % 2 = 1
  <2> DEFINE t == Append(s, Last(s))
  <2>1. m \in Nat /\ m # 0 /\ n = 2 * m - 1 /\ m < n
    BY <1>1, <1>2
  <2>2. Len(t) = n + 1 /\ \A k \in 1 .. n + 1 : t[k] = IF k <= n THEN s[k] ELSE s[n]
    BY <1>1 DEF Last
  <2>3. NextRow(s) = Pairs(t)
    BY <1>2 DEF NextRow
  <2> HIDE DEF t, m
  <2>4. Len(t) \div 2 = m
    BY <2>1, <2>2
  <2>5. Pairs(t) = [k \in 1 .. m |-> hash256(t[2 * k - 1], t[2 * k])]
    BY <2>4 DEF Pairs
  <2>6. ASSUME NEW k \in 1 .. m
        PROVE  Pairs(t)[k] = hash256(s[2 * k - 1], IF 2 * k <= n THEN s[2 * k] ELSE s[2 * k - 1])
    <3>1. 2 * k \in 1 .. n + 1 /\ 2 * k - 1 \in 1 .. n /\ (~(2 * k <= n) => 2 * k - 1 = n)
      BY <2>1
    <3>2. t[2 * k - 1] = s[2 * k - 1]
      BY <1>1, <2>2, <3>1
    <3>3. t[2 * k] = IF 2 * k <= n THEN s[2 * k] ELSE s[2 * k - 1]
      BY <2>2, <3>1
    <3> QED
      BY <2>5, <3>2, <3>3
  <2>7. Paired(s, Pairs(t), m)
    <3>1. Pairs(t) = [k \in 1 .. m |-> Pairs(t)[k]]
      BY <2>5
    <3>2. Len(s) # 2 * m /\ Len(s) = 2 * m - 1
      BY <2>1
    <3> QED
      BY <2>1, <2>6, <3>1, <3>2 DEF Paired
  <2> QED
    BY <2>1, <2>3, <2>7
<1>3. CASE n % 2 # 1
  <2>1. m \in Nat /\ m # 0 /\ n = 2 * m /\ m < n
    <3> HIDE DEF n
    <3> QED
      BY <1>1, <1>3, EvenHalf
  <2>2. Last(s) # s[n - 1] /\ NextRow(s) = Pairs(s)
    BY <1>3 DEF NextRow
  <2> HIDE DEF m
  <2>3. n \div 2 = m
    BY <2>1
  <2>4. Pairs(s) = [k \in 1 .. m |-> hash256(s[2 * k - 1], s[2 * k])]
    BY <2>3 DEF Pairs
  <2>5. ASSUME NEW k \in 1 .. m
        PROVE  Pairs(s)[k] = hash256(s[2 * k - 1], IF 2 * k <= n THEN s[2 * k] ELSE s[2 * k - 1])
    <3>1. 2 * k <= n
      BY <2>1
    <3> QED
      BY <2>4, <3>1
  <2>6. Pairs(s) = [k \in 1 .. m |-> Pairs(s)[k]]
    BY <2>4
  <2>7. s[2 * m] # s[2 * m - 1]
    BY <2>1, <2>2 DEF Last
  <2> QED
    BY <2>1, <2>2, <2>5, <2>6, <2>7 DEF Paired
<1> QED
  BY <1>2, <1>3

\* A row has one row below it.
LEMMA OneRowBelow ==
  ASSUME NEW s, NEW t, IsRow(s), IsRow(t), NEW r, NEW m, NEW p, Paired(s, r, m), Paired(t, r, p)
  PROVE  s = t
<1>1. m \in Nat \ {0} /\ p \in Nat \ {0} /\ Len(r) = m /\ Len(r) = p
  BY RowLength DEF Paired
<1>2. m = p
  BY <1>1
<1>3. /\ Len(s) \in Nat /\ s = [k \in 1 .. Len(s) |-> s[k]]
      /\ Len(t) \in Nat /\ t = [k \in 1 .. Len(t) |-> t[k]]
  BY RowIs
<1>4. Len(s) \in {2 * m - 1, 2 * m} /\ Len(t) \in {2 * m - 1, 2 * m}
  BY <1>2 DEF Paired
<1>5. ASSUME NEW k \in 1 .. m
      PROVE  /\ s[2 * k - 1] = t[2 * k - 1]
             /\ (IF 2 * k <= Len(s) THEN s[2 * k] ELSE s[2 * k - 1]) =
                (IF 2 * k <= Len(t) THEN t[2 * k] ELSE t[2 * k - 1])
  <2>1. /\ r[k] = hash256(s[2 * k - 1], IF 2 * k <= Len(s) THEN s[2 * k] ELSE s[2 * k - 1])
        /\ r[k] = hash256(t[2 * k - 1], IF 2 * k <= Len(t) THEN t[2 * k] ELSE t[2 * k - 1])
    BY <1>2 DEF Paired
  <2> DEFINE x == IF 2 * k <= Len(s) THEN s[2 * k] ELSE s[2 * k - 1]
             y == IF 2 * k <= Len(t) THEN t[2 * k] ELSE t[2 * k - 1]
  <2>2. hash256(s[2 * k - 1], x) = hash256(t[2 * k - 1], y)
    BY <2>1
  <2> HIDE DEF x, y
  <2>3. s[2 * k - 1] = t[2 * k - 1] /\ x = y
    BY <2>2 DEF hash256
  <2> QED
    BY <2>3 DEF x, y
<1>6. Len(s) = Len(t)
  <2>1. m \in 1 .. m /\ 2 * m \in Nat /\ 2 * m <= 2 * m /\ ~(2 * m <= 2 * m - 1)
    BY <1>1
  <2>2. CASE Len(s) = 2 * m /\ Len(t) = 2 * m - 1
    <3>1. 2 * m <= Len(s) /\ ~(2 * m <= Len(t))
      BY <2>1, <2>2
    <3>2. s[2 * m] = s[2 * m - 1]
      BY <1>5, <2>1, <3>1
    <3> QED
      BY <2>2, <3>2 DEF Paired
  <2>3. CASE Len(s) = 2 * m - 1 /\ Len(t) = 2 * m
    <3>1. ~(2 * m <= Len(s)) /\ 2 * m <= Len(t)
      BY <2>1, <2>3
    <3>2. t[2 * m] = t[2 * m - 1]
      BY <1>5, <2>1, <3>1
    <3> QED
      BY <1>2, <2>3, <3>2 DEF Paired
  <2> QED
    BY <1>4, <2>2, <2>3
<1>7. ASSUME NEW j \in 1 .. Len(s) PROVE s[j] = t[j]
  <2>1. PICK k \in 1 .. m : j = 2 * k - 1 \/ j = 2 * k
    <3>1. m \in Nat /\ j \in Nat /\ 1 <= j /\ j <= 2 * m
      BY <1>1, <1>3, <1>4
    <3>2. CASE j % 2 = 1
      <4>1. j = 2 * ((j + 1) \div 2) - 1 /\ (j + 1) \div 2 \in Nat
        BY ONLY <3>1, <3>2
      <4>2. (j + 1) \div 2 \in 1 .. m
        BY ONLY <3>1, <4>1
      <4> QED
        BY <4>1, <4>2
    <3>3. CASE j % 2 # 1
      <4>1. j = 2 * (j \div 2) /\ j \div 2 \in Nat
        BY ONLY <3>1, <3>3
      <4>2. j \div 2 \in 1 .. m
        BY ONLY <3>1, <4>1
      <4> QED
        BY <4>1, <4>2
    <3> QED
      BY <3>2, <3>3
  <2>2. CASE j = 2 * k - 1
    BY <1>5, <2>2
  <2>3. CASE j = 2 * k
    <3>1. 2 * k <= Len(s) /\ 2 * k <= Len(t)
      BY <1>3, <1>6, <2>3
    <3> QED
      BY <1>5, <2>3, <3>1
  <2> QED
    BY <2>1, <2>2, <2>3
<1> QED
  BY <1>3, <1>6, <1>7

\* From the leaves d - 1 rows up, each the pairs of the one below, is the root.
Climbs(leaves, r, d) ==
  /\ r[1] = leaves
  /\ \A k \in 1 .. d : IsRow(r[k])
  /\ \A k \in 1 .. d - 1 : \E m \in Nat : Paired(r[k], r[k + 1], m)
  /\ compute_merkle_root(leaves) = r[d]

\* Under every root are the rows that lead to it from the leaves.
LEMMA RootClimbs ==
  ASSUME NEW leaves, IsRow(leaves), Len(leaves) # 0, compute_merkle_root(leaves) # Failed
  PROVE  \E d \in Nat \ {0} : Climbs(leaves, Rows(leaves), d)
<1> DEFINE n == Len(leaves)
           r == Rows(leaves)
<1>1. n \in Nat /\ n # 0
  BY RowIs
<1>2. r = [k \in 1 .. n |-> RowStep(r, leaves, k)]
  BY <1>1, RowsExist
<1>3. compute_merkle_root(leaves) = r[n]
  BY RootIs
<1> HIDE DEF r
<1>4. r[1] = leaves
  <2>1. 1 \in 1 .. n
    BY <1>1
  <2>2. r[1] = RowStep(r, leaves, 1)
    BY <1>2, <2>1
  <2> QED
    BY <2>2 DEF RowStep
<1>5. ASSUME NEW k \in 1 .. n - 1 PROVE r[k + 1] = Up(r[k])
  <2>1. k + 1 \in 1 .. n /\ k + 1 # 1 /\ (k + 1) - 1 = k
    BY <1>1
  <2>2. r[k + 1] = RowStep(r, leaves, k + 1)
    BY <1>2, <2>1
  <2> QED
    BY <2>1, <2>2 DEF RowStep
<1> DEFINE L == Len(leaves)
<1> HIDE DEF n
<1>6. \A k \in 1 .. n : r[k] # Failed
  <2> DEFINE T == {j \in Nat : r[j + 1] # Failed}
  <2>1. n - 1 \in Nat /\ n - 1 \in T
    <3>1. n - 1 \in Nat /\ (n - 1) + 1 = n
      BY <1>1
    <3> QED
      BY <1>3, <3>1
  <2>2. ASSUME NEW j \in 0 .. n - 1 - 1, j + 1 \in T PROVE j \in T
    <3>1. j + 1 \in 1 .. n - 1 /\ j \in Nat
      BY <1>1
    <3>2. r[(j + 1) + 1] = Up(r[j + 1]) /\ r[(j + 1) + 1] # Failed
      BY <1>5, <2>2, <3>1
    <3>3. Up(Failed) = Failed
      <4>1. Len(Failed) = 0
        BY DEF Failed
      <4> QED
        BY <4>1 DEF Up
    <3>4. r[j + 1] # Failed
      BY <3>2, <3>3
    <3> QED
      BY <3>1, <3>4
  <2>3. 0 .. n - 1 \subseteq T
    <3> HIDE DEF T
    <3> QED
      BY <2>1, <2>2, DownwardInduction
  <2>4. \A k \in 1 .. n : k - 1 \in 0 .. n - 1 /\ (k - 1) + 1 = k
    BY <1>1
  <2> QED
    BY <2>3, <2>4
<1>7. ASSUME NEW k \in 1 .. n - 1, IsRow(r[k]), Len(r[k]) > 1
      PROVE  \E m \in Nat : Paired(r[k], r[k + 1], m) /\ m < Len(r[k])
  <2>1. r[k + 1] = NextRow(r[k])
    BY <1>5, <1>7 DEF Up
  <2>2. r[k + 1] # Failed
    <3>1. k + 1 \in 1 .. n
      BY <1>1
    <3> QED
      BY <1>6, <3>1
  <2> QED
    BY <1>7, <2>1, <2>2, RowOfPairs
<1>8. \A k \in 1 .. n : IsRow(r[k]) /\ (Len(r[k]) <= 1 \/ Len(r[k]) + k <= n + 1)
  <2> DEFINE Fits(s, j) == IsRow(s) /\ (Len(s) <= 1 \/ Len(s) + j <= n)
             T == {j \in Nat : Fits(r[j + 1], j)}
  <2>1. 0 \in T
    <3>1. Len(r[1]) = n
      BY <1>4 DEF n
    <3>2. IsRow(r[1]) /\ Len(r[1]) + 0 <= n
      BY <1>1, <1>4, <3>1
    <3> QED
      BY <3>2
  <2>2. ASSUME NEW j \in 0 .. n - 1 - 1, j \in T PROVE j + 1 \in T
    <3> DEFINE k == j + 1
    <3>1. k \in 1 .. n - 1 /\ k \in Nat
      BY <1>1
    <3>2. IsRow(r[k]) /\ (Len(r[k]) <= 1 \/ Len(r[k]) + j <= n)
      BY <2>2
    <3> HIDE DEF k
    <3>3. CASE Len(r[k]) > 1
      <4>1. PICK m \in Nat : Paired(r[k], r[k + 1], m) /\ m < Len(r[k])
        BY <1>7, <3>1, <3>2, <3>3
      <4>2. IsRow(r[k + 1]) /\ Len(r[k + 1]) = m
        BY <4>1, RowLength DEF Paired
      <4>3. Len(r[k]) \in Nat /\ Len(r[k]) + j <= n
        BY <3>2, <3>3, RowIs
      <4>4. m + k <= n
        BY <1>1, <4>1, <4>3 DEF k
      <4>5. Fits(r[k + 1], k)
        BY <4>2, <4>4
      <4> HIDE DEF Fits
      <4> QED
        BY <3>1, <4>5 DEF k
    <3>4. CASE ~(Len(r[k]) > 1)
      <4>1. r[k + 1] = r[k]
        BY <1>5, <3>1, <3>4 DEF Up
      <4>2. Len(r[k]) \in Nat
        BY <3>2, RowIs
      <4>3. Fits(r[k + 1], k)
        BY <3>2, <3>4, <4>1, <4>2
      <4> HIDE DEF Fits
      <4> QED
        BY <3>1, <4>3 DEF k
    <3> QED
      BY <3>3, <3>4
  <2>3. 0 .. n - 1 \subseteq T
    <3>1. n - 1 \in Nat
      BY <1>1
    <3> HIDE DEF T
    <3> QED
      BY <2>1, <2>2, <3>1, IntervalInduction
  <2>4. ASSUME NEW k \in 1 .. n PROVE IsRow(r[k]) /\ (Len(r[k]) <= 1 \/ Len(r[k]) + k <= n + 1)
    <3>1. k - 1 \in 0 .. n - 1 /\ (k - 1) + 1 = k
      BY <1>1
    <3>2. Fits(r[k], k - 1)
      <4> HIDE DEF Fits
      <4> QED
        BY <2>3, <3>1
    <3>3. Len(r[k]) \in Nat
      BY <3>2, RowIs
    <3> QED
      BY <1>1, <3>2, <3>3
  <2> QED
    BY <2>4
<1> DEFINE Short == {k \in 1 .. n : Len(r[k]) <= 1}
<1>9. PICK d \in Short : \A k \in Short : d <= k
  <2>1. n \in 1 .. n
    BY <1>1
  <2>2. Len(r[n]) <= 1
    <3>1. Len(r[n]) \in Nat /\ (Len(r[n]) <= 1 \/ Len(r[n]) + n <= n + 1)
      BY <1>8, <2>1, RowIs
    <3> QED
      BY <1>1, <3>1
  <2>3. Short \in SUBSET Nat /\ Short # {}
    BY <2>1, <2>2
  <2> HIDE DEF Short
  <2> QED
    BY <2>3, LeastNumber
<1>10. d \in Nat \ {0} /\ d <= n /\ Len(r[d]) <= 1
  BY <1>9
<1>11. ASSUME NEW k \in 1 .. d - 1 PROVE \E m \in Nat : Paired(r[k], r[k + 1], m)
  <2>1. k \in 1 .. n /\ k \in 1 .. n - 1 /\ ~(d <= k)
    BY <1>1, <1>10
  <2>2. IsRow(r[k]) /\ Len(r[k]) \in Nat
    BY <1>8, <2>1, RowIs
  <2>3. Len(r[k]) > 1
    BY <1>9, <2>1, <2>2
  <2> QED
    BY <1>7, <2>1, <2>2, <2>3
<1>12. r[n] = r[d]
  <2> DEFINE T == {j \in Nat : r[d + j] = r[d]}
  <2>1. 0 \in T
    BY <1>10
  <2>2. ASSUME NEW j \in 0 .. (n - d) - 1, j \in T PROVE j + 1 \in T
    <3>1. d + j \in 1 .. n - 1 /\ (d + j) + 1 = d + (j + 1) /\ j + 1 \in Nat
      BY <1>1, <1>10
    <3>2. r[d + (j + 1)] = Up(r[d + j]) /\ r[d + j] = r[d]
      BY <1>5, <2>2, <3>1
    <3>3. Up(r[d]) = r[d]
      <4>1. Len(r[d]) \in Nat
        BY <1>8, <1>10, RowIs
      <4>2. ~(Len(r[d]) > 1)
        BY <1>10, <4>1
      <4> QED
        BY <4>2 DEF Up
    <3> QED
      BY <3>1, <3>2, <3>3
  <2>3. n - d \in Nat /\ d + (n - d) = n
    BY <1>1, <1>10
  <2>4. 0 .. n - d \subseteq T
    <3> HIDE DEF T
    <3> QED
      BY <2>1, <2>2, <2>3, IntervalInduction
  <2>5. n - d \in 0 .. n - d
    BY <2>3
  <2>6. n - d \in T
    BY <2>4, <2>5
  <2> QED
    BY <2>3, <2>6
<1>13. \A k \in 1 .. d : IsRow(r[k])
  BY <1>1, <1>8, <1>10
<1>14. Climbs(leaves, r, d)
  BY <1>3, <1>4, <1>11, <1>12, <1>13 DEF Climbs
<1> QED
  BY <1>10, <1>14 DEF r

\* Two lists with one root have the same rows from the root down to the leaves of the
\* lower tree, and these are leaves of the other one too, since no txid is a hash.
LEMMA SameRows ==
  ASSUME NEW a, NEW b, NEW ra, NEW rb, NEW d \in Nat \ {0}, NEW e \in Nat \ {0},
         Climbs(a, ra, d), Climbs(b, rb, e), d <= e, Len(a) # 0,
         \A k \in 1 .. Len(a) : \E t : a[k] = Txid(t),
         compute_merkle_root(a) = compute_merkle_root(b)
  PROVE  a = b
<1> DEFINE T == {j \in Nat : ra[d - j] = rb[e - j]}
<1>1. 0 \in T
  <2>1. compute_merkle_root(a) = ra[d] /\ compute_merkle_root(b) = rb[e]
    BY DEF Climbs
  <2>2. d - 0 = d /\ e - 0 = e
    OBVIOUS
  <2>3. ra[d - 0] = rb[e - 0]
    BY <2>1, <2>2
  <2> QED
    BY <2>3
<1>2. ASSUME NEW j \in 0 .. (d - 1) - 1, j \in T PROVE j + 1 \in T
  <2> DEFINE k == d - (j + 1)
             l == e - (j + 1)
  <2>1. /\ k \in 1 .. d - 1 /\ k \in 1 .. d /\ k + 1 = d - j
        /\ l \in 1 .. e - 1 /\ l \in 1 .. e /\ l + 1 = e - j /\ j + 1 \in Nat
    OBVIOUS
  <2> HIDE DEF k, l
  <2>2. ra[k + 1] = rb[l + 1]
    BY <1>2, <2>1
  <2>3. IsRow(ra[k]) /\ IsRow(rb[l])
    BY <2>1 DEF Climbs
  <2>4. PICK m \in Nat : Paired(ra[k], ra[k + 1], m)
    BY <2>1 DEF Climbs
  <2>5. PICK p \in Nat : Paired(rb[l], rb[l + 1], p)
    BY <2>1 DEF Climbs
  <2>6. ra[k] = rb[l]
    BY <2>2, <2>3, <2>4, <2>5, OneRowBelow
  <2> QED
    BY <2>1, <2>6 DEF k, l
<1>3. ra[1] = rb[e - (d - 1)]
  <2>1. d - 1 \in Nat /\ d - (d - 1) = 1 /\ d - 1 \in 0 .. d - 1
    OBVIOUS
  <2>2. 0 .. d - 1 \subseteq T
    <3> HIDE DEF T
    <3> QED
      BY <1>1, <1>2, <2>1, IntervalInduction
  <2> QED
    BY <2>1, <2>2
<1>4. ra[1] = a /\ rb[1] = b /\ IsRow(a)
  BY DEF Climbs
<1>5. d = e
  <2> SUFFICES ASSUME d < e PROVE FALSE
    OBVIOUS
  <2> DEFINE l == e - d
  <2>1. l \in 1 .. e - 1 /\ l + 1 = e - (d - 1)
    OBVIOUS
  <2> HIDE DEF l
  <2>2. PICK p \in Nat : Paired(rb[l], rb[l + 1], p)
    BY <2>1 DEF Climbs
  <2>3. rb[l + 1] = a
    BY <1>3, <1>4, <2>1
  <2>4. 1 \in 1 .. p
    BY <2>2 DEF Paired
  <2>5. PICK x, y : a[1] = hash256(x, y)
    BY <2>2, <2>3, <2>4, SMTT(30) DEF Paired
  <2>6. 1 \in 1 .. Len(a)
    BY <1>4, RowIs
  <2>7. PICK t : a[1] = Txid(t)
    BY <2>6
  <2> QED
    BY <2>5, <2>7 DEF hash256, Txid
<1>6. e - (d - 1) = 1
  BY <1>5
<1> QED
  BY <1>3, <1>4, <1>6

\* Lists of transactions of any length have different Merkle roots, although odd
\* rows are filled up with their last hash, because a row that looks as if it had
\* been is refused (CVE-2012-2459).
THEOREM MerkleRootCommits ==
  ASSUME NEW T, NEW list \in Seq({Txid(t) : t \in T}), NEW other \in Seq({Txid(t) : t \in T}),
         list # << >>, other # << >>,
         compute_merkle_root(list) # Failed,
         compute_merkle_root(other) = compute_merkle_root(list)
  PROVE  other = list
<1> DEFINE S == {Txid(t) : t \in T}
<1>1. ASSUME NEW s \in Seq(S), s # << >>
      PROVE  IsRow(s) /\ Len(s) # 0 /\ \A k \in 1 .. Len(s) : \E t : s[k] = Txid(t)
  <2>1. Len(s) \in Nat /\ s = [k \in 1 .. Len(s) |-> s[k]] /\ Len(s) # 0
    <3> HIDE DEF S
    <3> QED
      BY <1>1
  <2>2. \A k \in 1 .. Len(s) : s[k] \in S
    <3> HIDE DEF S
    <3> QED
      BY <1>1
  <2> QED
    BY <2>1, <2>2 DEF IsRow
<1>2. IsRow(list) /\ Len(list) # 0 /\ \A k \in 1 .. Len(list) : \E t : list[k] = Txid(t)
  BY <1>1
<1>3. IsRow(other) /\ Len(other) # 0 /\ \A k \in 1 .. Len(other) : \E t : other[k] = Txid(t)
  BY <1>1
<1>4. PICK d \in Nat \ {0} : Climbs(list, Rows(list), d)
  BY <1>2, RootClimbs
<1>5. PICK e \in Nat \ {0} : Climbs(other, Rows(other), e)
  BY <1>3, RootClimbs
<1>6. d <= e \/ e <= d
  OBVIOUS
<1> QED
  BY <1>2, <1>3, <1>4, <1>5, <1>6, SameRows

\* The root is that of the block, or there is none.
MerkleInv ==
  merkle_root # Failed => block_txids \in Lists /\ merkle_root = compute_merkle_root(block_txids)

\* So of all lists that a block may hold, one at most has the root in its header.
THEOREM RootDeterminesList == MerkleSpec => []RootCommitsToList
<1>1. MerkleInit => MerkleInv
  BY DEF MerkleInit, MerkleInv
<1>2. MerkleInv /\ [ReadBlock]_merkleVars => MerkleInv'
  BY DEF MerkleInv, ReadBlock, merkleVars
<1>3. MerkleInv => RootCommitsToList
  <2> SUFFICES ASSUME MerkleInv, merkle_root # Failed,
                      NEW list \in Lists, RootOf[list] = merkle_root
               PROVE  list = block_txids
    BY DEF RootCommitsToList
  <2>1. block_txids \in Lists /\ merkle_root = compute_merkle_root(block_txids)
    BY DEF MerkleInv
  <2>2. /\ list \in Seq({Txid(t) : t \in Transaction}) /\ list # << >>
        /\ block_txids \in Seq({Txid(t) : t \in Transaction}) /\ block_txids # << >>
    BY <2>1, MerkleAssumption
  <2>3. RootOf[list] = compute_merkle_root(list)
    BY DEF RootOf
  <2> QED
    BY <2>1, <2>2, <2>3, MerkleRootCommits
<1> QED
  BY <1>1, <1>2, <1>3, PTL DEF MerkleSpec

-----------------------------------------------------------------------------
(* The hash chain *)

\* The steps of the fold that is the chain of an array.
ChainStep(f, array, s) ==
  IF s = {} THEN Last(array) ELSE hash2(Front(array)[Min(s)], f[s \ {Min(s)}])
ChainUpto(f, array, k) ==
  \A s \in SUBSET DOMAIN Front(array) : Cardinality(s) <= k => f[s] = ChainStep(f, array, s)
ChainIter(array) ==
  CHOOSE f : f = [s \in SUBSET DOMAIN Front(array) |-> ChainStep(f, array, s)]

IsArray(array) == array \in Seq({Data(w) : w \in Word}) /\ Len(array) # 0

\* Arrays are sequences.
LEMMA ArraysAre ==
  ASSUME NEW array \in Arrays, array # << >>
  PROVE  IsArray(array) /\ Len(array) \in Nat
<1> DEFINE S == {Data(w) : w \in Word}
<1>1. PICK m \in 0 .. MaxLength : array \in [1 .. m -> S]
  BY DEF Arrays, SeqOf
<1>2. m \in Nat
  BY <1>1
<1> HIDE DEF S
<1>3. array \in Seq(S) /\ Len(array) \in Nat
  BY <1>1, <1>2
<1>4. Len(array) # 0
  BY <1>3
<1> QED
  BY <1>3, <1>4 DEF IsArray, S

\* All but the last element.
LEMMA FrontIs ==
  ASSUME NEW array, IsArray(array)
  PROVE  /\ Len(array) \in Nat \ {0}
         /\ DOMAIN Front(array) = 1 .. Len(array) - 1 /\ IsFiniteSet(DOMAIN Front(array))
         /\ \A k \in 1 .. Len(array) - 1 : Front(array)[k] = array[k]
<1> DEFINE S == {Data(w) : w \in Word}
           n == Len(array) - 1
<1>1. array \in Seq(S) /\ Len(array) \in Nat \ {0}
  BY DEF IsArray
<1> HIDE DEF S
<1>2. n \in Nat /\ n <= Len(array)
  BY <1>1
<1> HIDE DEF n
<1>3. /\ SubSeq(array, 1, n) \in Seq(S) /\ Len(SubSeq(array, 1, n)) = n
      /\ \A k \in 1 .. n : SubSeq(array, 1, n)[k] = array[k]
  BY <1>1, <1>2
<1>4. DOMAIN SubSeq(array, 1, n) = 1 .. n
  BY <1>3
<1>5. IsFiniteSet(1 .. n)
  BY <1>2, FS_Interval
<1> QED
  BY <1>1, <1>3, <1>4, <1>5 DEF Front, n

\* The least of a set of indices, and the set without it.
LEMMA WithoutMin ==
  ASSUME NEW S \in SUBSET Nat, IsFiniteSet(S), NEW s \in SUBSET S, s # {}
  PROVE  /\ Min(s) \in s /\ \A y \in s : Min(s) <= y
         /\ s \ {Min(s)} \in SUBSET S
         /\ Cardinality(s \ {Min(s)}) = Cardinality(s) - 1 /\ Cardinality(s) \in Nat
<1>1. s \in SUBSET Nat
  OBVIOUS
<1>2. \E x \in s : \A y \in s : x <= y
  BY <1>1, LeastNumber
<1>3. Min(s) \in s /\ \A y \in s : Min(s) <= y
  BY <1>2 DEF Min
<1>4. IsFiniteSet(s) /\ Cardinality(s) \in Nat
  BY FS_Subset, FS_CardinalityType
<1> DEFINE m == Min(s)
<1> HIDE DEF m
<1>5. m \in s
  BY <1>3 DEF m
<1>6. Cardinality(s \ {m}) = Cardinality(s) - 1
  BY <1>4, <1>5, FS_RemoveElement
<1> QED
  BY <1>3, <1>4, <1>6 DEF m

\* The fold of an array is a function on the sets of its positions.
LEMMA ChainExists ==
  ASSUME NEW array, IsArray(array)
  PROVE  ChainIter(array) =
           [s \in SUBSET DOMAIN Front(array) |-> ChainStep(ChainIter(array), array, s)]
<1> DEFINE D == DOMAIN Front(array)
           T == {k \in Nat : \E f : ChainUpto(f, array, k)}
<1>0. /\ D \in SUBSET Nat /\ IsFiniteSet(D) /\ Cardinality(D) \in Nat
      /\ \A s \in SUBSET D :
            IsFiniteSet(s) /\ Cardinality(s) \in Nat /\ Cardinality(s) <= Cardinality(D)
  <2>1. D = 1 .. Len(array) - 1 /\ IsFiniteSet(D)
    BY FrontIs
  <2> HIDE DEF D
  <2>2. D \in SUBSET Nat
    BY <2>1
  <2> QED
    BY <2>1, <2>2, FS_Subset, FS_CardinalityType
<1> HIDE DEF D
<1>1. 0 \in T
  <2> DEFINE f == [s \in SUBSET D |-> Last(array)]
  <2>1. ASSUME NEW s \in SUBSET D, Cardinality(s) <= 0 PROVE s = {}
    <3>1. Cardinality(s) = 0
      BY <1>0, <2>1
    <3> QED
      BY <1>0, <3>1, FS_EmptySet
  <2>2. ChainUpto(f, array, 0)
    BY <2>1 DEF ChainUpto, ChainStep, D
  <2> HIDE DEF f
  <2> QED
    BY <2>2
<1>2. ASSUME NEW k \in Nat, k \in T PROVE k + 1 \in T
  <2>1. PICK f : ChainUpto(f, array, k)
    BY <1>2
  <2> DEFINE h == [s \in SUBSET D |-> ChainStep(f, array, s)]
  <2>2. ASSUME NEW s \in SUBSET D, Cardinality(s) <= k + 1
        PROVE  h[s] = ChainStep(h, array, s)
    <3>1. CASE s = {}
      BY <3>1 DEF ChainStep
    <3>2. CASE s # {}
      <4> DEFINE t == s \ {Min(s)}
      <4>1. t \in SUBSET D /\ Cardinality(t) <= k
        BY <1>0, <2>2, <3>2, WithoutMin
      <4>2. f[t] = h[t]
        <5> HIDE DEF t
        <5> QED
          BY <2>1, <4>1 DEF ChainUpto, D
      <4>3. h[s] = hash2(Front(array)[Min(s)], f[t])
        BY <3>2 DEF ChainStep
      <4>4. ChainStep(h, array, s) = hash2(Front(array)[Min(s)], h[t])
        <5> HIDE DEF h
        <5> QED
          BY <3>2 DEF ChainStep
      <4> QED
        BY <4>2, <4>3, <4>4
    <3> QED
      BY <3>1, <3>2
  <2> HIDE DEF h
  <2>3. ChainUpto(h, array, k + 1)
    BY <2>2 DEF ChainUpto, D
  <2> QED
    BY <2>3
<1>3. Cardinality(D) \in T
  <2> HIDE DEF T
  <2>1. Nat \subseteq T
    BY <1>1, <1>2, SetInduction
  <2> QED
    BY <1>0, <2>1
<1>4. PICK f : ChainUpto(f, array, Cardinality(D))
  BY <1>3
<1> DEFINE h == [s \in SUBSET D |-> ChainStep(f, array, s)]
<1>5. ASSUME NEW s \in SUBSET D PROVE f[s] = ChainStep(f, array, s)
  BY <1>0, <1>4 DEF ChainUpto, D
<1>6. ASSUME NEW s \in SUBSET D PROVE h[s] = ChainStep(h, array, s)
  <2>1. CASE s = {}
    BY <2>1 DEF ChainStep
  <2>2. CASE s # {}
    <3> DEFINE t == s \ {Min(s)}
    <3>1. t \in SUBSET D
      OBVIOUS
    <3>2. f[t] = h[t]
      <4> HIDE DEF t
      <4> QED
        BY <1>5, <3>1
    <3>3. h[s] = hash2(Front(array)[Min(s)], f[t])
      BY <2>2 DEF ChainStep
    <3>4. ChainStep(h, array, s) = hash2(Front(array)[Min(s)], h[t])
      <4> HIDE DEF h
      <4> QED
        BY <2>2 DEF ChainStep
    <3> QED
      BY <3>2, <3>3, <3>4
  <2> QED
    BY <2>1, <2>2
<1>7. h = [s \in SUBSET D |-> h[s]]
  OBVIOUS
<1> HIDE DEF h
<1>8. h = [s \in SUBSET D |-> ChainStep(h, array, s)]
  BY <1>6, <1>7
<1> QED
  BY <1>8 DEF ChainIter, D

\* What the elements after the first k are hashed to.
Rest(array, k) == ChainIter(array)[k + 1 .. Len(array) - 1]

\* From the last element backwards each is hashed with what follows it, and in the end
\* that is the chain.
LEMMA RestIs ==
  ASSUME NEW array, IsArray(array)
  PROVE  /\ Rest(array, Len(array) - 1) = Last(array)
         /\ \A k \in 1 .. Len(array) - 1 : Rest(array, k - 1) = hash2(array[k], Rest(array, k))
         /\ Rest(array, 0) = Chained(array)
<1> DEFINE n == Len(array) - 1
           f == ChainIter(array)
           D == DOMAIN Front(array)
<1>1. n \in Nat /\ n + 1 = Len(array) /\ D = 1 .. n /\ \A k \in 1 .. n : Front(array)[k] = array[k]
  BY FrontIs
<1>2. IsFiniteSet(D) /\ D \in SUBSET Nat
  BY <1>1, FrontIs
<1>3. Chained(array) = f[D]
  BY DEF Chained, FoldRight, MapThenFoldSet, ChainIter, ChainStep
<1>4. \A s \in SUBSET D : f[s] = ChainStep(f, array, s)
  <2>1. f = [s \in SUBSET D |-> ChainStep(f, array, s)]
    BY ChainExists
  <2> HIDE DEF f, D
  <2> QED
    BY <2>1
<1>5. \A k \in 0 .. n : Rest(array, k) = f[k + 1 .. n]
  BY DEF Rest
<1> HIDE DEF f, n, D
<1>6. Rest(array, n) = Last(array)
  <2>1. n \in 0 .. n /\ n + 1 .. n = {} /\ {} \in SUBSET D
    BY <1>1
  <2>2. f[{}] = Last(array)
    BY <1>4, <2>1 DEF ChainStep
  <2>3. Rest(array, n) = f[n + 1 .. n]
    BY <1>5, <2>1
  <2> QED
    BY <2>1, <2>2, <2>3
<1>7. ASSUME NEW k \in 1 .. n PROVE Rest(array, k - 1) = hash2(array[k], Rest(array, k))
  <2> DEFINE s == k .. n
  <2>1. /\ s \in SUBSET D /\ k \in s /\ s # {} /\ s \ {k} = k + 1 .. n /\ (k - 1) + 1 = k
        /\ k - 1 \in 0 .. n /\ k \in 0 .. n /\ k \in Nat /\ \A y \in s : k <= y
    <3>1. k \in Nat /\ 1 <= k /\ k <= n /\ n \in Nat /\ D = 1 .. n
      BY <1>1
    <3>2. k \in s
      BY <3>1
    <3>3. s \in SUBSET D /\ s \ {k} = k + 1 .. n
      BY <3>1
    <3>4. (k - 1) + 1 = k /\ k - 1 \in 0 .. n /\ k \in 0 .. n /\ \A y \in s : k <= y
      BY <3>1
    <3>5. s # {}
      BY <3>2
    <3> QED
      BY <3>1, <3>2, <3>3, <3>4, <3>5
  <2> HIDE DEF s
  <2>2. Min(s) = k
    <3> DEFINE m == Min(s)
    <3>1. m \in s /\ m <= k
      BY <1>2, <2>1, WithoutMin
    <3> HIDE DEF m
    <3>2. m \in Nat /\ k <= m
      BY <1>2, <2>1, <3>1
    <3>3. m = k
      BY <3>1, <3>2
    <3> QED
      BY <3>3 DEF m
  <2>3. f[s] = hash2(Front(array)[k], f[s \ {k}])
    BY <1>4, <2>1, <2>2 DEF ChainStep
  <2>4. Rest(array, k - 1) = f[s]
    <3>1. Rest(array, k - 1) = f[(k - 1) + 1 .. n]
      BY <1>5, <2>1
    <3> QED
      BY <2>1, <3>1 DEF s
  <2>5. Rest(array, k) = f[s \ {k}]
    BY <1>5, <2>1
  <2> QED
    BY <1>1, <2>3, <2>4, <2>5
<1>8. Rest(array, 0) = f[D]
  <2>1. 0 \in 0 .. n /\ 0 + 1 .. n = D
    BY <1>1
  <2> QED
    BY <1>5, <2>1
<1> QED
  BY <1>3, <1>6, <1>7, <1>8 DEF n

\* Of two arrays with one chain the shorter goes as far as the longer, and every
\* element is the same.
LEMMA ChainsDiffer ==
  ASSUME NEW a, NEW b, IsArray(a), IsArray(b), Len(a) <= Len(b), Chained(a) = Chained(b)
  PROVE  a = b
<1> DEFINE n == Len(a) - 1
           p == Len(b) - 1
           S == {Data(w) : w \in Word}
           T == {k \in Nat : k <= n => Rest(a, k) = Rest(b, k) /\ \A j \in 1 .. k : a[j] = b[j]}
<1>1. a \in Seq(S) /\ b \in Seq(S) /\ Len(a) \in Nat \ {0} /\ Len(b) \in Nat \ {0}
  BY FrontIs DEF IsArray
<1>2. /\ Rest(a, n) = Last(a) /\ \A k \in 1 .. n : Rest(a, k - 1) = hash2(a[k], Rest(a, k))
      /\ Rest(b, p) = Last(b) /\ \A k \in 1 .. p : Rest(b, k - 1) = hash2(b[k], Rest(b, k))
      /\ Rest(a, 0) = Rest(b, 0)
  BY RestIs
<1>3. n \in Nat /\ p \in Nat /\ n <= p /\ n + 1 = Len(a) /\ p + 1 = Len(b)
  BY <1>1
<1> HIDE DEF n, p
<1>4. 0 \in T
  BY <1>2
<1>5. ASSUME NEW k \in Nat, k \in T PROVE k + 1 \in T
  <2> SUFFICES ASSUME k + 1 <= n
               PROVE  Rest(a, k + 1) = Rest(b, k + 1) /\ \A j \in 1 .. k + 1 : a[j] = b[j]
    OBVIOUS
  <2>1. Rest(a, k) = Rest(b, k) /\ \A j \in 1 .. k : a[j] = b[j]
    BY <1>3, <1>5
  <2>2. k + 1 \in 1 .. n /\ k + 1 \in 1 .. p /\ (k + 1) - 1 = k
    BY <1>3
  <2>3. Rest(a, k) = hash2(a[k + 1], Rest(a, k + 1)) /\ Rest(b, k) = hash2(b[k + 1], Rest(b, k + 1))
    BY <1>2, <2>2
  <2>4. Rest(a, k + 1) = Rest(b, k + 1) /\ a[k + 1] = b[k + 1]
    <3>1. hash2(a[k + 1], Rest(a, k + 1)) = hash2(b[k + 1], Rest(b, k + 1))
      BY <2>1, <2>3
    <3> QED
      BY <3>1 DEF hash2
  <2>5. \A j \in 1 .. k + 1 : j \in 1 .. k \/ j = k + 1
    OBVIOUS
  <2> QED
    BY <2>1, <2>4, <2>5
<1>6. Rest(a, n) = Rest(b, n) /\ \A j \in 1 .. n : a[j] = b[j]
  <2>1. Nat \subseteq T
    <3> HIDE DEF T
    <3> QED
      BY <1>4, <1>5, SetInduction
  <2> QED
    BY <1>3, <2>1
<1>7. n = p
  <2> SUFFICES ASSUME n < p PROVE FALSE
    BY <1>3
  <2>1. n + 1 \in 1 .. p /\ (n + 1) - 1 = n
    BY <1>3
  <2>2. Rest(b, n) = hash2(b[n + 1], Rest(b, n + 1))
    BY <1>2, <2>1
  <2>3. PICK w \in Word : Last(a) = Data(w)
    <3>1. Last(a) = a[n + 1] /\ n + 1 \in 1 .. Len(a)
      BY <1>3 DEF Last
    <3>2. a[n + 1] \in S
      <4> HIDE DEF S
      <4> QED
        BY <1>1, <3>1
    <3> QED
      BY <3>1, <3>2
  <2> QED
    <3>1. hash2(b[n + 1], Rest(b, n + 1)) = Data(w)
      BY <1>2, <1>6, <2>2, <2>3
    <3> QED
      BY <3>1 DEF hash2, Data
<1>8. a[n + 1] = b[n + 1]
  BY <1>2, <1>3, <1>6, <1>7 DEF Last
<1>9. Len(a) = Len(b) /\ \A j \in 1 .. Len(a) : a[j] = b[j]
  <2>1. \A j \in 1 .. n + 1 : j \in 1 .. n \/ j = n + 1
    BY <1>3
  <2> QED
    BY <1>3, <1>6, <1>7, <1>8, <2>1
<1> HIDE DEF S
<1> QED
  BY <1>1, <1>9

\* What the frame of the loop holds.
HashInv ==
  /\ hash_step \in {"idle", "hash_loop", "returned", "aborted"}
  /\ hash_step = "hash_loop" =>
       /\ data \in Arrays /\ data # << >>
       /\ offset \in 0 .. Len(data) - 1 /\ cur_hash = Rest(data, offset)
       /\ offset = 0 => Len(data) = 1
  /\ hash_step = "returned" =>
       /\ data \in Arrays /\ data # << >> /\ Len(data) > 1
       /\ cur_hash = Chained(data)
  /\ hash_step = "aborted" => Len(data) <= 1

\* Each round of the loop hashes the element before those that have been hashed.
LEMMA HashLoopInv ==
  ASSUME HashInv, HashLoop
  PROVE  HashInv'
<1> DEFINE n == Len(data) - 1
           k == offset
<1>1. /\ data \in Arrays /\ data # << >> /\ data' = data
      /\ k \in 0 .. n /\ k > 0 /\ cur_hash = Rest(data, k)
      /\ cur_hash' = hash2(data[k], cur_hash) /\ offset' = k - 1
      /\ hash_step' = IF k - 1 # 0 THEN "hash_loop" ELSE "returned"
  BY DEF HashInv, HashLoop
<1>2. n \in Nat /\ IsArray(data)
  BY <1>1, ArraysAre DEF IsArray
<1>3. Rest(data, k - 1) = hash2(data[k], Rest(data, k)) /\ Rest(data, 0) = Chained(data)
  <2>1. k \in 1 .. n
    BY <1>1, <1>2
  <2> QED
    BY <1>2, <2>1, RestIs
<1>4. cur_hash' = Rest(data, k - 1) /\ k - 1 \in 0 .. n
  BY <1>1, <1>2, <1>3
<1> HIDE DEF n
<1>5. CASE k - 1 # 0
  <2>1. hash_step' = "hash_loop" /\ offset' # 0
    BY <1>1, <1>5
  <2> QED
    BY <1>1, <1>4, <2>1 DEF HashInv, n
<1>6. CASE k - 1 = 0
  <2>1. hash_step' = "returned" /\ cur_hash' = Chained(data) /\ Len(data) > 1
    <3>1. Len(data) \in Nat /\ k \in 1 .. Len(data) - 1
      BY <1>1, <1>2, ArraysAre DEF n, IsArray
    <3> QED
      BY <1>1, <1>3, <1>4, <1>6, <3>1
  <2> QED
    BY <1>1, <2>1 DEF HashInv
<1> QED
  BY <1>5, <1>6

\* The loop keeps the invariant.
LEMMA HashNextInv == HashInv /\ [HashNext]_hashVars => HashInv'
<1> SUFFICES ASSUME HashInv, [HashNext]_hashVars PROVE HashInv'
  OBVIOUS
<1>1. ASSUME NEW array \in Arrays, Call(array) PROVE HashInv'
  <2>1. /\ hash_step' = "hash_loop" /\ data' = array /\ array # << >>
        /\ offset' = Len(array) - 1 /\ cur_hash' = Last(array)
    BY <1>1 DEF Call
  <2>2. IsArray(array) /\ Len(array) \in Nat \ {0}
    BY <2>1, ArraysAre DEF IsArray
  <2>3. Rest(array, Len(array) - 1) = Last(array)
    BY <2>2, RestIs
  <2> QED
    BY <2>1, <2>2, <2>3 DEF HashInv
<1>2. CASE CallEmpty \/ ReadBeforeArray \/ Proceed
  <2>1. CASE CallEmpty
    <3>1. hash_step' = "aborted" /\ data' = << >> /\ Len(<< >>) = 0
      BY <2>1 DEF CallEmpty
    <3>2. Len(data') <= 1
      BY <3>1
    <3> QED
      BY <3>1, <3>2 DEF HashInv
  <2>2. CASE ReadBeforeArray
    <3>1. hash_step' = "aborted" /\ data' = data /\ Len(data) = 1
      BY <2>2 DEF ReadBeforeArray, HashInv
    <3>2. Len(data') <= 1
      BY <3>1
    <3> QED
      BY <3>1, <3>2 DEF HashInv
  <2>3. CASE Proceed
    <3>1. hash_step' = "idle"
      BY <2>3 DEF Proceed
    <3> QED
      BY <3>1 DEF HashInv
  <2> QED
    BY <1>2, <2>1, <2>2, <2>3
<1>3. CASE HashLoop
  BY <1>3, HashLoopInv
<1>4. CASE UNCHANGED hashVars
  BY <1>4 DEF hashVars, HashInv
<1> QED
  BY <1>1, <1>2, <1>3, <1>4 DEF HashNext

\* The loop over raw pointers, whose frame has the value of the last element or of the
\* hash so far, returns h(x, h(y, ...)) for every array of two elements or more, and
\* nothing for the shorter ones.
THEOREM HashChainIsReturned == HashSpec => []ReturnsTheChain
<1>1. HashInit => HashInv
  BY DEF HashInit, HashInv
<1>2. HashInv => ReturnsTheChain
  BY DEF HashInv, ReturnsTheChain
<1> QED
  BY <1>1, <1>2, HashNextInv, PTL DEF HashSpec

\* Arrays of any two lengths have different hashes.
THEOREM HashChainIsInjective == HashSpec => []NoTwoArraysCollide
<1>1. HashInit => HashInv
  BY DEF HashInit, HashInv
<1>2. HashInv => NoTwoArraysCollide
  <2> SUFFICES ASSUME HashInv, hash_step = "returned", NEW other \in Arrays,
                      Len(other) > 1, Chained(other) = cur_hash
               PROVE  other = data
    BY DEF NoTwoArraysCollide
  <2>1. data \in Arrays /\ data # << >> /\ cur_hash = Chained(data)
    BY DEF HashInv
  <2>2. other # << >>
    OBVIOUS
  <2>3. IsArray(data) /\ IsArray(other) /\ Len(data) \in Nat /\ Len(other) \in Nat
    BY <2>1, <2>2, ArraysAre
  <2>4. Len(data) <= Len(other) \/ Len(other) <= Len(data)
    BY <2>3
  <2> QED
    BY <2>1, <2>3, <2>4, ChainsDiffer
<1> QED
  BY <1>1, <1>2, HashNextInv, PTL DEF HashSpec

-----------------------------------------------------------------------------
(* Bytes and the numbers they make up *)

\* A byte has more than four values, and its powers are numbers that are not zero.
LEMMA ByteIs ==
  /\ BYTE \in Nat /\ BYTE >= 4 /\ BYTE^0 = 1 /\ BYTE^1 = BYTE
  /\ \A k \in 0 .. 8 : BYTE^k \in Nat \ {0}
<1>1. BYTE^(0 + 1) = BYTE * BYTE^0
  BY BytePowers
<1> QED
  BY <1>1, BytePowers, SerializeAssumption, SMTT(30)

\* The law of exponents.
LEMMA PowerOfSum ==
  ASSUME NEW m \in 0 .. 8, NEW n \in 0 .. 8, m + n <= 8
  PROVE  BYTE^(m + n) = BYTE^m * BYTE^n
<1> DEFINE T == {k \in 0 .. n : BYTE^(m + k) = BYTE^m * BYTE^k}
<1>1. 0 \in T
  <2>1. m + 0 = m /\ BYTE^m \in Nat
    BY ByteIs
  <2> QED
    BY <2>1, ByteIs
<1>2. ASSUME NEW k \in 0 .. n - 1, k \in T PROVE k + 1 \in T
  <2>1. k \in 0 .. 8 /\ m + k \in 0 .. 8 /\ (m + k) + 1 = m + (k + 1) /\ k + 1 \in 0 .. n
    OBVIOUS
  <2>2. BYTE^(k + 1) = BYTE * BYTE^k /\ BYTE^((m + k) + 1) = BYTE * BYTE^(m + k)
    BY <2>1, BytePowers
  <2>3. BYTE^(m + k) = BYTE^m * BYTE^k
    BY <1>2
  <2>4. \A a, b, c \in Nat : a * (b * c) = b * (a * c)
    OBVIOUS
  <2>5. BYTE \in Nat /\ BYTE^m \in Nat /\ BYTE^k \in Nat
    BY <2>1, ByteIs
  <2>6. BYTE * (BYTE^m * BYTE^k) = BYTE^m * (BYTE * BYTE^k)
    BY <2>4, <2>5
  <2> QED
    BY <2>1, <2>2, <2>3, <2>6
<1>3. 0 .. n \subseteq T
  <2> HIDE DEF T
  <2> QED
    BY <1>1, <1>2, IntervalInduction
<1> QED
  BY <1>3

\* One power divided by another.
LEMMA PowerQuotient ==
  ASSUME NEW m \in 0 .. 8, NEW n \in 0 .. 8, m + n <= 8
  PROVE  BYTE^(m + n) \div BYTE^n = BYTE^m
<1>1. BYTE^m \in Nat /\ BYTE^n \in Nat \ {0}
  BY ByteIs
<1> QED
  BY <1>1, PowerOfSum, Cancelled

\* The first n elements of s are bytes.
IsBytes(s, n) == \A k \in 1 .. n : s[k] \in 0 .. BYTE - 1

Values(s, p, n) ==
  CHOOSE f : f = [k \in 0 .. n |-> IF k = 0 THEN 0 ELSE f[k - 1] * BYTE + s[p + k]]

AreValues(f, s, p, n) ==
  /\ f \in [0 .. n -> Nat] /\ f[0] = 0
  /\ \A k \in 1 .. n : f[k] = f[k - 1] * BYTE + s[p + k]

\* The recursion that ValueOf stands for.
LEMMA ValuesAre ==
  ASSUME NEW s, NEW p \in Nat, NEW n \in Nat, IsBytes(s, p + n)
  PROVE  AreValues(Values(s, p, n), s, p, n) /\ ValueOf(s, p, n) = Values(s, p, n)[n]
<1> DEFINE step == [k \in 1 .. n |-> [x \in Nat |-> x * BYTE + s[p + k]]]
           f == Values(s, p, n)
<1>1. \A k \in 1 .. n : p + k \in 1 .. p + n
  OBVIOUS
<1>2. BYTE \in Nat /\ \A k \in 1 .. n : s[p + k] \in Nat
  BY <1>1, ByteIs DEF IsBytes
<1>3. step \in [1 .. n -> [Nat -> Nat]]
  <2>1. \A a, b, c \in Nat : a * b + c \in Nat
    OBVIOUS
  <2>2. \A k \in 1 .. n, x \in Nat : x * BYTE + s[p + k] \in Nat
    BY <1>2, <2>1
  <2> QED
    BY <2>2
<1>4. PICK h \in [0 .. n -> Nat] : Iterates(h, n, 0, step)
  <2> HIDE DEF step
  <2> QED
    BY <1>3, Iteration
<1>5. h[0] = 0 /\ \A k \in 1 .. n : h[k] = h[k - 1] * BYTE + s[p + k]
  <2>1. h[0] = 0 /\ \A k \in 1 .. n : h[k] = step[k][h[k - 1]]
    BY <1>4 DEF Iterates
  <2>2. \A k \in 1 .. n : k - 1 \in 0 .. n
    OBVIOUS
  <2>3. \A k \in 1 .. n : h[k - 1] \in Nat
    BY <1>4, <2>2
  <2> QED
    BY <2>1, <2>3
<1>6. h = [k \in 0 .. n |-> IF k = 0 THEN 0 ELSE h[k - 1] * BYTE + s[p + k]]
  <2>1. \A k \in 0 .. n : k # 0 => k \in 1 .. n
    OBVIOUS
  <2>2. h = [k \in 0 .. n |-> h[k]]
    BY <1>4
  <2> QED
    BY <1>5, <2>1, <2>2
<1>7. f = [k \in 0 .. n |-> IF k = 0 THEN 0 ELSE f[k - 1] * BYTE + s[p + k]]
  BY <1>6 DEF Values
<1>8. ValueOf(s, p, n) = f[n]
  BY DEF ValueOf, Values
<1> HIDE DEF f
<1>9. f[0] = 0 /\ \A k \in 1 .. n : f[k] = f[k - 1] * BYTE + s[p + k]
  <2>1. 0 \in 0 .. n /\ \A k \in 1 .. n : k \in 0 .. n /\ k # 0
    OBVIOUS
  <2> QED
    BY <1>7, <2>1
<1>10. \A k \in 0 .. n : f[k] \in Nat
  <2>1. ASSUME NEW k \in 0 .. n - 1, f[k] \in Nat PROVE f[k + 1] \in Nat
    <3>1. k + 1 \in 1 .. n /\ (k + 1) - 1 = k
      OBVIOUS
    <3>2. f[k + 1] = f[k] * BYTE + s[p + (k + 1)]
      BY <1>9, <3>1
    <3>3. \A a, b, c \in Nat : a * b + c \in Nat
      OBVIOUS
    <3>4. s[p + (k + 1)] \in Nat
      BY <1>2, <3>1
    <3>5. f[k] * BYTE + s[p + (k + 1)] \in Nat
      BY <1>2, <2>1, <3>3, <3>4
    <3> QED
      BY <3>2, <3>5
  <2>2. f[0] \in Nat
    BY <1>9
  <2> QED
    BY <2>1, <2>2, Stays
<1>11. f = [k \in 0 .. n |-> f[k]]
  BY <1>7
<1>12. AreValues(f, s, p, n)
  BY <1>9, <1>10, <1>11 DEF AreValues
<1> QED
  BY <1>8, <1>12 DEF f

\* One byte more.
LEMMA ValueStep ==
  ASSUME NEW s, NEW p \in Nat, NEW n \in Nat, IsBytes(s, p + n)
  PROVE  /\ ValueOf(s, p, 0) = 0 /\ ValueOf(s, p, n) \in Nat
         /\ n # 0 => ValueOf(s, p, n) = ValueOf(s, p, n - 1) * BYTE + s[p + n]
<1>1. IsBytes(s, p + 0) /\ 0 \in Nat
  BY DEF IsBytes
<1>2. ValueOf(s, p, 0) = 0
  <2>1. AreValues(Values(s, p, 0), s, p, 0) /\ ValueOf(s, p, 0) = Values(s, p, 0)[0]
    BY <1>1, ValuesAre
  <2> QED
    BY <2>1 DEF AreValues
<1>3. ValueOf(s, p, n) \in Nat
  <2>1. AreValues(Values(s, p, n), s, p, n) /\ ValueOf(s, p, n) = Values(s, p, n)[n]
    BY ValuesAre
  <2>2. n \in 0 .. n
    OBVIOUS
  <2> QED
    BY <2>1, <2>2 DEF AreValues
<1>4. ASSUME n # 0 PROVE ValueOf(s, p, n) = ValueOf(s, p, n - 1) * BYTE + s[p + n]
  <2> DEFINE f == Values(s, p, n)
             g == Values(s, p, n - 1)
             T == {k \in 0 .. n - 1 : f[k] = g[k]}
  <2>0. n - 1 \in Nat /\ IsBytes(s, p + (n - 1))
    BY <1>4 DEF IsBytes
  <2>1. /\ ValueOf(s, p, n) = f[n] /\ f[0] = 0
        /\ \A k \in 1 .. n : f[k] = f[k - 1] * BYTE + s[p + k]
    <3>1. AreValues(f, s, p, n) /\ ValueOf(s, p, n) = f[n]
      BY ValuesAre
    <3> HIDE DEF f
    <3> QED
      BY <3>1 DEF AreValues
  <2>2. /\ ValueOf(s, p, n - 1) = g[n - 1] /\ g[0] = 0 /\ n - 1 \in Nat
        /\ \A k \in 1 .. n - 1 : g[k] = g[k - 1] * BYTE + s[p + k]
    <3>1. AreValues(g, s, p, n - 1) /\ ValueOf(s, p, n - 1) = g[n - 1]
      BY <2>0, ValuesAre
    <3> HIDE DEF g
    <3> QED
      BY <2>0, <3>1 DEF AreValues
  <2> HIDE DEF f, g
  <2>3. 0 \in T
    BY <2>1, <2>2
  <2>4. ASSUME NEW k \in 0 .. (n - 1) - 1, k \in T PROVE k + 1 \in T
    <3>1. k + 1 \in 1 .. n - 1 /\ k + 1 \in 1 .. n /\ (k + 1) - 1 = k /\ k + 1 \in 0 .. n - 1
      BY <2>2
    <3> QED
      BY <2>1, <2>2, <2>4, <3>1
  <2>5. 0 .. n - 1 \subseteq T
    <3> HIDE DEF T
    <3> QED
      BY <2>2, <2>3, <2>4, IntervalInduction
  <2>6. f[n - 1] = g[n - 1]
    BY <2>2, <2>5
  <2>7. n \in 1 .. n
    BY <1>4
  <2> QED
    BY <2>1, <2>2, <2>6, <2>7
<1> QED
  BY <1>2, <1>3, <1>4

\* Fewer of them are bytes as well.
LEMMA FewerBytes ==
  ASSUME NEW s, NEW n \in Nat, NEW m \in Nat, m <= n, IsBytes(s, n)
  PROVE  IsBytes(s, m)
BY DEF IsBytes

\* Equal bytes make up equal numbers.
LEMMA ValueAgrees ==
  ASSUME NEW s, NEW t, NEW p \in Nat, NEW n \in Nat, IsBytes(s, p + n), IsBytes(t, p + n),
         \A k \in 1 .. n : s[p + k] = t[p + k]
  PROVE  ValueOf(s, p, n) = ValueOf(t, p, n)
<1> DEFINE T == {k \in 0 .. n : ValueOf(s, p, k) = ValueOf(t, p, k)}
<1>1. 0 \in T
  <2>1. ValueOf(s, p, 0) = 0 /\ ValueOf(t, p, 0) = 0
    BY ValueStep
  <2> QED
    BY <2>1
<1>2. ASSUME NEW k \in 0 .. n - 1, k \in T PROVE k + 1 \in T
  <2>1. /\ k + 1 \in Nat /\ k + 1 # 0 /\ (k + 1) - 1 = k /\ k + 1 \in 1 .. n /\ k + 1 \in 0 .. n
        /\ p + (k + 1) \in Nat /\ p + (k + 1) <= p + n /\ p + n \in Nat
    OBVIOUS
  <2>2. IsBytes(s, p + (k + 1)) /\ IsBytes(t, p + (k + 1))
    BY <2>1, FewerBytes
  <2>3. ValueOf(s, p, k + 1) = ValueOf(s, p, (k + 1) - 1) * BYTE + s[p + (k + 1)]
    BY <2>1, <2>2, ValueStep, ZenonT(30)
  <2>4. ValueOf(t, p, k + 1) = ValueOf(t, p, (k + 1) - 1) * BYTE + t[p + (k + 1)]
    BY <2>1, <2>2, ValueStep, ZenonT(30)
  <2>5. s[p + (k + 1)] = t[p + (k + 1)] /\ ValueOf(s, p, k) = ValueOf(t, p, k)
    BY <1>2, <2>1
  <2> QED
    BY <2>1, <2>3, <2>4, <2>5
<1>3. 0 .. n \subseteq T
  <2> HIDE DEF T
  <2> QED
    BY <1>1, <1>2, IntervalInduction
<1> QED
  BY <1>3

\* The number of a and b bytes in a row, from the numbers of both.
LEMMA ValueSplit ==
  ASSUME NEW s, NEW p \in Nat, NEW a \in 0 .. 8, NEW b \in 0 .. 8, a + b <= 8,
         IsBytes(s, p + (a + b))
  PROVE  ValueOf(s, p, a + b) = ValueOf(s, p, a) * BYTE^b + ValueOf(s, p + a, b)
<1> DEFINE T == {k \in 0 .. b :
                   ValueOf(s, p, a + k) = ValueOf(s, p, a) * BYTE^k + ValueOf(s, p + a, k)}
<1>1. a \in Nat /\ b \in Nat /\ p + a \in Nat /\ p + (a + b) \in Nat /\ (p + a) + b = p + (a + b)
  OBVIOUS
<1>2. IsBytes(s, p + a)
  BY <1>1, FewerBytes
<1>3. ValueOf(s, p, a) \in Nat
  BY <1>1, <1>2, ValueStep
<1>4. 0 \in T
  <2>1. ValueOf(s, p + a, 0) = 0
    <3>1. IsBytes(s, (p + a) + 0)
      BY <1>1, <1>2
    <3> QED
      BY <1>1, <3>1, ValueStep
  <2>2. ValueOf(s, p, a) * 1 + 0 = ValueOf(s, p, a) /\ a + 0 = a
    BY <1>3
  <2> QED
    BY <2>1, <2>2, ByteIs
<1>5. ASSUME NEW k \in 0 .. b - 1, k \in T PROVE k + 1 \in T
  <2>1. /\ a + (k + 1) \in Nat /\ a + (k + 1) # 0 /\ (a + (k + 1)) - 1 = a + k
        /\ k + 1 \in Nat /\ k + 1 # 0 /\ (k + 1) - 1 = k /\ k \in 0 .. 8 /\ k + 1 \in 0 .. b
        /\ p + (a + (k + 1)) = (p + a) + (k + 1) /\ (p + a) + (k + 1) <= p + (a + b)
        /\ (p + a) + (k + 1) \in Nat /\ a + k \in Nat /\ p + (a + k) \in Nat
        /\ p + (a + k) <= p + (a + b) /\ (p + a) + k = p + (a + k) /\ k \in Nat
    OBVIOUS
  <2>2. IsBytes(s, p + (a + (k + 1))) /\ IsBytes(s, (p + a) + (k + 1)) /\ IsBytes(s, (p + a) + k)
    BY <1>1, <2>1, FewerBytes
  <2> DEFINE v == ValueOf(s, p, a)
             w == ValueOf(s, p + a, k)
             c == s[(p + a) + (k + 1)]
             y == BYTE^k
  <2>3. ValueOf(s, p, a + (k + 1)) = ValueOf(s, p, a + k) * BYTE + c
    <3> DEFINE m == a + (k + 1)
    <3>1. m \in Nat /\ m # 0 /\ IsBytes(s, p + m) /\ m - 1 = a + k /\ s[p + m] = c
      BY <2>1, <2>2
    <3>2. ValueOf(s, p, m) = ValueOf(s, p, m - 1) * BYTE + s[p + m]
      <4> HIDE DEF m
      <4> QED
        BY <3>1, ValueStep
    <3> QED
      BY <3>1, <3>2
  <2>4. ValueOf(s, p + a, k + 1) = w * BYTE + c
    <3>1. ASSUME NEW q \in Nat, NEW m \in Nat, m # 0, IsBytes(s, q + m)
          PROVE  ValueOf(s, q, m) = ValueOf(s, q, m - 1) * BYTE + s[q + m]
      BY <3>1, ValueStep
    <3>2. ValueOf(s, p + a, k + 1) = ValueOf(s, p + a, (k + 1) - 1) * BYTE + s[(p + a) + (k + 1)]
      BY <1>1, <2>1, <2>2, <3>1
    <3> QED
      BY <2>1, <3>2
  <2>5. w \in Nat
    BY <1>1, <2>1, <2>2, ValueStep
  <2>6. c \in Nat
    <3>1. (p + a) + (k + 1) \in 1 .. (p + a) + (k + 1)
      BY <2>1
    <3>2. c \in 0 .. BYTE - 1
      BY <2>2, <3>1 DEF IsBytes
    <3> HIDE DEF c
    <3> QED
      BY <3>2, ByteIs
  <2>7. ValueOf(s, p, a + k) = v * y + w
    BY <1>5
  <2>8. BYTE^(k + 1) = BYTE * y /\ y \in Nat /\ BYTE \in Nat
    BY <2>1, BytePowers, ByteIs
  <2>9. v \in Nat
    BY <1>3
  <2> HIDE DEF v, w, c, y
  <2>10. \A d, e, f, g, h \in Nat : (d * e + f) * g + h = d * (g * e) + (f * g + h)
    OBVIOUS
  <2>11. (v * y + w) * BYTE + c = v * (BYTE * y) + (w * BYTE + c)
    BY <2>5, <2>6, <2>8, <2>9, <2>10
  <2>12. ValueOf(s, p, a + (k + 1)) = v * BYTE^(k + 1) + ValueOf(s, p + a, k + 1)
    BY <2>3, <2>4, <2>7, <2>8, <2>11
  <2> QED
    BY <2>1, <2>12 DEF v
<1>6. 0 .. b \subseteq T
  <2> HIDE DEF T
  <2> QED
    BY <1>1, <1>4, <1>5, IntervalInduction
<1> QED
  BY <1>1, <1>6

\* A number of n bytes is less than BYTE^n.
LEMMA ValueBound ==
  ASSUME NEW s, NEW p \in Nat, NEW n \in 0 .. 8, IsBytes(s, p + n)
  PROVE  ValueOf(s, p, n) \in 0 .. BYTE^n - 1
<1> DEFINE T == {k \in 0 .. n : ValueOf(s, p, k) \in 0 .. BYTE^k - 1}
<1>1. n \in Nat /\ p + n \in Nat
  OBVIOUS
<1>2. 0 \in T
  <2>1. ValueOf(s, p, 0) = 0
    BY <1>1, ValueStep
  <2> QED
    BY <2>1, ByteIs
<1>3. ASSUME NEW k \in 0 .. n - 1, k \in T PROVE k + 1 \in T
  <2>1. /\ k + 1 \in Nat /\ k + 1 # 0 /\ (k + 1) - 1 = k /\ k + 1 \in 0 .. n /\ k \in 0 .. 8
        /\ p + (k + 1) \in Nat /\ p + (k + 1) <= p + n /\ p + (k + 1) \in 1 .. p + (k + 1)
    OBVIOUS
  <2>2. IsBytes(s, p + (k + 1))
    BY <1>1, <2>1, FewerBytes
  <2> DEFINE v == ValueOf(s, p, k)
             c == s[p + (k + 1)]
             y == BYTE^k
  <2>3. ValueOf(s, p, k + 1) = v * BYTE + c
    <3>1. ValueOf(s, p, k + 1) = ValueOf(s, p, (k + 1) - 1) * BYTE + s[p + (k + 1)]
      BY <2>1, <2>2, ValueStep
    <3> QED
      BY <2>1, <3>1
  <2>4. c \in 0 .. BYTE - 1 /\ v \in 0 .. y - 1 /\ BYTE^(k + 1) = BYTE * y
    BY <1>3, <2>1, <2>2, BytePowers DEF IsBytes
  <2>5. BYTE \in Nat /\ y \in Nat
    BY <2>1, ByteIs
  <2> HIDE DEF v, c, y
  <2>6. v * BYTE <= (y - 1) * BYTE
    <3>1. \A d, e, f \in Nat : d <= e => d * f <= e * f
      OBVIOUS
    <3>2. v \in Nat /\ y - 1 \in Nat /\ v <= y - 1
      BY <2>4, <2>5
    <3> QED
      BY <2>5, <3>1, <3>2
  <2>7. (y - 1) * BYTE = BYTE * y - BYTE /\ v * BYTE \in Nat /\ BYTE * y \in Nat
    BY <2>4, <2>5
  <2>8. v * BYTE + c \in 0 .. BYTE * y - 1
    BY <2>4, <2>5, <2>6, <2>7
  <2> QED
    BY <2>1, <2>3, <2>4, <2>8
<1>4. 0 .. n \subseteq T
  <2> HIDE DEF T
  <2> QED
    BY <1>1, <1>2, <1>3, IntervalInduction
<1> QED
  BY <1>1, <1>4

\* Bytes that are zero make up zero.
LEMMA ValueOfZeros ==
  ASSUME NEW s, NEW p \in Nat, NEW n \in Nat, IsBytes(s, p + n), \A k \in 1 .. n : s[p + k] = 0
  PROVE  ValueOf(s, p, n) = 0
<1> DEFINE T == {k \in 0 .. n : ValueOf(s, p, k) = 0}
<1>1. 0 \in T
  <2>1. ValueOf(s, p, 0) = 0
    BY ValueStep
  <2> QED
    BY <2>1
<1>2. ASSUME NEW k \in 0 .. n - 1, k \in T PROVE k + 1 \in T
  <2>1. /\ k + 1 \in Nat /\ k + 1 # 0 /\ (k + 1) - 1 = k /\ k + 1 \in 1 .. n /\ k + 1 \in 0 .. n
        /\ p + (k + 1) \in Nat /\ p + (k + 1) <= p + n /\ p + n \in Nat
    OBVIOUS
  <2>2. IsBytes(s, p + (k + 1))
    BY <2>1, FewerBytes
  <2>3. ValueOf(s, p, k + 1) = ValueOf(s, p, (k + 1) - 1) * BYTE + s[p + (k + 1)]
    BY <2>1, <2>2, ValueStep, ZenonT(30)
  <2>4. s[p + (k + 1)] = 0 /\ ValueOf(s, p, k) = 0 /\ 0 * BYTE + 0 = 0
    BY <1>2, <2>1, ByteIs
  <2> QED
    BY <2>1, <2>3, <2>4
<1>3. 0 .. n \subseteq T
  <2> HIDE DEF T
  <2> QED
    BY <1>1, <1>2, IntervalInduction
<1> QED
  BY <1>3

\* Powers of a byte grow.
LEMMA BytePowersGrow ==
  ASSUME NEW j \in 0 .. 8, NEW k \in 0 .. 8, j < k
  PROVE  BYTE^j < BYTE^k
<1> DEFINE d == k - j
           x == BYTE^(d - 1)
           y == BYTE^j
<1>1. d \in 1 .. 8 /\ d - 1 \in 0 .. 8 /\ (d - 1) + 1 = d /\ d + j = k /\ d + j <= 8 /\ d \in 0 .. 8
  OBVIOUS
<1> HIDE DEF d
<1>2. BYTE^k = BYTE^d * y /\ BYTE^d = BYTE * x
  BY <1>1, PowerOfSum, BytePowers
<1>3. x \in Nat \ {0} /\ y \in Nat \ {0} /\ BYTE \in Nat /\ BYTE >= 4
  BY <1>1, ByteIs
<1> HIDE DEF x, y
<1>4. \A a \in Nat, b, c \in Nat \ {0} : a >= 4 => c < (a * b) * c
  <2> TAKE a \in Nat, b \in Nat \ {0}, c \in Nat \ {0}
  <2> HAVE a >= 4
  <2>1. \A e, f, g \in Nat : e <= f => e * g <= f * g
    OBVIOUS
  <2>2. a * b >= 4 * b /\ a * b \in Nat
    BY <2>1
  <2>3. (a * b) * c >= 4 * c
    BY <2>1, <2>2
  <2> QED
    BY <2>3
<1>5. y < (BYTE * x) * y
  BY <1>3, <1>4
<1> QED
  BY <1>2, <1>5 DEF y

\* The digits above lo of a number, as many as are below hi.
HasDigits(x, lo, hi, h, l) ==
  /\ x \in Nat /\ lo \in Nat \ {0} /\ hi \in Nat \ {0} /\ h \in Nat /\ l \in 0 .. lo - 1
  /\ x % hi = h * lo + l

\* They are taken off by the mask and moved down by the division.
LEMMA TopDigits ==
  ASSUME NEW x, NEW lo, NEW hi, NEW h, NEW l, HasDigits(x, lo, hi, h, l)
  PROVE  Digits(x, lo, hi) = h * lo /\ (h * lo) \div lo = h
<1> USE DEF HasDigits
<1>1. h * lo + l = (lo * h) + l
  OBVIOUS
<1>2. (x % hi) \div lo = h
  BY <1>1, QuotientIs
<1>3. (h * lo) \div lo = h
  BY Cancelled
<1> QED
  BY <1>2, <1>3 DEF Digits

\* The first a of a + b bytes can be taken off, and the last b remain.
Splits(s, p, a, b) ==
  /\ Digits(ValueOf(s, p, a + b), BYTE^b, BYTE^(a + b)) = ValueOf(s, p, a) * BYTE^b
  /\ (ValueOf(s, p, a) * BYTE^b) \div BYTE^b = ValueOf(s, p, a)
  /\ ValueOf(s, p, a + b) - ValueOf(s, p, a) * BYTE^b = ValueOf(s, p + a, b)
  /\ ValueOf(s, p, a + b) = ValueOf(s, p, a) * BYTE^b + ValueOf(s, p + a, b)
  /\ ValueOf(s, p, a) \in Nat /\ ValueOf(s, p + a, b) \in Nat /\ ValueOf(s, p, a + b) \in Nat

\* It holds of any bytes.
LEMMA TopBytes ==
  ASSUME NEW s, NEW p \in Nat, NEW a \in 0 .. 8, NEW b \in 0 .. 8, a + b <= 8,
         IsBytes(s, p + (a + b))
  PROVE  Splits(s, p, a, b)
<1> DEFINE x == ValueOf(s, p, a + b)
           h == ValueOf(s, p, a)
           l == ValueOf(s, p + a, b)
           lo == BYTE^b
           hi == BYTE^(a + b)
<1>1. /\ p + a \in Nat /\ p + (a + b) \in Nat /\ p + a <= p + (a + b) /\ (p + a) + b = p + (a + b)
      /\ a + b \in 0 .. 8
  OBVIOUS
<1>2. IsBytes(s, p + a) /\ IsBytes(s, (p + a) + b)
  BY <1>1, FewerBytes
<1>3. x = h * lo + l
  BY ValueSplit
<1>4. x \in 0 .. hi - 1
  <2> DEFINE n == a + b
  <2>1. n \in 0 .. 8 /\ IsBytes(s, p + n)
    BY <1>1
  <2> HIDE DEF n
  <2>2. ValueOf(s, p, n) \in 0 .. BYTE^n - 1
    BY <2>1, ValueBound
  <2> QED
    BY <2>2 DEF n
<1>5. l \in 0 .. lo - 1
  BY <1>1, <1>2, ValueBound
<1>6. h \in Nat
  <2>1. a \in Nat
    OBVIOUS
  <2> QED
    BY <1>2, <2>1, ValueStep
<1>7. lo \in Nat \ {0} /\ hi \in Nat \ {0}
  BY <1>1, ByteIs
<1> HIDE DEF x, h, l, lo, hi
<1>8. x % hi = x /\ x \in Nat /\ l \in Nat /\ h * lo \in Nat
  BY <1>4, <1>5, <1>6, <1>7
<1>9. Digits(x, lo, hi) = h * lo /\ (h * lo) \div lo = h
  <2>1. x % hi = h * lo + l
    BY <1>3, <1>8
  <2>2. x \in Nat
    BY <1>8
  <2>3. HasDigits(x, lo, hi, h, l)
    BY <1>5, <1>6, <1>7, <2>1, <2>2 DEF HasDigits
  <2> QED
    BY <2>3, TopDigits
<1>10. x - h * lo = l
  BY <1>3, <1>8
<1> QED
  BY <1>3, <1>6, <1>8, <1>9, <1>10 DEF Splits, x, h, l, lo, hi

\* The bytes of a number made up of bytes are those.
LEMMA ByteOfValue ==
  ASSUME NEW s, NEW p \in Nat, NEW n \in 0 .. 8, IsBytes(s, p + n)
  PROVE  BytesOf(ValueOf(s, p, n), n) = [k \in 1 .. n |-> s[p + k]]
<1> SUFFICES ASSUME NEW k \in 1 .. n
             PROVE  (ValueOf(s, p, n) \div BYTE^(n - k)) % BYTE = s[p + k]
  BY DEF BytesOf
<1> DEFINE b == n - k
<1>1. /\ b \in 0 .. 8 /\ k \in 0 .. 8 /\ k + b = n /\ k # 0 /\ k \in Nat /\ k - 1 \in Nat
      /\ p + n \in Nat /\ p + k \in Nat /\ p + k <= p + n /\ p + k \in 1 .. p + n
      /\ p + (k - 1) \in Nat /\ p + (k - 1) <= p + n
  OBVIOUS
<1>2. Splits(s, p, k, b)
  <2> HIDE DEF b
  <2> QED
    BY <1>1, TopBytes
<1>3. IsBytes(s, p + k) /\ IsBytes(s, p + (k - 1))
  BY <1>1, FewerBytes
<1> DEFINE h == ValueOf(s, p, k)
           l == ValueOf(s, p + k, b)
           u == ValueOf(s, p, k - 1)
           c == s[p + k]
<1>4. ValueOf(s, p, n) = h * BYTE^b + l
  BY <1>1, <1>2 DEF Splits
<1>5. l \in 0 .. BYTE^b - 1
  <2>1. p + k \in Nat /\ IsBytes(s, (p + k) + b)
    BY <1>1
  <2> HIDE DEF b
  <2> QED
    BY <1>1, <2>1, ValueBound
<1>6. h = u * BYTE + c
  BY <1>1, <1>3, ValueStep, ZenonT(30)
<1>7. u \in Nat /\ h \in Nat
  BY <1>1, <1>3, ValueStep
<1>8. c \in 0 .. BYTE - 1
  BY <1>1 DEF IsBytes
<1>9. BYTE^b \in Nat \ {0} /\ BYTE \in Nat \ {0}
  BY <1>1, ByteIs
<1> DEFINE y == BYTE^b
           x == ValueOf(s, p, n)
<1> HIDE DEF h, l, u, c, y
<1>10. x \div y = h
  <2>1. x = (y * h) + l
    BY <1>4, <1>7, <1>9 DEF y
  <2> HIDE DEF x
  <2> QED
    BY <1>5, <1>7, <1>9, <2>1, QuotientIs DEF y
<1>11. h % BYTE = c
  <2>1. h = (BYTE * u) + c
    BY <1>6, <1>7, <1>9
  <2> QED
    BY <1>7, <1>8, <1>9, <2>1, DivisionIs
<1> QED
  BY <1>10, <1>11 DEF x, y, c

\* And the number that the bytes of a number make up is that.
LEMMA ValueOfBytes ==
  ASSUME NEW n \in 0 .. 8, NEW x \in 0 .. BYTE^n - 1, NEW s, NEW p \in Nat, IsBytes(s, p + n),
         \A k \in 1 .. n : s[p + k] = BytesOf(x, n)[k]
  PROVE  ValueOf(s, p, n) = x
<1> DEFINE T == {k \in 0 .. n : ValueOf(s, p, k) = x \div BYTE^(n - k)}
<1>1. n \in Nat /\ BYTE^n \in Nat \ {0} /\ x \in Nat /\ BYTE \in Nat \ {0}
  BY ByteIs
<1>2. 0 \in T
  <2>1. n - 0 = n /\ x \div BYTE^n = 0
    BY <1>1
  <2>2. ValueOf(s, p, 0) = 0
    BY <1>1, ValueStep
  <2> QED
    BY <2>1, <2>2
<1>3. ASSUME NEW k \in 0 .. n - 1, k \in T PROVE k + 1 \in T
  <2>1. /\ k + 1 \in Nat /\ k + 1 # 0 /\ (k + 1) - 1 = k /\ k + 1 \in 1 .. n /\ k + 1 \in 0 .. n
        /\ p + (k + 1) \in Nat /\ p + (k + 1) <= p + n /\ p + n \in Nat
        /\ n - (k + 1) \in 0 .. 8 /\ (n - (k + 1)) + 1 = n - k
    OBVIOUS
  <2> DEFINE z == BYTE^(n - (k + 1))
             y == x \div z
  <2>2. ValueOf(s, p, k + 1) = ValueOf(s, p, k) * BYTE + s[p + (k + 1)]
    <3> DEFINE m == k + 1
    <3>1. m \in Nat /\ m # 0 /\ IsBytes(s, p + m) /\ m - 1 = k
      BY <2>1, FewerBytes
    <3>2. ValueOf(s, p, m) = ValueOf(s, p, m - 1) * BYTE + s[p + m]
      <4> HIDE DEF m
      <4> QED
        BY <3>1, ValueStep, ZenonT(30)
    <3> QED
      BY <3>1, <3>2
  <2>3. s[p + (k + 1)] = y % BYTE
    BY <2>1 DEF BytesOf
  <2>4. z \in Nat \ {0} /\ BYTE^(n - k) = BYTE * z
    <3> DEFINE e == n - (k + 1)
    <3>1. e \in 0 .. 8 /\ e + 1 = n - k
      BY <2>1
    <3> HIDE DEF e
    <3>2. BYTE^(e + 1) = BYTE * BYTE^e /\ BYTE^e \in Nat \ {0}
      BY <3>1, BytePowers
    <3> QED
      BY <3>1, <3>2 DEF e
  <2>5. ValueOf(s, p, k) = x \div BYTE^(n - k)
    BY <1>3
  <2> HIDE DEF z
  <2>6. y \div BYTE = x \div (BYTE * z)
    BY <1>1, <2>4, QuotientOfQuotient
  <2>7. y \in Nat
    BY <1>1, <2>4, Remainder
  <2> HIDE DEF y
  <2>8. y = (BYTE * (y \div BYTE)) + (y % BYTE) /\ y \div BYTE \in Nat
    BY <1>1, <2>7, Remainder
  <2>9. BYTE * (y \div BYTE) = (y \div BYTE) * BYTE
    <3> DEFINE q == y \div BYTE
    <3>1. q \in Nat
      BY <2>8
    <3> HIDE DEF q
    <3>2. BYTE * q = q * BYTE
      BY <1>1, <3>1
    <3> QED
      BY <3>2 DEF q
  <2>10. ValueOf(s, p, k + 1) = y
    BY <2>2, <2>3, <2>4, <2>5, <2>6, <2>8, <2>9
  <2> QED
    BY <2>1, <2>10 DEF y, z
<1>4. 0 .. n \subseteq T
  <2> HIDE DEF T
  <2> QED
    BY <1>1, <1>2, <1>3, IntervalInduction
<1>5. ValueOf(s, p, n) = x \div BYTE^(n - n)
  BY <1>1, <1>4
<1>6. n - n = 0 /\ x \div 1 = x
  BY <1>1
<1> QED
  BY <1>5, <1>6, ByteIs

-----------------------------------------------------------------------------
(* The reader *)

\* words has the bytes s, four in each.
WordsAre(words, s) ==
  /\ Len(words) \in Nat /\ IsBytes(s, 4 * Len(words))
  /\ \A i \in 0 .. Len(words) - 1 :
       words[i + 1] \in Nat /\ words[i + 1] % UINT32 = ValueOf(s, 4 * i, 4)

\* A reader behind p bytes and i words, which has k bytes left.
Remaining(s, p, k, i) == [cur |-> BYTE^k, buf |-> ValueOf(s, p, k), ptr |-> i + 1]

ReaderAt(r, s, p) == \E k \in 0 .. 3, i \in Nat : p + k = 4 * i /\ r = Remaining(s, p, k, i)

HasRead(result, s, p, n) == ReaderAt(result.reader, s, p + n) /\ result.value = ValueOf(s, p, n)

\* The word that is read next.
WordIsNext(words, s, p, k, i) ==
  /\ words[i + 1] \in Nat /\ words[i + 1] % UINT32 = ValueOf(s, p + k, 4)
  /\ p + (k + 4) <= 4 * Len(words) /\ IsBytes(s, p + (k + 4))
  /\ p + (k + 4) = 4 * (i + 1)

\* It is there as long as a word is left.
LEMMA NextWord ==
  ASSUME NEW words, NEW s, WordsAre(words, s), NEW p \in Nat, NEW k \in 0 .. 3, NEW i \in Nat,
         p + k = 4 * i, i < Len(words)
  PROVE  WordIsNext(words, s, p, k, i)
<1>1. Len(words) \in Nat
  BY DEF WordsAre
<1>2. i \in 0 .. Len(words) - 1 /\ p + (k + 4) <= 4 * Len(words)
  BY <1>1
<1>3. p + (k + 4) \in Nat /\ 4 * Len(words) \in Nat
  BY <1>1
<1>4. IsBytes(s, p + (k + 4))
  BY <1>2, <1>3, FewerBytes DEF WordsAre
<1> QED
  BY <1>2, <1>4 DEF WordsAre, WordIsNext

\* Two and four bytes of the last four and the rest.
LEMMA WideIs == UINT16 = BYTE^2 /\ UINT32 = BYTE^4 /\ UINT16 \in Nat \ {0} /\ UINT32 \in Nat \ {0}
  BY ByteIs DEF UINT16, UINT32

\* A byte: the next of the rest, or the first of the next word.
LEMMA ReadsOne ==
  ASSUME NEW words, NEW s, WordsAre(words, s), NEW p \in Nat, p + 1 <= 4 * Len(words),
         NEW r, ReaderAt(r, s, p)
  PROVE  HasRead(read_uint8(words, r), s, p, 1)
<1>1. PICK k \in 0 .. 3, i \in Nat : p + k = 4 * i /\ r = Remaining(s, p, k, i)
  BY DEF ReaderAt
<1>2. Len(words) \in Nat
  BY DEF WordsAre
<1> DEFINE q == IF r.cur = 1
                  THEN [cur |-> UINT32, buf |-> words[r.ptr] % UINT32, ptr |-> r.ptr + 1]
                  ELSE r
<1>3. PICK m \in 1 .. 4, j \in Nat : /\ p + m = 4 * j /\ p + m <= 4 * Len(words)
                                     /\ q = Remaining(s, p, m, j)
  <2>1. CASE k = 0
    <3>1. r.cur = 1 /\ r.ptr = i + 1
      BY <1>1, <2>1, ByteIs DEF Remaining
    <3>2. /\ words[i + 1] % UINT32 = ValueOf(s, p + 0, 4) /\ p + (0 + 4) <= 4 * Len(words)
          /\ p + (0 + 4) = 4 * (i + 1)
      <4>1. i < Len(words)
        BY <1>1, <1>2, <2>1
      <4>2. WordIsNext(words, s, p, k, i)
        BY <1>1, <4>1, NextWord
      <4> QED
        BY <2>1, <4>2 DEF WordIsNext
    <3>3. q = Remaining(s, p, 4, i + 1)
      BY <3>1, <3>2, WideIs DEF Remaining
    <3> QED
      BY <3>2, <3>3
  <2>2. CASE k # 0
    <3>1. 0 \in 0 .. 8 /\ k \in 0 .. 8 /\ 0 < k
      BY <2>2
    <3>2. BYTE^0 < BYTE^k /\ BYTE^k \in Nat
      BY <3>1, BytePowersGrow, ByteIs
    <3>3. r.cur # 1
      BY <1>1, <3>2, ByteIs DEF Remaining
    <3>4. p + k <= 4 * Len(words) /\ k \in 1 .. 4
      BY <1>1, <1>2, <2>2
    <3> QED
      BY <1>1, <3>3, <3>4
  <2> QED
    BY <2>1, <2>2
<1> HIDE DEF q
<1> DEFINE b == m - 1
           c == BYTE^b
           v == ValueOf(s, p, 1)
<1>4. /\ b \in 0 .. 3 /\ b \in 0 .. 8 /\ 1 + b = m /\ b + 1 = m /\ p + (1 + b) <= 4 * Len(words)
      /\ p + (1 + b) \in Nat /\ 4 * Len(words) \in Nat /\ (p + 1) + b = 4 * j
  BY <1>2, <1>3
<1>5. IsBytes(s, p + (1 + b))
  BY <1>4, FewerBytes DEF WordsAre
<1>6. Splits(s, p, 1, b)
  <2> HIDE DEF b
  <2> QED
    BY <1>4, <1>5, TopBytes
<1>7. q.cur = BYTE^m /\ q.buf = ValueOf(s, p, m) /\ q.ptr = j + 1
  BY <1>3 DEF Remaining
<1>8. q.cur \div BYTE = c
  <2>1. BYTE^(b + 1) \div BYTE^1 = BYTE^b
    <3> HIDE DEF b
    <3> QED
      BY <1>4, PowerQuotient
  <2> QED
    BY <1>4, <1>7, <2>1, ByteIs
<1>9. /\ Digits(ValueOf(s, p, m), c, BYTE^m) = v * c
      /\ (v * c) \div c = v
      /\ ValueOf(s, p, m) - v * c = ValueOf(s, p + 1, b)
  <2> HIDE DEF b
  <2> QED
    BY <1>4, <1>6 DEF Splits
<1>10. read_uint8(words, r) =
         Read(c, q.buf - Digits(q.buf, c, q.cur), q.ptr, Digits(q.buf, c, q.cur) \div c)
  BY <1>8 DEF read_uint8, q
<1> HIDE DEF c, v, b
<1>11. read_uint8(words, r) = Read(c, ValueOf(s, p + 1, b), j + 1, v)
  BY <1>7, <1>9, <1>10
<1>12. read_uint8(words, r).reader = Remaining(s, p + 1, b, j) /\ read_uint8(words, r).value = v
  BY <1>11 DEF Read, Remaining, c
<1>13. ReaderAt(read_uint8(words, r).reader, s, p + 1)
  BY <1>4, <1>12 DEF ReaderAt
<1> QED
  BY <1>12, <1>13 DEF HasRead, v

\* Different powers differ.
LEMMA PowerIs ==
  ASSUME NEW j \in 0 .. 8, NEW k \in 0 .. 8
  PROVE  BYTE^j = BYTE^k <=> j = k
<1>1. CASE j < k
  <2>1. BYTE^j < BYTE^k /\ BYTE^j \in Nat
    BY <1>1, BytePowersGrow, ByteIs
  <2> QED
    BY <1>1, <2>1
<1>2. CASE k < j
  <2>1. BYTE^k < BYTE^j /\ BYTE^k \in Nat
    BY <1>2, BytePowersGrow, ByteIs
  <2> QED
    BY <1>2, <2>1
<1>3. CASE j = k
  BY <1>3
<1> QED
  BY <1>1, <1>2, <1>3

\* Two bytes: of the rest, if it has them, or else of the rest and the next word.
LEMMA ReadsTwo ==
  ASSUME NEW words, NEW s, WordsAre(words, s), NEW p \in Nat, p + 2 <= 4 * Len(words),
         NEW r, ReaderAt(r, s, p)
  PROVE  HasRead(read_uint16_endian(words, r), s, p, 2)
<1>1. PICK k \in 0 .. 3, i \in Nat : p + k = 4 * i /\ r = Remaining(s, p, k, i)
  BY DEF ReaderAt
<1>2. Len(words) \in Nat /\ 4 * Len(words) \in Nat
  BY DEF WordsAre
<1>3. r.cur = BYTE^k /\ r.buf = ValueOf(s, p, k) /\ r.ptr = i + 1
  BY <1>1 DEF Remaining
<1>4. r.cur \in {1, BYTE} <=> k \in {0, 1}
  <2>1. k \in 0 .. 8 /\ 0 \in 0 .. 8 /\ 1 \in 0 .. 8
    OBVIOUS
  <2>2. (BYTE^k = BYTE^0 <=> k = 0) /\ (BYTE^k = BYTE^1 <=> k = 1)
    BY <2>1, PowerIs
  <2> QED
    BY <1>3, <2>2, ByteIs
<1> DEFINE v == ValueOf(s, p, 2)
<1>5. CASE k \in {0, 1}
  <2>1. /\ words[i + 1] % UINT32 = ValueOf(s, p + k, 4) /\ IsBytes(s, p + (k + 4))
        /\ p + (k + 4) = 4 * (i + 1)
    <3>1. i < Len(words)
      BY <1>1, <1>2, <1>5
    <3>2. WordIsNext(words, s, p, k, i)
      BY <1>1, <3>1, NextWord
    <3> QED
      BY <3>2 DEF WordIsNext
  <2>0. ValueOf(s, p, k + 4) = ValueOf(s, p, k) * BYTE^4 + ValueOf(s, p + k, 4)
    <3>1. k \in 0 .. 8 /\ 4 \in 0 .. 8 /\ k + 4 <= 8
      OBVIOUS
    <3>2. Splits(s, p, k, 4)
      BY <2>1, <3>1, TopBytes
    <3> QED
      BY <3>2 DEF Splits
  <2> DEFINE b == k + 2
             buf == (words[r.ptr] % UINT32) + r.buf * UINT32
             lo == UINT16 * r.cur
             top == Digits(buf, lo, UINT32 * r.cur)
  <2>2. /\ b \in 0 .. 3 /\ b \in 0 .. 8 /\ 2 + b = k + 4 /\ 2 + b <= 8 /\ (p + 2) + b = 4 * (i + 1)
        /\ k \in 0 .. 8 /\ k + 4 <= 8 /\ 4 \in 0 .. 8 /\ i + 1 \in Nat /\ b = 2 + k
        /\ b = k + 2 /\ 4 + k = k + 4
    BY <1>5, <2>1
  <2>3. buf = ValueOf(s, p, k + 4)
    <3>2. p + k \in Nat /\ p + k <= p + (k + 4) /\ p + (k + 4) \in Nat /\ (p + k) + 4 = p + (k + 4)
      OBVIOUS
    <3>3. ValueOf(s, p, k) \in Nat
      <4>1. IsBytes(s, p + k) /\ k \in Nat
        BY <2>1, <3>2, FewerBytes
      <4> QED
        BY <4>1, ValueStep
    <3>4. ValueOf(s, p + k, 4) \in Nat
      <4>1. IsBytes(s, (p + k) + 4) /\ 4 \in Nat
        BY <2>1, <3>2
      <4> QED
        BY <3>2, <4>1, ValueStep
    <3> DEFINE x == ValueOf(s, p, k)
               y == ValueOf(s, p + k, 4)
    <3>5. buf = y + x * UINT32
      BY <1>3, <2>1
    <3> HIDE DEF x, y, buf
    <3>6. \A d, e, f \in Nat : d + e * f = e * f + d
      OBVIOUS
    <3>7. y + x * UINT32 = x * UINT32 + y
      BY <3>3, <3>4, <3>6, WideIs DEF x, y
    <3> QED
      BY <2>0, <3>5, <3>7, WideIs DEF x, y
  <2>4. lo = BYTE^b /\ UINT32 * r.cur = BYTE^(k + 4) /\ r.cur * UINT16 = BYTE^b
    <3>1. 2 \in 0 .. 8 /\ 4 \in 0 .. 8 /\ 2 + k <= 8 /\ k + 2 <= 8 /\ 4 + k <= 8
      OBVIOUS
    <3>2. BYTE^(2 + k) = BYTE^2 * BYTE^k /\ BYTE^(4 + k) = BYTE^4 * BYTE^k
          /\ BYTE^(k + 2) = BYTE^k * BYTE^2
      BY <2>2, <3>1, PowerOfSum
    <3> QED
      BY <1>3, <2>2, <3>2, WideIs
  <2>5. Splits(s, p, 2, b)
    <3>1. 2 \in 0 .. 8 /\ IsBytes(s, p + (2 + b))
      BY <2>1, <2>2
    <3> HIDE DEF b
    <3> QED
      BY <2>2, <3>1, TopBytes
  <2>6. /\ Digits(ValueOf(s, p, k + 4), BYTE^b, BYTE^(k + 4)) = v * BYTE^b
        /\ (v * BYTE^b) \div BYTE^b = v
        /\ ValueOf(s, p, k + 4) - v * BYTE^b = ValueOf(s, p + 2, b)
    <3> HIDE DEF b
    <3> QED
      BY <2>2, <2>5 DEF Splits
  <2>7. read_uint16_endian(words, r) = Read(r.cur * UINT16, buf - top, r.ptr + 1, top \div lo)
    BY <1>4, <1>5 DEF read_uint16_endian
  <2> HIDE DEF b, buf, lo, v
  <2>8. read_uint16_endian(words, r) = Read(BYTE^b, ValueOf(s, p + 2, b), (i + 1) + 1, v)
    BY <1>3, <2>3, <2>4, <2>6, <2>7
  <2>9. /\ read_uint16_endian(words, r).reader = Remaining(s, p + 2, b, i + 1)
        /\ read_uint16_endian(words, r).value = v
    BY <2>8 DEF Read, Remaining
  <2>10. ReaderAt(read_uint16_endian(words, r).reader, s, p + 2)
    BY <2>2, <2>9 DEF ReaderAt
  <2> QED
    BY <2>9, <2>10 DEF HasRead, v
<1>6. CASE k \in {2, 3}
  <2> DEFINE b == k - 2
             cur == r.cur \div UINT16
             top == Digits(r.buf, cur, r.cur)
  <2>1. /\ b \in 0 .. 3 /\ b \in 0 .. 8 /\ 2 + b = k /\ b + 2 = k /\ (p + 2) + b = 4 * i
        /\ k \in 0 .. 8 /\ 2 \in 0 .. 8 /\ 2 + b <= 8 /\ b + 2 <= 8 /\ k \notin {0, 1}
    BY <1>1, <1>6
  <2>2. IsBytes(s, p + (2 + b))
    <3>1. p + (2 + b) \in Nat /\ p + (2 + b) <= 4 * Len(words)
      BY <1>1, <1>2, <1>6
    <3> QED
      BY <1>2, <3>1, FewerBytes DEF WordsAre
  <2>3. Splits(s, p, 2, b)
    <3> HIDE DEF b
    <3> QED
      BY <2>1, <2>2, TopBytes
  <2>4. cur = BYTE^b /\ BYTE^k = BYTE^b * BYTE^2 /\ BYTE^b \in Nat \ {0} /\ BYTE^2 \in Nat \ {0}
    <3> HIDE DEF b
    <3>1. BYTE^(b + 2) \div BYTE^2 = BYTE^b /\ BYTE^(b + 2) = BYTE^b * BYTE^2
      BY <2>1, PowerQuotient, PowerOfSum
    <3> QED
      BY <1>3, <2>1, <3>1, WideIs, ByteIs
  <2>5. /\ Digits(ValueOf(s, p, k), BYTE^b, BYTE^k) = v * BYTE^b
        /\ ValueOf(s, p, k) - v * BYTE^b = ValueOf(s, p + 2, b) /\ v \in Nat
    <3> HIDE DEF b
    <3> QED
      BY <2>1, <2>3 DEF Splits
  <2>6. read_uint16_endian(words, r) = Read(cur, r.buf - top, r.ptr, (top * UINT16) \div r.cur)
    BY <1>4, <2>1 DEF read_uint16_endian
  <2> HIDE DEF b, cur, v
  <2>7. ((v * BYTE^b) * UINT16) \div BYTE^k = v
    <3> DEFINE x == BYTE^b
               y == BYTE^2
    <3>0. x \in Nat \ {0} /\ y \in Nat \ {0} /\ BYTE^k = x * y /\ UINT16 = y /\ v \in Nat
      BY <2>4, <2>5, WideIs
    <3> HIDE DEF x, y
    <3>1. \A d, e, f \in Nat : (d * e) * f = d * (e * f) /\ e * f \in Nat
      OBVIOUS
    <3>2. \A e, f \in Nat \ {0} : e * f \in Nat \ {0}
      OBVIOUS
    <3>3. (v * x) * y = v * (x * y) /\ x * y \in Nat \ {0}
      BY <3>0, <3>1, <3>2
    <3>4. (v * (x * y)) \div (x * y) = v
      BY <3>0, <3>3, Cancelled
    <3>5. ((v * x) * y) \div (x * y) = v
      BY <3>3, <3>4
    <3> QED
      BY <3>0, <3>5 DEF x
  <2>8. read_uint16_endian(words, r) = Read(BYTE^b, ValueOf(s, p + 2, b), i + 1, v)
    BY <1>3, <2>4, <2>5, <2>6, <2>7
  <2>9. /\ read_uint16_endian(words, r).reader = Remaining(s, p + 2, b, i)
        /\ read_uint16_endian(words, r).value = v
    BY <2>8 DEF Read, Remaining
  <2>10. ReaderAt(read_uint16_endian(words, r).reader, s, p + 2)
    BY <2>1, <2>9 DEF ReaderAt
  <2> QED
    BY <2>9, <2>10 DEF HasRead, v
<1> QED
  BY <1>5, <1>6

\* Four bytes: the rest, and the first of the next word.
LEMMA ReadsFour ==
  ASSUME NEW words, NEW s, WordsAre(words, s), NEW p \in Nat, p + 4 <= 4 * Len(words),
         NEW r, ReaderAt(r, s, p)
  PROVE  HasRead(read_uint32_endian(words, r), s, p, 4)
<1>1. PICK k \in 0 .. 3, i \in Nat : p + k = 4 * i /\ r = Remaining(s, p, k, i)
  BY DEF ReaderAt
<1>3. r.cur = BYTE^k /\ r.buf = ValueOf(s, p, k) /\ r.ptr = i + 1
  BY <1>1 DEF Remaining
<1> DEFINE v == ValueOf(s, p, 4)
           buf == r.buf * UINT32 + (words[r.ptr] % UINT32)
           top == Digits(buf, r.cur, UINT32 * r.cur)
<1>4. /\ words[i + 1] % UINT32 = ValueOf(s, p + k, 4) /\ IsBytes(s, p + (k + 4))
      /\ p + (k + 4) = 4 * (i + 1)
  <2>1. Len(words) \in Nat
    BY DEF WordsAre
  <2>2. i < Len(words)
    BY <1>1, <2>1
  <2>3. WordIsNext(words, s, p, k, i)
    BY <1>1, <2>2, NextWord
  <2> QED
    BY <2>3 DEF WordIsNext
<1>5. /\ k \in 0 .. 8 /\ 4 \in 0 .. 8 /\ k + 4 <= 8 /\ 4 + k = k + 4 /\ (p + 4) + k = 4 * (i + 1)
      /\ i + 1 \in Nat
  BY <1>4
<1>6. buf = ValueOf(s, p, k + 4)
  <2>1. Splits(s, p, k, 4)
    BY <1>4, <1>5, TopBytes
  <2> QED
    BY <1>3, <1>4, <2>1, WideIs DEF Splits
<1>7. UINT32 * r.cur = BYTE^(k + 4)
  BY <1>3, <1>5, PowerOfSum, WideIs
<1>8. Splits(s, p, 4, k)
  <2>1. IsBytes(s, p + (4 + k)) /\ 4 + k <= 8
    BY <1>4, <1>5
  <2> QED
    BY <1>5, <2>1, TopBytes
<1>9. /\ Digits(ValueOf(s, p, k + 4), BYTE^k, BYTE^(k + 4)) = v * BYTE^k
      /\ (v * BYTE^k) \div BYTE^k = v
      /\ ValueOf(s, p, k + 4) - v * BYTE^k = ValueOf(s, p + 4, k)
  BY <1>5, <1>8 DEF Splits
<1>10. read_uint32_endian(words, r) = Read(r.cur, buf - top, r.ptr + 1, top \div r.cur)
  BY DEF read_uint32_endian
<1> HIDE DEF v, buf
<1>11. read_uint32_endian(words, r) = Read(BYTE^k, ValueOf(s, p + 4, k), (i + 1) + 1, v)
  BY <1>3, <1>6, <1>7, <1>9, <1>10
<1>12. /\ read_uint32_endian(words, r).reader = Remaining(s, p + 4, k, i + 1)
       /\ read_uint32_endian(words, r).value = v
  BY <1>11 DEF Read, Remaining
<1>13. ReaderAt(read_uint32_endian(words, r).reader, s, p + 4)
  BY <1>5, <1>12 DEF ReaderAt
<1> QED
  BY <1>12, <1>13 DEF HasRead, v

\* Every read returns the bytes behind those that were read before.
LEMMA ReadsOn ==
  ASSUME NEW words, NEW s, WordsAre(words, s), NEW p \in Nat, NEW size \in Sizes,
         p + size <= 4 * Len(words), NEW r, ReaderAt(r, s, p)
  PROVE  HasRead(ReadUint(words, r, size), s, p, size)
<1>1. CASE size = 1
  BY <1>1, ReadsOne DEF ReadUint
<1>2. CASE size = 2
  BY <1>2, ReadsTwo DEF ReadUint
<1>3. CASE size = 4
  BY <1>3, ReadsFour DEF ReadUint
<1> QED
  BY <1>1, <1>2, <1>3 DEF Sizes

\* A peek returns the byte that the next read begins with.
LEMMA Peeks ==
  ASSUME NEW words, NEW s, WordsAre(words, s), NEW p \in Nat, p + 1 <= 4 * Len(words),
         NEW r, ReaderAt(r, s, p)
  PROVE  peek_uint8(words, r) = s[p + 1]
<1>1. PICK k \in 0 .. 3, i \in Nat : p + k = 4 * i /\ r = Remaining(s, p, k, i)
  BY DEF ReaderAt
<1>2. Len(words) \in Nat /\ 4 * Len(words) \in Nat
  BY DEF WordsAre
<1>3. r.cur = BYTE^k /\ r.buf = ValueOf(s, p, k) /\ r.ptr = i + 1
  BY <1>1 DEF Remaining
<1> DEFINE v == ValueOf(s, p, 1)
<1>4. v = s[p + 1] /\ v \in Nat
  <2>1. IsBytes(s, p + 1) /\ p + 1 \in Nat /\ IsBytes(s, p + 0) /\ 1 \in Nat /\ 0 \in Nat
    BY <1>2, FewerBytes DEF WordsAre, IsBytes
  <2>2. ValueOf(s, p, 1) = ValueOf(s, p, 1 - 1) * BYTE + s[p + 1] /\ ValueOf(s, p, 1) \in Nat
    BY <2>1, ValueStep
  <2>3. ValueOf(s, p, 0) = 0 /\ 1 - 1 = 0
    BY <2>1, ValueStep
  <2>4. s[p + 1] \in Nat
    <3>1. p + 1 \in 1 .. p + 1
      OBVIOUS
    <3> QED
      BY <2>1, <3>1, ByteIs DEF IsBytes
  <2> DEFINE c == s[p + 1]
  <2>5. 0 * BYTE + c = c
    <3> HIDE DEF c
    <3> QED
      BY <2>4, ByteIs DEF c
  <2> QED
    BY <2>2, <2>3, <2>5
<1>5. CASE k = 0
  <2>1. r.cur = 1
    BY <1>3, <1>5, ByteIs
  <2>2. /\ words[i + 1] % UINT32 = ValueOf(s, p + 0, 4) /\ words[i + 1] \in Nat
        /\ IsBytes(s, p + (0 + 4))
    <3>1. i < Len(words)
      BY <1>1, <1>2, <1>5
    <3>2. WordIsNext(words, s, p, k, i)
      BY <1>1, <3>1, NextWord
    <3> QED
      BY <1>5, <3>2 DEF WordIsNext
  <2>3. Splits(s, p, 1, 3)
    <3>1. IsBytes(s, p + (1 + 3)) /\ 1 \in 0 .. 8 /\ 3 \in 0 .. 8 /\ 1 + 3 <= 8
      BY <2>2
    <3> QED
      BY <3>1, TopBytes
  <2> DEFINE x == words[i + 1]
             l == ValueOf(s, p + 1, 3)
             y == BYTE^3
  <2>4. x % UINT32 = v * y + l
    BY <2>2, <2>3 DEF Splits
  <2>5. l \in 0 .. y - 1
    <3>1. IsBytes(s, (p + 1) + 3) /\ p + 1 \in Nat /\ 3 \in 0 .. 8
      BY <2>2
    <3> QED
      BY <3>1, ValueBound
  <2>6. y \in Nat \ {0}
    BY ByteIs
  <2>7. peek_uint8(words, r) = Digits(x, y, UINT32) \div y
    BY <1>3, <2>1 DEF peek_uint8
  <2> HIDE DEF x, l, y, v
  <2>8. HasDigits(x, y, UINT32, v, l)
    BY <1>4, <2>2, <2>4, <2>5, <2>6, WideIs DEF HasDigits, x
  <2>9. Digits(x, y, UINT32) = v * y /\ (v * y) \div y = v
    BY <2>8, TopDigits
  <2> QED
    BY <1>4, <2>7, <2>9
<1>6. CASE k # 0
  <2> DEFINE b == k - 1
             cur == r.cur \div BYTE
  <2>1. /\ b \in 0 .. 8 /\ 1 + b = k /\ b + 1 = k /\ 1 \in 0 .. 8 /\ 1 + b <= 8 /\ b + 1 <= 8
        /\ k \in 0 .. 8 /\ 0 \in 0 .. 8 /\ k # 0
    BY <1>6
  <2>2. IsBytes(s, p + (1 + b))
    <3>1. p + (1 + b) \in Nat /\ p + (1 + b) <= 4 * Len(words)
      BY <1>1, <1>2, <1>6
    <3> QED
      BY <1>2, <3>1, FewerBytes DEF WordsAre
  <2>3. Splits(s, p, 1, b)
    <3> HIDE DEF b
    <3> QED
      BY <2>1, <2>2, TopBytes
  <2>4. cur = BYTE^b /\ BYTE^k = BYTE^b * BYTE /\ BYTE^b \in Nat \ {0} /\ BYTE \in Nat \ {0}
    <3> HIDE DEF b
    <3>1. BYTE^(b + 1) \div BYTE^1 = BYTE^b /\ BYTE^(b + 1) = BYTE^b * BYTE^1
      BY <2>1, PowerQuotient, PowerOfSum
    <3> QED
      BY <1>3, <2>1, <3>1, ByteIs
  <2>5. Digits(ValueOf(s, p, k), BYTE^b, BYTE^k) = v * BYTE^b
    <3> HIDE DEF b
    <3> QED
      BY <2>1, <2>3 DEF Splits
  <2>6. r.cur # 1
    BY <1>3, <2>1, PowerIs, ByteIs
  <2>7. peek_uint8(words, r) = (Digits(r.buf, cur, r.cur) * BYTE) \div r.cur
    BY <2>6 DEF peek_uint8
  <2> HIDE DEF b, cur, v
  <2>8. ((v * BYTE^b) * BYTE) \div BYTE^k = v
    <3> DEFINE x == BYTE^b
    <3> HIDE DEF x
    <3>1. \A d, e, f \in Nat : (d * e) * f = d * (e * f) /\ e * f \in Nat
      OBVIOUS
    <3>2. \A e, f \in Nat \ {0} : e * f \in Nat \ {0}
      OBVIOUS
    <3>3. (v * x) * BYTE = v * (x * BYTE) /\ x * BYTE \in Nat \ {0}
      BY <1>4, <2>4, <3>1, <3>2 DEF x
    <3>4. (v * (x * BYTE)) \div (x * BYTE) = v
      BY <1>4, <3>3, Cancelled
    <3> QED
      BY <2>4, <3>3, <3>4 DEF x
  <2> QED
    BY <1>3, <1>4, <2>4, <2>5, <2>7, <2>8
<1> QED
  BY <1>5, <1>6

-----------------------------------------------------------------------------
(* The writer *)

WordsOf(s, i) == [k \in 1 .. i |-> ValueOf(s, 4 * (k - 1), 4)]

\* A writer behind i words and f bytes.
Full(s, i, f) == Writer(BYTE^(4 - f), ValueOf(s, 4 * i, f) * BYTE^(4 - f), WordsOf(s, i))

WriterAt(w, s, n) == \E f \in 0 .. 3, i \in Nat : n = 4 * i + f /\ w = Full(s, i, f)

\* One more word is written.
LEMMA OneMoreWord ==
  ASSUME NEW s, NEW i \in Nat, IsBytes(s, 4 * (i + 1))
  PROVE  /\ Append(WordsOf(s, i), ValueOf(s, 4 * i, 4)) = WordsOf(s, i + 1)
         /\ WordsOf(s, i + 1) \in Seq(Nat) /\ WordsOf(s, i) \in Seq(Nat)
         /\ Len(WordsOf(s, i)) = i /\ Len(WordsOf(s, i + 1)) = i + 1
<1>1. \A k \in 1 .. i + 1 : ValueOf(s, 4 * (k - 1), 4) \in Nat
  <2> TAKE k \in 1 .. i + 1
  <2> DEFINE q == 4 * (k - 1)
  <2>1. q \in Nat /\ 4 \in Nat /\ q + 4 \in Nat /\ q + 4 <= 4 * (i + 1) /\ 4 * (i + 1) \in Nat
    OBVIOUS
  <2> HIDE DEF q
  <2>2. IsBytes(s, q + 4)
    BY <2>1, FewerBytes
  <2>3. ValueOf(s, q, 4) \in Nat
    BY <2>1, <2>2, ValueStep
  <2> QED
    BY <2>3 DEF q
<1> DEFINE g == [k \in 1 .. i + 1 |-> ValueOf(s, 4 * (k - 1), 4)]
<1>2. \A k \in 1 .. i : k \in 1 .. i + 1
  OBVIOUS
<1>3. WordsOf(s, i) \in [1 .. i -> Nat] /\ WordsOf(s, i + 1) \in [1 .. i + 1 -> Nat]
  BY <1>1, <1>2 DEF WordsOf
<1>4. i + 1 \in 1 .. i + 1 /\ (i + 1) - 1 = i /\ ValueOf(s, 4 * i, 4) \in Nat
  <2>1. i + 1 \in 1 .. i + 1 /\ (i + 1) - 1 = i
    OBVIOUS
  <2>2. ValueOf(s, 4 * ((i + 1) - 1), 4) \in Nat
    BY <1>1, <2>1
  <2> QED
    BY <2>1, <2>2
<1>5. \A k \in 1 .. i : WordsOf(s, i + 1)[k] = WordsOf(s, i)[k]
  BY <1>2 DEF WordsOf
<1>6. WordsOf(s, i + 1)[i + 1] = ValueOf(s, 4 * i, 4)
  BY <1>4 DEF WordsOf
<1> DEFINE a == WordsOf(s, i)
           b == WordsOf(s, i + 1)
           v == ValueOf(s, 4 * i, 4)
<1> HIDE DEF a, b, v
<1>7. a \in Seq(Nat) /\ b \in Seq(Nat) /\ Len(a) = i /\ Len(b) = i + 1
  BY <1>3, SMTT(30) DEF a, b
<1>8. Append(a, v) \in Seq(Nat) /\ Len(Append(a, v)) = i + 1
  BY <1>4, <1>7 DEF v
<1>9. \A k \in 1 .. i + 1 : Append(a, v)[k] = b[k]
  <2> TAKE k \in 1 .. i + 1
  <2>1. CASE k = i + 1
    BY <1>6, <1>7, <2>1 DEF b, v
  <2>2. CASE k # i + 1
    <3>1. k \in 1 .. i
      BY <2>2
    <3>2. Append(a, v)[k] = a[k]
      BY <1>7, <3>1
    <3> QED
      BY <1>5, <3>1, <3>2 DEF a, b
  <2> QED
    BY <2>1, <2>2
<1>10. Append(a, v) = b
  BY <1>7, <1>8, <1>9
<1> QED
  BY <1>7, <1>10 DEF a, b, v

\* A word is full.
LEMMA WordIsFull ==
  ASSUME NEW s, NEW i \in Nat, IsBytes(s, 4 * (i + 1))
  PROVE  Full(s, i + 1, 0) = Writer(UINT32, 0, WordsOf(s, i + 1))
<1>1. ValueOf(s, 4 * (i + 1), 0) = 0
  <2> DEFINE q == 4 * (i + 1)
  <2>1. q \in Nat /\ 0 \in Nat /\ q + 0 = q
    OBVIOUS
  <2> HIDE DEF q
  <2>2. IsBytes(s, q + 0)
    BY <2>1 DEF q
  <2>3. ValueOf(s, q, 0) = 0
    BY <2>1, <2>2, ValueStep
  <2> QED
    BY <2>3 DEF q
<1>2. 4 - 0 = 4 /\ 0 * UINT32 = 0
  BY WideIs
<1> QED
  BY <1>1, <1>2, WideIs DEF Full

\* Two groups of bytes with e places below them.
Placed(s, p, a, b, e) ==
  /\ ValueOf(s, p, a) * BYTE^(b + e) + ValueOf(s, p + a, b) * BYTE^e = ValueOf(s, p, a + b) * BYTE^e
  /\ ValueOf(s, p, a) * BYTE^(b + e) \in Nat /\ ValueOf(s, p + a, b) * BYTE^e \in Nat

\* Together they are one group.
LEMMA PlacesAdd ==
  ASSUME NEW s, NEW p \in Nat, NEW a \in 0 .. 8, NEW b \in 0 .. 8, NEW e \in 0 .. 8, a + b <= 8,
         b + e <= 8, IsBytes(s, p + (a + b))
  PROVE  Placed(s, p, a, b, e)
<1> DEFINE h == ValueOf(s, p, a)
           l == ValueOf(s, p + a, b)
           v == ValueOf(s, p, a + b)
           x == BYTE^b
           y == BYTE^e
<1>1. Splits(s, p, a, b)
  BY TopBytes
<1>2. v = h * x + l /\ h \in Nat /\ l \in Nat
  BY <1>1 DEF Splits
<1>3. BYTE^(b + e) = x * y /\ x \in Nat /\ y \in Nat
  BY PowerOfSum, ByteIs
<1> HIDE DEF h, l, v, x, y
<1>4. \A c, d, f, g \in Nat :
        c * (d * f) + g * f = (c * d + g) * f /\ c * (d * f) \in Nat /\ g * f \in Nat
  OBVIOUS
<1>5. h * (x * y) + l * y = (h * x + l) * y /\ h * (x * y) \in Nat /\ l * y \in Nat
  BY <1>2, <1>3, <1>4
<1> QED
  BY <1>2, <1>3, <1>5 DEF Placed, h, l, v, y

\* A byte: into the next place, which may complete the word.
LEMMA WritesOne ==
  ASSUME NEW s, NEW n \in Nat, IsBytes(s, n + 1), NEW w, WriterAt(w, s, n)
  PROVE  WriterAt(write_uint8(w, ValueOf(s, n, 1)), s, n + 1)
<1>1. PICK f \in 0 .. 3, i \in Nat : n = 4 * i + f /\ w = Full(s, i, f)
  BY DEF WriterAt
<1> DEFINE p == 4 * i
           v == ValueOf(s, n, 1)
           h == ValueOf(s, p, f)
<1>2. w.cur = BYTE^(4 - f) /\ w.buf = h * BYTE^(4 - f) /\ w.out = WordsOf(s, i)
  BY <1>1 DEF Full, Writer
<1>3. p \in Nat /\ n = p + f /\ p + (f + 1) = n + 1
  BY <1>1
<1>4. IsBytes(s, p + (f + 1))
  BY <1>3
<1>5. w.cur = BYTE <=> f = 3
  <2>1. 4 - f \in 0 .. 8 /\ 1 \in 0 .. 8 /\ (4 - f = 1 <=> f = 3)
    OBVIOUS
  <2> QED
    BY <1>2, <2>1, PowerIs, ByteIs
<1>6. CASE f = 3
  <2>1. Placed(s, p, 3, 1, 0)
    <3>1. /\ IsBytes(s, p + (3 + 1)) /\ 3 \in 0 .. 8 /\ 1 \in 0 .. 8 /\ 0 \in 0 .. 8
          /\ 3 + 1 <= 8 /\ 1 + 0 <= 8
      BY <1>4, <1>6
    <3> HIDE DEF p
    <3> QED
      BY <1>3, <3>1, PlacesAdd
  <2>2. ValueOf(s, p, 3) * BYTE^1 + v * BYTE^0 = ValueOf(s, p, 4) * BYTE^0
    <3>1. 1 + 0 = 1 /\ 3 + 1 = 4 /\ n = p + 3
      BY <1>3, <1>6
    <3> HIDE DEF p
    <3> QED
      BY <2>1, <3>1 DEF Placed
  <2>3. v \in Nat /\ ValueOf(s, p, 4) \in Nat
    <3>1. IsBytes(s, p + 4) /\ 1 \in Nat /\ 4 \in Nat
      BY <1>3, <1>4, <1>6
    <3> HIDE DEF p
    <3> QED
      BY <1>3, <3>1, ValueStep
  <2>4. w.buf + v = ValueOf(s, p, 4)
    <3> DEFINE x == ValueOf(s, p, 4)
    <3> HIDE DEF v, x, p
    <3>1. v * 1 = v /\ x * 1 = x
      BY <2>3 DEF x
    <3>2. 4 - f = 1
      BY <1>6
    <3> QED
      BY <1>2, <1>6, <2>2, <3>1, <3>2, ByteIs DEF x
  <2>5. IsBytes(s, 4 * (i + 1))
    <3>1. p + (f + 1) = 4 * (i + 1)
      BY <1>6
    <3> QED
      BY <1>4, <3>1
  <2>6. write_uint8(w, v) = Writer(UINT32, 0, Append(w.out, w.buf + v))
    BY <1>5, <1>6 DEF write_uint8
  <2>7. write_uint8(w, v) = Full(s, i + 1, 0)
    <3>1. Full(s, i + 1, 0) = Writer(UINT32, 0, WordsOf(s, i + 1))
      BY <2>5, WordIsFull
    <3>2. Append(WordsOf(s, i), ValueOf(s, 4 * i, 4)) = WordsOf(s, i + 1)
      BY <2>5, OneMoreWord
    <3> HIDE DEF v
    <3> QED
      BY <1>2, <2>4, <2>6, <3>1, <3>2
  <2>8. n + 1 = 4 * (i + 1) + 0 /\ i + 1 \in Nat /\ 0 \in 0 .. 3
    BY <1>3, <1>6
  <2> QED
    BY <2>7, <2>8 DEF WriterAt
<1>7. CASE f # 3
  <2> DEFINE e == 3 - f
             g == f + 1
  <2>1. /\ e \in 0 .. 8 /\ e + 1 = 4 - f /\ 1 + e = 4 - f /\ f + 1 <= 8 /\ 1 + e <= 8
        /\ f \in 0 .. 8
        /\ 1 \in 0 .. 8 /\ e + 1 <= 8 /\ g \in 0 .. 3 /\ 4 - g = e /\ g = f + 1 /\ n + 1 = 4 * i + g
    BY <1>1, <1>7
  <2> HIDE DEF e, g
  <2>2. Placed(s, p, f, 1, e)
    <3> HIDE DEF p
    <3> QED
      BY <1>3, <1>4, <2>1, PlacesAdd
  <2>3. h * BYTE^(4 - f) + v * BYTE^e = ValueOf(s, p, g) * BYTE^e
    <3> HIDE DEF p
    <3> QED
      BY <1>3, <2>1, <2>2 DEF Placed
  <2>4. w.cur \div BYTE = BYTE^e
    <3>1. BYTE^(e + 1) \div BYTE^1 = BYTE^e
      BY <2>1, PowerQuotient
    <3> QED
      BY <1>2, <2>1, <3>1, ByteIs
  <2>5. write_uint8(w, v) = Writer(w.cur \div BYTE, w.buf + v * (w.cur \div BYTE), w.out)
    BY <1>5, <1>7 DEF write_uint8
  <2>6. write_uint8(w, v) = Full(s, i, g)
    BY <1>2, <2>1, <2>3, <2>4, <2>5 DEF Full
  <2> QED
    BY <2>1, <2>6 DEF WriterAt
<1> QED
  BY <1>6, <1>7

\* Two bytes, but not across the end of a word.
LEMMA WritesTwo ==
  ASSUME NEW s, NEW n \in Nat, IsBytes(s, n + 2), NEW w, WriterAt(w, s, n), w.cur # BYTE
  PROVE  WriterAt(write_uint16_endian(w, ValueOf(s, n, 2)), s, n + 2)
<1>1. PICK f \in 0 .. 3, i \in Nat : n = 4 * i + f /\ w = Full(s, i, f)
  BY DEF WriterAt
<1> DEFINE p == 4 * i
           v == ValueOf(s, n, 2)
           h == ValueOf(s, p, f)
<1>2. w.cur = BYTE^(4 - f) /\ w.buf = h * BYTE^(4 - f) /\ w.out = WordsOf(s, i)
  BY <1>1 DEF Full, Writer
<1>3. p \in Nat /\ n = p + f /\ p + (f + 2) = n + 2
  BY <1>1
<1>4. IsBytes(s, p + (f + 2))
  BY <1>3
<1>5. (w.cur = BYTE <=> f = 3) /\ (w.cur = UINT16 <=> f = 2)
  <2>1. /\ 4 - f \in 0 .. 8 /\ 1 \in 0 .. 8 /\ 2 \in 0 .. 8 /\ (4 - f = 1 <=> f = 3)
        /\ (4 - f = 2 <=> f = 2)
    OBVIOUS
  <2>2. (BYTE^(4 - f) = BYTE^1 <=> 4 - f = 1) /\ (BYTE^(4 - f) = BYTE^2 <=> 4 - f = 2)
    BY <2>1, PowerIs
  <2> QED
    BY <1>2, <2>1, <2>2, WideIs, ByteIs
<1>6. CASE f = 2
  <2>1. Placed(s, p, 2, 2, 0)
    <3>1. IsBytes(s, p + (2 + 2)) /\ 2 \in 0 .. 8 /\ 0 \in 0 .. 8 /\ 2 + 2 <= 8 /\ 2 + 0 <= 8
      BY <1>4, <1>6
    <3> HIDE DEF p
    <3> QED
      BY <1>3, <3>1, PlacesAdd
  <2>2. ValueOf(s, p, 2) * BYTE^2 + v * BYTE^0 = ValueOf(s, p, 4) * BYTE^0
    <3>1. 2 + 0 = 2 /\ 2 + 2 = 4 /\ n = p + 2
      BY <1>3, <1>6
    <3> HIDE DEF p
    <3> QED
      BY <2>1, <3>1 DEF Placed
  <2>3. v \in Nat /\ ValueOf(s, p, 4) \in 0 .. BYTE^4 - 1 /\ ValueOf(s, p, 2) \in Nat
    <3>1. IsBytes(s, p + 4) /\ 2 \in Nat /\ 4 \in 0 .. 8 /\ IsBytes(s, p + 2)
      <4>1. p + 4 = p + (f + 2) /\ p + 2 \in Nat /\ p + 4 \in Nat /\ p + 2 <= p + 4
        BY <1>3, <1>6
      <4>2. IsBytes(s, p + 4)
        BY <1>4, <4>1
      <4> HIDE DEF p
      <4> QED
        BY <4>1, <4>2, FewerBytes
    <3> HIDE DEF p
    <3> QED
      BY <1>3, <3>1, ValueStep, ValueBound
  <2> DEFINE places == UINT16 \div w.cur
             buf == v + w.buf * places
             top == Digits(buf, places, UINT32 * places)
             x == ValueOf(s, p, 4)
  <2>4. places = 1 /\ UINT32 * places = UINT32
    <3>1. w.cur = UINT16
      BY <1>5, <1>6
    <3>2. UINT16 \div UINT16 = 1 /\ UINT32 * 1 = UINT32
      BY WideIs
    <3> QED
      BY <3>1, <3>2
  <2>5. buf = x
    <3> DEFINE y == ValueOf(s, p, 2) * BYTE^2
    <3>1. y \in Nat
      <4>1. \A a, b \in Nat : a * b \in Nat
        OBVIOUS
      <4> QED
        BY <2>3, <4>1, ByteIs
    <3>2. w.buf = y
      <4>1. 4 - f = 2
        BY <1>6
      <4> HIDE DEF p
      <4> QED
        BY <1>2, <1>6, <4>1
    <3>3. x \in Nat
      BY <2>3, ByteIs
    <3>4. y + v * 1 = x * 1
      BY <2>2, ByteIs
    <3> HIDE DEF p, v, x, y, places
    <3> QED
      BY <2>3, <2>4, <3>1, <3>2, <3>3, <3>4
  <2>6. top = x /\ buf - top = 0 /\ top \div places = x
    <3>1. x \in Nat /\ x \in 0 .. UINT32 - 1
      BY <2>3, WideIs
    <3>2. HasDigits(x, 1, UINT32, x, 0)
      <4> HIDE DEF x
      <4> QED
        BY <3>1, WideIs DEF HasDigits
    <3>3. Digits(x, 1, UINT32) = x * 1 /\ (x * 1) \div 1 = x
      <4> HIDE DEF x
      <4> QED
        BY <3>2, TopDigits
    <3>4. x * 1 = x /\ x - x = 0
      <4> HIDE DEF x
      <4> QED
        BY <3>1
    <3> HIDE DEF x, buf, places
    <3> QED
      BY <2>4, <2>5, <3>3, <3>4
  <2>7. write_uint16_endian(w, v) =
          Writer(w.cur * UINT16, buf - top, Append(w.out, top \div places))
    BY <1>5, <1>6 DEF write_uint16_endian
  <2>8. w.cur * UINT16 = UINT32
    <3>1. BYTE^(2 + 2) = BYTE^2 * BYTE^2 /\ 2 + 2 = 4
      BY PowerOfSum
    <3> QED
      BY <1>5, <1>6, <3>1, WideIs
  <2>9. IsBytes(s, 4 * (i + 1))
    <3>1. p + (f + 2) = 4 * (i + 1)
      BY <1>6
    <3> QED
      BY <1>4, <3>1
  <2>10. write_uint16_endian(w, v) = Writer(UINT32, 0, Append(WordsOf(s, i), x))
    <3> HIDE DEF x, buf, top, places
    <3> QED
      BY <1>2, <2>6, <2>7, <2>8
  <2>11. write_uint16_endian(w, v) = Full(s, i + 1, 0)
    <3>1. Full(s, i + 1, 0) = Writer(UINT32, 0, WordsOf(s, i + 1))
      BY <2>9, WordIsFull
    <3>2. Append(WordsOf(s, i), ValueOf(s, 4 * i, 4)) = WordsOf(s, i + 1)
      BY <2>9, OneMoreWord
    <3> HIDE DEF v
    <3> QED
      BY <2>10, <3>1, <3>2
  <2>12. n + 2 = 4 * (i + 1) + 0 /\ i + 1 \in Nat /\ 0 \in 0 .. 3
    BY <1>3, <1>6
  <2> QED
    BY <2>11, <2>12 DEF WriterAt
<1>7. CASE f \in {0, 1}
  <2> DEFINE e == 2 - f
             g == f + 2
  <2>1. /\ e \in 0 .. 8 /\ e + 2 = 4 - f /\ 2 + e = 4 - f /\ f + 2 <= 8 /\ 2 + e <= 8
        /\ f \in 0 .. 8
        /\ 2 \in 0 .. 8 /\ e + 2 <= 8 /\ g \in 0 .. 3 /\ 4 - g = e /\ g = f + 2 /\ n + 2 = 4 * i + g
    BY <1>1, <1>7
  <2> HIDE DEF e, g
  <2>2. Placed(s, p, f, 2, e)
    <3> HIDE DEF p
    <3> QED
      BY <1>3, <1>4, <2>1, PlacesAdd
  <2>3. /\ h * BYTE^(4 - f) + v * BYTE^e = ValueOf(s, p, g) * BYTE^e
        /\ h * BYTE^(4 - f) \in Nat /\ v * BYTE^e \in Nat
    <3> HIDE DEF p
    <3> QED
      BY <1>3, <2>1, <2>2 DEF Placed
  <2>4. w.cur \div UINT16 = BYTE^e /\ w.cur = BYTE^e * BYTE^2
    <3>1. BYTE^(e + 2) \div BYTE^2 = BYTE^e /\ BYTE^(e + 2) = BYTE^e * BYTE^2
      BY <2>1, PowerQuotient, PowerOfSum
    <3> QED
      BY <1>2, <2>1, <3>1, WideIs
  <2>5. v \in Nat
    <3>1. 2 \in Nat
      OBVIOUS
    <3> QED
      BY <3>1, ValueStep
  <2>6. (v * w.cur) \div UINT16 = v * BYTE^e
    <3> DEFINE x == BYTE^e
               y == BYTE^2
    <3>1. x \in Nat /\ y \in Nat \ {0} /\ w.cur = x * y /\ UINT16 = y /\ v * x \in Nat
      BY <2>1, <2>3, <2>4, ByteIs, WideIs
    <3> HIDE DEF x, y, v
    <3>2. \A a, b, c \in Nat : a * (b * c) = (a * b) * c
      OBVIOUS
    <3>3. v * (x * y) = (v * x) * y
      BY <2>5, <3>1, <3>2
    <3>4. ((v * x) * y) \div y = v * x
      BY <3>1, Cancelled
    <3> QED
      BY <3>1, <3>3, <3>4 DEF x
  <2>7. write_uint16_endian(w, v) =
          Writer(w.cur \div UINT16, (v * w.cur) \div UINT16 + w.buf, w.out)
    <3>1. w.cur \notin {UINT16, BYTE}
      BY <1>5, <1>7
    <3> QED
      BY <3>1 DEF write_uint16_endian
  <2>8. v * BYTE^e + h * BYTE^(4 - f) = ValueOf(s, p, g) * BYTE^e
    <3> DEFINE x == h * BYTE^(4 - f)
               y == v * BYTE^e
    <3>1. x + y = ValueOf(s, p, g) * BYTE^e /\ x \in Nat /\ y \in Nat
      BY <2>3
    <3> HIDE DEF x, y
    <3>2. y + x = x + y
      BY <3>1
    <3> QED
      BY <3>1, <3>2 DEF x, y
  <2>9. write_uint16_endian(w, v) = Full(s, i, g)
    BY <1>2, <2>1, <2>4, <2>6, <2>7, <2>8 DEF Full
  <2> QED
    BY <2>1, <2>9 DEF WriterAt
<1> QED
  BY <1>5, <1>6, <1>7

\* Four bytes: they always complete a word.
LEMMA WritesFour ==
  ASSUME NEW s, NEW n \in Nat, IsBytes(s, n + 4), NEW w, WriterAt(w, s, n)
  PROVE  WriterAt(write_uint32_endian(w, ValueOf(s, n, 4)), s, n + 4)
<1>1. PICK f \in 0 .. 3, i \in Nat : n = 4 * i + f /\ w = Full(s, i, f)
  BY DEF WriterAt
<1> DEFINE p == 4 * i
           v == ValueOf(s, n, 4)
           h == ValueOf(s, p, f)
           t == ValueOf(s, p, 4)
           l == ValueOf(s, p + 4, f)
           a == ValueOf(s, p, f + 4)
           d == BYTE^f
           c == BYTE^(4 - f)
           places == UINT32 \div w.cur
           buf == w.buf * places + v
           top == Digits(buf, places, UINT32 * places)
<1>2. w.cur = c /\ w.buf = h * c /\ w.out = WordsOf(s, i)
  BY <1>1 DEF Full, Writer
<1>3. /\ p \in Nat /\ n = p + f /\ p + (f + 4) = n + 4 /\ p + 4 = 4 * (i + 1) /\ i + 1 \in Nat
      /\ f \in 0 .. 8 /\ 4 \in 0 .. 8 /\ f + 4 <= 8 /\ 4 + f = f + 4 /\ 4 + f <= 8
      /\ f + (4 - f) <= 8 /\ f + (4 - f) = 4 /\ 4 - f \in 0 .. 8 /\ (4 - f) + f = 4
      /\ n + 4 = 4 * (i + 1) + f
      /\ (4 - f) + f <= 8
  BY <1>1
<1>4. IsBytes(s, p + (f + 4)) /\ IsBytes(s, p + (4 + f)) /\ IsBytes(s, p + 4)
  <2>1. p + (f + 4) = p + (4 + f) /\ p + 4 \in Nat /\ p + (f + 4) \in Nat /\ p + 4 <= p + (f + 4)
    BY <1>3
  <2>2. IsBytes(s, p + (f + 4))
    BY <1>3
  <2> HIDE DEF p
  <2> QED
    BY <2>1, <2>2, FewerBytes
<1>5. Splits(s, p, f, 4) /\ Splits(s, p, 4, f)
  <2> HIDE DEF p
  <2> QED
    BY <1>3, <1>4, TopBytes
<1>6. /\ a = h * UINT32 + v /\ h \in Nat /\ v \in Nat /\ a \in Nat
      /\ Digits(a, d, BYTE^(4 + f)) = t * d /\ (t * d) \div d = t
      /\ a - t * d = l /\ a = t * d + l /\ t \in Nat /\ l \in Nat
  <2> HIDE DEF p
  <2> QED
    BY <1>3, <1>5, WideIs DEF Splits
<1>7. /\ places = d /\ UINT32 = c * d /\ UINT32 * places = BYTE^(4 + f) /\ c \in Nat /\ d \in Nat
  <2>1. BYTE^(f + (4 - f)) \div BYTE^(4 - f) = BYTE^f
    BY <1>3, PowerQuotient
  <2>2. BYTE^((4 - f) + f) = BYTE^(4 - f) * BYTE^f /\ BYTE^(4 + f) = BYTE^4 * BYTE^f
    BY <1>3, PowerOfSum
  <2>3. c \in Nat /\ d \in Nat
    BY <1>3, ByteIs
  <2> QED
    BY <1>2, <1>3, <2>1, <2>2, <2>3, WideIs
<1>8. write_uint32_endian(w, v) =
        Writer(w.cur, w.buf * UINT32 + v * w.cur - top * w.cur, Append(w.out, top \div places))
  BY DEF write_uint32_endian
<1>9. UINT32 \in Nat
  BY WideIs
<1>10. IsBytes(s, 4 * (i + 1))
  BY <1>3, <1>4
<1>11. Full(s, i + 1, f) = Writer(c, l * c, WordsOf(s, i + 1))
  BY <1>3 DEF Full
<1>12. Append(WordsOf(s, i), t) = WordsOf(s, i + 1)
  BY <1>10, OneMoreWord
<1> HIDE DEF p, v, h, t, l, a, d, c, places, buf
<1>13. buf = a
  <2>1. \A e, g, j \in Nat : (e * g) * j = e * (g * j)
    OBVIOUS
  <2>2. (h * c) * d = h * (c * d)
    BY <1>6, <1>7, <2>1
  <2> QED
    BY <1>2, <1>6, <1>7, <2>2 DEF buf
<1>14. top = t * d /\ top \div places = t
  BY <1>6, <1>7, <1>13
<1>15. w.buf * UINT32 + v * w.cur - top * w.cur = l * c
  <2>1. \A e, g, j, k \in Nat : (e * g) * j + k * g = (e * j + k) * g
    OBVIOUS
  <2>2. (h * c) * UINT32 + v * c = a * c
    BY <1>6, <1>7, <1>9, <2>1
  <2>3. \A e, g, j \in Nat : (e + g) * j - e * j = g * j
    OBVIOUS
  <2> DEFINE td == t * d
  <2>4. td \in Nat /\ a = td + l /\ top = td
    <3>1. \A e, g \in Nat : e * g \in Nat
      OBVIOUS
    <3>2. td \in Nat
      BY <1>6, <1>7, <3>1
    <3> HIDE DEF top
    <3> QED
      BY <1>6, <1>14, <3>2
  <2> HIDE DEF td, top
  <2>5. (td + l) * c - td * c = l * c
    BY <1>6, <1>7, <2>3, <2>4
  <2>6. w.buf * UINT32 + v * w.cur - top * w.cur = ((h * c) * UINT32 + v * c) - td * c
    <3>1. w.buf = h * c /\ w.cur = c /\ top = td
      BY <1>2, <2>4
    <3> DEFINE hc == h * c
    <3>2. hc \in Nat
      <4>1. \A e, g \in Nat : e * g \in Nat
        OBVIOUS
      <4> QED
        BY <1>6, <1>7, <4>1
    <3>3. w.buf = hc
      BY <3>1
    <3> HIDE DEF hc
    <3>4. \A x, y, z \in Nat : x = hc /\ y = c /\ z = td
            => x * UINT32 + v * y - z * y = (hc * UINT32 + v * c) - td * c
      BY <1>6, <1>7, <1>9, <2>4, <3>2
    <3>5. w.buf \in Nat /\ w.cur \in Nat /\ top \in Nat
      BY <1>7, <2>4, <3>1, <3>2, <3>3
    <3> QED
      BY <3>1, <3>3, <3>4, <3>5 DEF hc
  <2>7. ((h * c) * UINT32 + v * c) - td * c = a * c - td * c
    BY ONLY <2>2
  <2>8. a * c = (td + l) * c
    BY <2>4
  <2> QED
    BY ONLY <2>5, <2>6, <2>7, <2>8
<1>16. write_uint32_endian(w, v) = Full(s, i + 1, f)
  <2> HIDE DEF top
  <2> QED
    BY <1>2, <1>8, <1>11, <1>12, <1>14, <1>15
<1> QED
  BY <1>3, <1>16 DEF WriterAt, v

\* Every write adds its bytes behind those that were written before.
LEMMA WritesOn ==
  ASSUME NEW s, NEW n \in Nat, NEW size \in Sizes, IsBytes(s, n + size), NEW w, WriterAt(w, s, n),
         ~(size = 2 /\ w.cur = BYTE)
  PROVE  WriterAt(WriteUint(w, size, ValueOf(s, n, size)), s, n + size)
<1>1. CASE size = 1
  BY <1>1, WritesOne DEF WriteUint
<1>2. CASE size = 2
  BY <1>2, WritesTwo DEF WriteUint
<1>3. CASE size = 4
  BY <1>3, WritesFour DEF WriteUint
<1> QED
  BY <1>1, <1>2, <1>3 DEF Sizes

-----------------------------------------------------------------------------
(* Bytes of words *)

\* The j-th byte of the word after i words.
LEMMA ByteOfWord ==
  ASSUME NEW words, Len(words) \in Nat, NEW i \in 0 .. Len(words) - 1, NEW j \in 1 .. 4
  PROVE  Bytes(words)[4 * i + j] = BytesOf(words[i + 1], 4)[j] /\ 4 * i + j \in 1 .. 4 * Len(words)
<1>1. 4 * i + j \in 1 .. 4 * Len(words)
  OBVIOUS
<1>2. ((4 * i + j) + 3) \div 4 = i + 1 /\ (((4 * i + j) - 1) % 4) + 1 = j
  OBVIOUS
<1> QED
  BY <1>1, <1>2 DEF Bytes

\* Every byte is one of those.
LEMMA BytePlace ==
  ASSUME NEW n \in Nat, NEW k \in 1 .. 4 * n
  PROVE  \E i \in 0 .. n - 1, j \in 1 .. 4 : k = 4 * i + j
<1> DEFINE i == (k - 1) \div 4
           j == ((k - 1) % 4) + 1
<1>1. i \in 0 .. n - 1 /\ j \in 1 .. 4 /\ k = 4 * i + j
  OBVIOUS
<1> QED
  BY <1>1

\* Digits of a number are bytes.
LEMMA DigitsAreBytes ==
  ASSUME NEW x \in Nat, NEW n \in 0 .. 8, NEW j \in 1 .. n
  PROVE  BytesOf(x, n)[j] \in 0 .. BYTE - 1
<1> DEFINE y == BYTE^(n - j)
           q == x \div y
<1>1. n - j \in 0 .. 8 /\ BytesOf(x, n)[j] = q % BYTE
  BY DEF BytesOf
<1>2. y \in Nat \ {0}
  BY <1>1, ByteIs
<1> HIDE DEF y
<1>3. q \in Nat
  BY <1>2, Remainder
<1> HIDE DEF q
<1>4. q % BYTE \in 0 .. BYTE - 1
  BY <1>3, ByteIs, Remainder
<1> QED
  BY <1>1, <1>4

\* Only the last four bytes of a number count.
LEMMA DigitsOfRest ==
  ASSUME NEW x \in Nat, NEW j \in 1 .. 4
  PROVE  BytesOf(x % UINT32, 4)[j] = BytesOf(x, 4)[j]
<1> DEFINE e == 4 - j
           g == j - 1
           y == BYTE^e
           z == BYTE^g
           r == x % UINT32
           q == x \div UINT32
           d == r \div y
<1>1. e \in 0 .. 8 /\ g \in 0 .. 8 /\ g + 1 = j /\ j \in 0 .. 8 /\ j + e = 4 /\ j + e <= 8
  OBVIOUS
<1>2. BytesOf(x, 4)[j] = (x \div y) % BYTE /\ BytesOf(r, 4)[j] = (r \div y) % BYTE
  BY DEF BytesOf
<1>3. UINT32 = BYTE^j * y /\ BYTE^j = BYTE * z /\ y \in Nat \ {0} /\ z \in Nat
  <2> HIDE DEF e, g
  <2>1. BYTE^(j + e) = BYTE^j * BYTE^e
    BY <1>1, PowerOfSum
  <2>2. BYTE^(g + 1) = BYTE * BYTE^g
    BY <1>1, BytePowers
  <2> QED
    BY <1>1, <2>1, <2>2, WideIs, ByteIs
<1>4. r \in Nat /\ q \in Nat /\ x = (UINT32 * q) + r
  <2>1. r \in 0 .. UINT32 - 1 /\ q \in Nat /\ x = (UINT32 * q) + r
    BY WideIs, Remainder
  <2> HIDE DEF r, q
  <2> QED
    BY <2>1, WideIs
<1> HIDE DEF e, g, y, z, r, q
<1>5. d \in Nat /\ r % y \in 0 .. y - 1 /\ r = (y * d) + (r % y)
  BY <1>3, <1>4, Remainder
<1> HIDE DEF d
<1>6. BYTE \in Nat \ {0}
  BY ByteIs
<1> DEFINE zq == z * q
           bzq == BYTE * zq
           m == r % y
           h == bzq + d
<1>7. zq \in Nat /\ bzq \in Nat /\ h \in Nat
  <2>1. \A a, b \in Nat : a * b \in Nat
    OBVIOUS
  <2>2. zq \in Nat
    BY <1>3, <1>4, <2>1
  <2> HIDE DEF zq
  <2>3. bzq \in Nat
    BY <1>6, <2>1, <2>2
  <2> HIDE DEF bzq
  <2> QED
    BY <1>5, <2>2, <2>3
<1>8. x = (y * h) + m
  <2>1. \A a, b, c, f, i, k \in Nat :
          (((a * b) * c) * f) + ((c * i) + k) = (c * ((a * (b * f)) + i)) + k
    OBVIOUS
  <2>2. m \in Nat
    BY <1>3, <1>5
  <2> HIDE DEF m
  <2>3. (((BYTE * z) * y) * q) + ((y * d) + m) = (y * ((BYTE * (z * q)) + d)) + m
    BY <1>3, <1>4, <1>5, <1>6, <2>1, <2>2
  <2>4. x = (((BYTE * z) * y) * q) + ((y * d) + m)
    BY <1>3, <1>4, <1>5 DEF m
  <2> QED
    BY <2>3, <2>4
<1> HIDE DEF m, h
<1>9. x \div y = h
  BY <1>3, <1>5, <1>7, <1>8, QuotientIs DEF m
<1> DEFINE u == d % BYTE
           t == d \div BYTE
<1>10. u \in 0 .. BYTE - 1 /\ t \in Nat /\ d = (BYTE * t) + u
  BY <1>5, <1>6, Remainder
<1> HIDE DEF u, t, zq
<1>11. h = (BYTE * (zq + t)) + u
  BY <1>6, <1>7, <1>10 DEF h
<1>12. h % BYTE = u
  <2>1. zq + t \in Nat
    BY <1>7, <1>10
  <2> DEFINE v == zq + t
  <2> HIDE DEF v
  <2>2. v \in Nat /\ h = (BYTE * v) + u
    BY <1>11, <2>1 DEF v
  <2> QED
    BY <1>6, <1>7, <1>10, <2>2, DivisionIs
<1> QED
  BY <1>2, <1>9, <1>12 DEF u, d, r

\* The words that a stream is read from have its bytes.
LEMMA WordsOfStream ==
  ASSUME NEW words \in Seq(Nat)
  PROVE  /\ WordsAre(words, Bytes(words)) /\ Bytes(words) \in Seq(Nat)
         /\ Len(Bytes(words)) = 4 * Len(words)
<1> DEFINE n == Len(words)
           s == Bytes(words)
<1>1. n \in Nat /\ 4 * n \in Nat /\ \A i \in 0 .. n - 1 : i + 1 \in 1 .. n /\ words[i + 1] \in Nat
  OBVIOUS
<1>2. IsBytes(s, 4 * n)
  <2> SUFFICES ASSUME NEW k \in 1 .. 4 * n PROVE s[k] \in 0 .. BYTE - 1
    BY DEF IsBytes
  <2>1. PICK i \in 0 .. n - 1, j \in 1 .. 4 : k = 4 * i + j
    BY <1>1, BytePlace
  <2>2. s[k] = BytesOf(words[i + 1], 4)[j]
    BY <1>1, <2>1, ByteOfWord
  <2>3. 4 \in 0 .. 8 /\ words[i + 1] \in Nat
    BY <1>1
  <2>4. BytesOf(words[i + 1], 4)[j] \in 0 .. BYTE - 1
    BY <2>3, DigitsAreBytes
  <2> QED
    BY <2>2, <2>4
<1>3. ASSUME NEW i \in 0 .. n - 1 PROVE words[i + 1] % UINT32 = ValueOf(s, 4 * i, 4)
  <2> DEFINE p == 4 * i
             x == words[i + 1] % UINT32
  <2>1. p \in Nat /\ p + 4 \in Nat /\ p + 4 <= 4 * n
    BY <1>1
  <2>2. IsBytes(s, p + 4)
    <3> HIDE DEF p, s, n
    <3> QED
      BY <1>1, <1>2, <2>1, FewerBytes
  <2>3. \A j \in 1 .. 4 : s[p + j] = BytesOf(x, 4)[j]
    <3> TAKE j \in 1 .. 4
    <3>1. s[p + j] = BytesOf(words[i + 1], 4)[j]
      BY <1>1, ByteOfWord
    <3> QED
      BY <1>1, <3>1, DigitsOfRest
  <2>4. x \in 0 .. BYTE^4 - 1
    BY <1>1, WideIs, Remainder
  <2> HIDE DEF p, x, s
  <2>5. ValueOf(s, p, 4) = x
    <3>1. 4 \in 0 .. 8
      OBVIOUS
    <3> QED
      BY <2>1, <2>2, <2>3, <2>4, <3>1, ValueOfBytes
  <2> QED
    BY <2>5 DEF p, x
<1>4. WordsAre(words, s)
  BY <1>1, <1>2, <1>3 DEF WordsAre
<1>5. s \in [1 .. 4 * n -> Nat]
  <2>1. \A k \in 1 .. 4 * n : s[k] \in Nat
    BY <1>2, ByteIs DEF IsBytes
  <2>2. s = [k \in 1 .. 4 * n |-> s[k]]
    BY DEF Bytes
  <2> HIDE DEF s, n
  <2> QED
    BY <2>1, <2>2
<1>6. s \in Seq(Nat) /\ Len(s) = 4 * n
  <2> HIDE DEF s, n
  <2> QED
    BY <1>1, <1>5
<1> QED
  BY <1>4, <1>6

\* And those that are made of bytes have them.
LEMMA BytesOfWords ==
  ASSUME NEW s, NEW n \in Nat, IsBytes(s, 4 * n)
  PROVE  Bytes(WordsOf(s, n)) = [k \in 1 .. 4 * n |-> s[k]]
<1> DEFINE words == WordsOf(s, n)
<1>1. words = [k \in 1 .. n |-> ValueOf(s, 4 * (k - 1), 4)] /\ Len(words) = n
  <2>1. CASE n = 0
    BY <2>1 DEF WordsOf
  <2>2. CASE n # 0
    <3> DEFINE i == n - 1
    <3>1. i \in Nat /\ i + 1 = n
      BY <2>2
    <3>2. IsBytes(s, 4 * (i + 1))
      BY <3>1
    <3> HIDE DEF i
    <3>3. Len(WordsOf(s, i + 1)) = i + 1
      BY <3>1, <3>2, OneMoreWord
    <3> QED
      BY <3>1, <3>3 DEF WordsOf
  <2> QED
    BY <2>1, <2>2
<1>2. ASSUME NEW k \in 1 .. 4 * n PROVE Bytes(words)[k] = s[k]
  <2>1. PICK i \in 0 .. n - 1, j \in 1 .. 4 : k = 4 * i + j
    BY BytePlace
  <2> DEFINE p == 4 * i
  <2>2. /\ i + 1 \in 1 .. n /\ (i + 1) - 1 = i /\ p \in Nat /\ p + 4 \in Nat /\ p + 4 <= 4 * n
        /\ 4 * n \in Nat /\ 4 \in 0 .. 8
    OBVIOUS
  <2>3. words[i + 1] = ValueOf(s, p, 4)
    BY <1>1, <2>2
  <2>4. Bytes(words)[k] = BytesOf(words[i + 1], 4)[j]
    <3> HIDE DEF words
    <3> QED
      BY <1>1, <2>1, ByteOfWord
  <2>5. s[p + j] = s[k]
    BY <2>1
  <2>6. BytesOf(ValueOf(s, p, 4), 4)[j] = s[p + j]
    <3> HIDE DEF p
    <3>1. IsBytes(s, p + 4)
      BY <2>2, FewerBytes
    <3>2. BytesOf(ValueOf(s, p, 4), 4) = [b \in 1 .. 4 |-> s[p + b]]
      BY <2>2, <3>1, ByteOfValue
    <3> QED
      BY <3>2
  <2> QED
    BY <2>3, <2>4, <2>5, <2>6
<1>3. Bytes(words) = [k \in 1 .. 4 * n |-> Bytes(words)[k]]
  BY <1>1 DEF Bytes
<1> QED
  BY <1>2, <1>3

-----------------------------------------------------------------------------
(* What is flushed, and the program that copies a stream *)

\* How many words n bytes take, and those bytes with zeros behind them.
WordsFor(n) == (n + 3) \div 4
Pad(s, n) == [k \in 1 .. 4 * WordsFor(n) |-> IF k <= n THEN s[k] ELSE 0]

\* They are bytes, too.
LEMMA PadIs ==
  ASSUME NEW s, NEW n \in Nat, IsBytes(s, n)
  PROVE  WordsFor(n) \in Nat /\ IsBytes(Pad(s, n), 4 * WordsFor(n)) /\ n <= 4 * WordsFor(n)
<1>1. WordsFor(n) \in Nat /\ n <= 4 * WordsFor(n)
  BY DEF WordsFor
<1>2. IsBytes(Pad(s, n), 4 * WordsFor(n))
  <2> SUFFICES ASSUME NEW k \in 1 .. 4 * WordsFor(n) PROVE Pad(s, n)[k] \in 0 .. BYTE - 1
    BY DEF IsBytes
  <2>1. Pad(s, n)[k] = IF k <= n THEN s[k] ELSE 0
    BY DEF Pad
  <2>2. k <= n => s[k] \in 0 .. BYTE - 1
    BY <1>1 DEF IsBytes
  <2> QED
    BY <2>1, <2>2, ByteIs
<1> QED
  BY <1>1, <1>2

\* The words that are full.
LEMMA FullWords ==
  ASSUME NEW s, NEW t, NEW i \in Nat, IsBytes(s, 4 * i), IsBytes(t, 4 * i),
         \A k \in 1 .. 4 * i : s[k] = t[k]
  PROVE  WordsOf(s, i) = WordsOf(t, i)
<1> SUFFICES ASSUME NEW k \in 1 .. i PROVE ValueOf(s, 4 * (k - 1), 4) = ValueOf(t, 4 * (k - 1), 4)
  BY DEF WordsOf
<1> DEFINE q == 4 * (k - 1)
<1>1. /\ q \in Nat /\ q + 4 \in Nat /\ q + 4 <= 4 * i /\ 4 * i \in Nat /\ 4 \in Nat
      /\ \A j \in 1 .. 4 : q + j \in 1 .. 4 * i
  OBVIOUS
<1> HIDE DEF q
<1>2. IsBytes(s, q + 4) /\ IsBytes(t, q + 4)
  BY <1>1, FewerBytes
<1>3. \A j \in 1 .. 4 : s[q + j] = t[q + j]
  BY <1>1
<1>4. ValueOf(s, q, 4) = ValueOf(t, q, 4)
  BY <1>1, <1>2, <1>3, ValueAgrees
<1> QED
  BY <1>4 DEF q

\* What is flushed are the words of the bytes and the zeros.
LEMMA FlushedIs ==
  ASSUME NEW s, NEW n \in Nat, IsBytes(s, n), NEW w, WriterAt(w, s, n)
  PROVE  Flushed(w) = WordsOf(Pad(s, n), WordsFor(n))
<1>1. PICK f \in 0 .. 3, i \in Nat : n = 4 * i + f /\ w = Full(s, i, f)
  BY DEF WriterAt
<1> DEFINE t == Pad(s, n)
           p == 4 * i
<1>2. w.cur = BYTE^(4 - f) /\ w.buf = ValueOf(s, 4 * i, f) * BYTE^(4 - f) /\ w.out = WordsOf(s, i)
  BY <1>1 DEF Full, Writer
<1>3. w.cur = UINT32 <=> f = 0
  <2>1. 4 - f \in 0 .. 8 /\ 4 \in 0 .. 8 /\ (4 - f = 4 <=> f = 0)
    OBVIOUS
  <2>2. BYTE^(4 - f) = BYTE^4 <=> 4 - f = 4
    BY <2>1, PowerIs
  <2> QED
    BY <1>2, <2>1, <2>2, WideIs
<1>4. WordsFor(n) = IF f = 0 THEN i ELSE i + 1
  BY <1>1 DEF WordsFor
<1>5. IsBytes(t, 4 * WordsFor(n)) /\ WordsFor(n) \in Nat /\ n <= 4 * WordsFor(n)
  BY PadIs
<1>6. \A k \in 1 .. 4 * WordsFor(n) : t[k] = IF k <= n THEN s[k] ELSE 0
  BY DEF Pad
<1> HIDE DEF t
<1>7. WordsOf(s, i) = WordsOf(t, i)
  <2>1. p \in Nat /\ p <= n /\ p <= 4 * WordsFor(n) /\ 4 * WordsFor(n) \in Nat
    BY <1>1, <1>5
  <2>2. IsBytes(s, p) /\ IsBytes(t, p)
    <3> HIDE DEF p
    <3> QED
      BY <1>5, <2>1, FewerBytes
  <2>3. \A k \in 1 .. p : k \in 1 .. 4 * WordsFor(n) /\ k <= n
    BY <2>1
  <2>4. \A k \in 1 .. p : s[k] = t[k]
    BY <1>6, <2>3
  <2> QED
    BY <2>2, <2>4, FullWords
<1>8. CASE f = 0
  BY <1>2, <1>3, <1>4, <1>7, <1>8 DEF Flushed, t
<1>9. CASE f # 0
  <2> DEFINE e == 4 - f
  <2>1. /\ f \in 0 .. 8 /\ e \in 0 .. 8 /\ f + e = 4 /\ f + e <= 8 /\ p \in Nat
        /\ p + 4 = 4 * (i + 1)
        /\ p + 4 = 4 * WordsFor(n) /\ p + f = n /\ (p + f) + e = p + 4 /\ 4 * WordsFor(n) \in Nat
        /\ p + f \in Nat /\ p + f <= p + 4 /\ e \in Nat /\ f \in Nat
    BY <1>1, <1>4, <1>9
  <2> HIDE DEF p, e
  <2>2. IsBytes(t, p + (f + e)) /\ IsBytes(t, (p + f) + e) /\ IsBytes(t, p + f) /\ IsBytes(s, p + f)
    <3>1. IsBytes(t, p + 4) /\ p + 4 \in Nat
      BY <1>5, <2>1
    <3> QED
      BY <2>1, <3>1, FewerBytes
  <2>3. Splits(t, p, f, e)
    BY <2>1, <2>2, TopBytes
  <2>4. ValueOf(t, p + f, e) = 0
    <3>1. ASSUME NEW k \in 1 .. e PROVE t[(p + f) + k] = 0
      <4>1. (p + f) + k \in 1 .. 4 * WordsFor(n) /\ ~((p + f) + k <= n)
        BY <2>1
      <4> QED
        BY <1>6, <4>1
    <3> QED
      BY <2>1, <2>2, <3>1, ValueOfZeros
  <2>5. ValueOf(t, p, f) = ValueOf(s, p, f)
    <3>1. \A k \in 1 .. f : t[p + k] = s[p + k]
      <4> TAKE k \in 1 .. f
      <4>1. p + k \in 1 .. 4 * WordsFor(n) /\ p + k <= n
        BY <2>1
      <4> QED
        BY <1>6, <4>1
    <3>2. p \in Nat /\ f \in Nat
      BY <2>1
    <3>3. IsBytes(t, p + f) /\ IsBytes(s, p + f)
      BY <2>2
    <3> QED
      BY ONLY <3>1, <3>2, <3>3, ValueAgrees, ZenonT(30)
  <2>6. w.buf = ValueOf(t, p, 4)
    <3>1. ValueOf(t, p, 4) = ValueOf(s, p, f) * BYTE^e + 0 /\ ValueOf(t, p, 4) \in Nat
      BY <2>1, <2>3, <2>4, <2>5 DEF Splits
    <3> DEFINE x == ValueOf(s, p, f) * BYTE^e
    <3>2. x \in Nat
      <4>1. ValueOf(s, p, f) \in Nat /\ BYTE^e \in Nat
        BY <2>1, <2>2, ValueStep, ByteIs
      <4>2. \A a, b \in Nat : a * b \in Nat
        OBVIOUS
      <4> QED
        BY <4>1, <4>2
    <3>3. w.buf = x
      BY <1>2 DEF p, e
    <3> HIDE DEF x
    <3>4. x + 0 = x
      BY <3>2
    <3> QED
      BY <3>1, <3>3, <3>4 DEF x
  <2>7. Append(WordsOf(t, i), ValueOf(t, 4 * i, 4)) = WordsOf(t, i + 1)
    <3>1. IsBytes(t, 4 * (i + 1))
      BY <2>1, <2>2
    <3> QED
      BY <3>1, OneMoreWord
  <2>8. Flushed(w) = Append(w.out, w.buf)
    BY <1>3, <1>9 DEF Flushed
  <2> QED
    BY <1>2, <1>4, <1>7, <1>9, <2>6, <2>7, <2>8 DEF p, t
<1> QED
  BY <1>8, <1>9

\* The words that are flushed have the bytes that were written.
LEMMA FlushedBytes ==
  ASSUME NEW s, NEW n \in Nat, IsBytes(s, n), NEW w, WriterAt(w, s, n)
  PROVE  Bytes(Flushed(w)) = Pad(s, n)
<1> DEFINE t == Pad(s, n)
           m == WordsFor(n)
<1>1. IsBytes(t, 4 * m) /\ m \in Nat
  BY PadIs
<1>2. Flushed(w) = WordsOf(t, m)
  BY FlushedIs
<1>3. t = [k \in 1 .. 4 * m |-> t[k]]
  BY DEF Pad
<1> HIDE DEF t, m
<1>4. Bytes(WordsOf(t, m)) = [k \in 1 .. 4 * m |-> t[k]]
  BY <1>1, BytesOfWords
<1> QED
  BY <1>2, <1>3, <1>4 DEF t

\* Both begin at the first byte.
LEMMA ReaderBegins ==
  ASSUME NEW s, IsBytes(s, 0)
  PROVE  ReaderAt(init_reader, s, 0)
<1>1. ValueOf(s, 0, 0) = 0
  <2>1. IsBytes(s, 0 + 0) /\ 0 \in Nat
    OBVIOUS
  <2> QED
    BY <2>1, ValueStep
<1>2. init_reader = Remaining(s, 0, 0, 0)
  BY <1>1, ByteIs DEF init_reader, Remaining
<1>3. 0 + 0 = 4 * 0 /\ 0 \in 0 .. 3 /\ 0 \in Nat
  OBVIOUS
<1> QED
  BY <1>2, <1>3 DEF ReaderAt

\* Before the first byte, nothing is written.
LEMMA WriterBegins ==
  ASSUME NEW s, IsBytes(s, 0)
  PROVE  WriterAt(init_writer, s, 0)
<1>1. ValueOf(s, 0, 0) = 0
  <2>1. IsBytes(s, 0 + 0) /\ 0 \in Nat
    OBVIOUS
  <2> QED
    BY <2>1, ValueStep
<1>2. WordsOf(s, 0) = << >>
  BY DEF WordsOf
<1>3. 4 - 0 = 4 /\ 4 * 0 = 0 /\ 0 * UINT32 = 0
  BY WideIs
<1>4. init_writer = Full(s, 0, 0)
  BY <1>1, <1>2, <1>3, WideIs DEF init_writer, Full, Writer
<1>5. 0 = 4 * 0 + 0 /\ 0 \in 0 .. 3 /\ 0 \in Nat
  OBVIOUS
<1> QED
  BY <1>4, <1>5 DEF WriterAt

Prefix(n) == [k \in 1 .. n |-> Stream[k]]

\* Where the reader and the writer are.
CopyInv ==
  \E n \in 0 .. 4 * Len(Words) :
    /\ taken = Prefix(n) /\ Len(taken) = n
    /\ ReaderAt(input, Stream, n)
    /\ written \in 0 .. n
    /\ ~torn => WriterAt(output, Stream, written)

\* The stream that is read, and what was read of it.
LEMMA StreamIs ==
  /\ WordsAre(Words, Stream) /\ Stream \in Seq(Nat) /\ Len(Stream) = 4 * Len(Words)
  /\ 4 * Len(Words) \in Nat
  /\ \A n \in 0 .. 4 * Len(Words) :
       IsBytes(Stream, n) /\ Prefix(n) \in Seq(Nat) /\ Len(Prefix(n)) = n
<1>1. WordsAre(Words, Stream) /\ Stream \in Seq(Nat) /\ Len(Stream) = 4 * Len(Words)
  BY SerializeAssumption, WordsOfStream DEF Stream
<1>2. 4 * Len(Words) \in Nat /\ IsBytes(Stream, 4 * Len(Words))
  BY <1>1 DEF WordsAre
<1>3. ASSUME NEW n \in 0 .. 4 * Len(Words)
      PROVE  IsBytes(Stream, n) /\ Prefix(n) \in Seq(Nat) /\ Len(Prefix(n)) = n
  <2>1. n \in Nat /\ n <= 4 * Len(Words) /\ \A k \in 1 .. n : k \in 1 .. Len(Stream)
    BY <1>1, <1>2
  <2>2. IsBytes(Stream, n)
    BY <1>2, <2>1, FewerBytes
  <2>3. \A k \in 1 .. n : Stream[k] \in Nat
    BY <1>1, <2>1
  <2>4. Prefix(n) \in [1 .. n -> Nat]
    BY <2>3 DEF Prefix
  <2> QED
    BY <2>1, <2>2, <2>4
<1> QED
  BY <1>1, <1>2, <1>3

\* The bytes of the number that n bytes make up are those.
BytesAre(s, p, n) == BytesOf(ValueOf(s, p, n), n) = [k \in 1 .. n |-> s[p + k]]

\* The bytes that are read are the next of the stream.
LEMMA PrefixGrows ==
  ASSUME NEW n \in Nat, NEW size \in Sizes, n + size <= 4 * Len(Words)
  PROVE  Prefix(n) \o BytesOf(ValueOf(Stream, n, size), size) = Prefix(n + size)
<1>1. /\ n \in 0 .. 4 * Len(Words) /\ n + size \in 0 .. 4 * Len(Words) /\ size \in 0 .. 8
      /\ size \in Nat /\ n + size \in Nat
  BY StreamIs DEF Sizes
<1>2. BytesOf(ValueOf(Stream, n, size), size) = [k \in 1 .. size |-> Stream[n + k]]
  <2>1. IsBytes(Stream, n + size)
    BY <1>1, StreamIs
  <2>2. BytesAre(Stream, n, size)
    <3>1. \A q \in Nat, m \in 0 .. 8 : IsBytes(Stream, q + m) => BytesAre(Stream, q, m)
      BY ByteOfValue DEF BytesAre
    <3> QED
      BY <1>1, <2>1, <3>1
  <2> QED
    BY <2>2 DEF BytesAre
<1> DEFINE a == Prefix(n)
           b == [k \in 1 .. size |-> Stream[n + k]]
           c == Prefix(n + size)
<1>3. a \in Seq(Nat) /\ Len(a) = n /\ c \in Seq(Nat) /\ Len(c) = n + size
  BY <1>1, StreamIs
<1>4. b \in Seq(Nat) /\ Len(b) = size
  <2>1. \A k \in 1 .. size : n + k \in 1 .. Len(Stream)
    BY <1>1, StreamIs
  <2>2. \A k \in 1 .. size : Stream[n + k] \in Nat
    <3>1. Stream \in Seq(Nat)
      BY StreamIs
    <3> QED
      BY <2>1, <3>1
  <2>3. b \in [1 .. size -> Nat]
    BY <2>2
  <2> HIDE DEF b
  <2> QED
    BY <1>1, <2>3
<1>5. \A k \in 1 .. n : a[k] = Stream[k]
  BY DEF Prefix
<1>6. \A k \in 1 .. n + size : c[k] = Stream[k]
  BY DEF Prefix
<1>7. \A k \in 1 .. size : b[k] = Stream[n + k]
  OBVIOUS
<1> HIDE DEF a, b, c
<1>8. a \o b \in Seq(Nat) /\ Len(a \o b) = n + size
  BY <1>1, <1>3, <1>4
<1>9. ASSUME NEW k \in 1 .. n + size PROVE (a \o b)[k] = c[k]
  <2>1. CASE k <= n
    <3>1. k \in 1 .. n
      BY <1>1, <2>1
    <3>2. (a \o b)[k] = a[k]
      BY <1>3, <1>4, <3>1
    <3> QED
      BY <1>5, <1>6, <3>1, <3>2
  <2>2. CASE ~(k <= n)
    <3>1. k - n \in 1 .. size /\ n + (k - n) = k
      BY <1>1, <2>2
    <3>2. (a \o b)[k] = b[k - n]
      <4>1. \A j \in 1 .. Len(a) + Len(b) :
              (a \o b)[j] = IF j <= Len(a) THEN a[j] ELSE b[j - Len(a)]
        BY <1>3, <1>4, ConcatProperties
      <4> QED
        BY <1>3, <1>4, <2>2, <4>1
    <3>3. b[k - n] = Stream[n + (k - n)]
      BY <1>7, <3>1
    <3> QED
      BY <1>6, <3>1, <3>2, <3>3
  <2> QED
    BY <2>1, <2>2
<1>10. a \o b = c
  <2>1. c \in Seq(Nat) /\ Len(c) = n + size /\ n + size \in Nat
    BY <1>1, <1>3
  <2> DEFINE d == a \o b
  <2>2. d \in Seq(Nat) /\ Len(d) = n + size /\ \A k \in 1 .. n + size : d[k] = c[k]
    BY <1>8, <1>9
  <2> HIDE DEF d
  <2>3. d = c
    BY ONLY <2>1, <2>2
  <2> QED
    BY <2>3 DEF d
<1> QED
  BY <1>2, <1>10 DEF a, b, c

\* Nothing is read or written.
LEMMA CopyBegins == StreamInit => CopyInv
<1> HAVE StreamInit
<1>1. 0 \in 0 .. 4 * Len(Words)
  BY StreamIs
<1>2. ReaderAt(input, Stream, 0) /\ WriterAt(output, Stream, 0)
  BY <1>1, StreamIs, ReaderBegins, WriterBegins DEF StreamInit
<1>3. taken = Prefix(0) /\ Len(taken) = 0 /\ written \in 0 .. 0
  BY DEF StreamInit, Prefix
<1> QED
  BY <1>1, <1>2, <1>3 DEF CopyInv

\* A read moves the reader on.
LEMMA CopyReads ==
  ASSUME CopyInv, NEW size \in Sizes, ReadNext(size)
  PROVE  CopyInv'
<1>1. PICK n \in 0 .. 4 * Len(Words) :
        /\ taken = Prefix(n) /\ Len(taken) = n
        /\ ReaderAt(input, Stream, n)
        /\ written \in 0 .. n
        /\ ~torn => WriterAt(output, Stream, written)
  BY DEF CopyInv
<1>2. n + size \in 0 .. 4 * Len(Words) /\ n \in Nat /\ n + size <= 4 * Len(Words) /\ size \in Nat
  BY <1>1, StreamIs DEF ReadNext, Sizes
<1> DEFINE r == ReadUint(Words, input, size)
<1>3. HasRead(r, Stream, n, size)
  BY <1>1, <1>2, StreamIs, ReadsOn
<1>4. input' = r.reader /\ taken' = taken \o BytesOf(r.value, size)
  BY DEF ReadNext
<1> HIDE DEF r
<1>5. /\ ReaderAt(input', Stream, n + size)
      /\ taken' = taken \o BytesOf(ValueOf(Stream, n, size), size)
  BY <1>3, <1>4 DEF HasRead
<1>6. taken' = Prefix(n + size)
  BY <1>1, <1>2, <1>5, PrefixGrows
<1>7. Len(taken') = n + size
  BY <1>2, <1>6, StreamIs
<1>8. written' = written /\ (torn' <=> torn) /\ output' = output
  BY DEF ReadNext
<1>9. written' \in 0 .. n + size
  BY <1>1, <1>2, <1>8
<1>10. ~torn' => WriterAt(output', Stream, written')
  BY <1>1, <1>8
<1> QED
  BY <1>2, <1>5, <1>6, <1>7, <1>9, <1>10 DEF CopyInv, Prefix, Stream

\* A write moves the writer on, unless it tears.
LEMMA CopyWrites ==
  ASSUME CopyInv, NEW size \in Sizes, WriteNext(size)
  PROVE  CopyInv'
<1>1. PICK n \in 0 .. 4 * Len(Words) :
        /\ taken = Prefix(n) /\ Len(taken) = n
        /\ ReaderAt(input, Stream, n)
        /\ written \in 0 .. n
        /\ ~torn => WriterAt(output, Stream, written)
  BY DEF CopyInv
<1>2. /\ written \in Nat /\ size \in Nat /\ written + size \in 0 .. n
      /\ written + size \in 0 .. 4 * Len(Words) /\ written + size \in Nat
  BY <1>1, StreamIs DEF WriteNext, Sizes
<1>3. input' = input /\ taken' = taken /\ written' = written + size
  BY DEF WriteNext
<1>4. ASSUME ~torn' PROVE WriterAt(output', Stream, written')
  <2>1. ~torn /\ ~(size = 2 /\ output.cur = BYTE)
    BY <1>4 DEF WriteNext
  <2>2. ValueOf(taken, written, size) = ValueOf(Stream, written, size)
    <3>1. \A k \in 1 .. size : written + k \in 1 .. n
      BY <1>1, <1>2
    <3>2. \A k \in 1 .. written + size : k \in 1 .. n
      BY <1>1, <1>2
    <3>3. \A k \in 1 .. n : taken[k] = Stream[k]
      BY <1>1 DEF Prefix
    <3>4. IsBytes(Stream, written + size)
      BY <1>2, StreamIs
    <3>5. IsBytes(taken, written + size)
      BY <3>2, <3>3, <3>4 DEF IsBytes
    <3>6. \A k \in 1 .. size : taken[written + k] = Stream[written + k]
      BY <3>1, <3>3
    <3> QED
      BY <1>2, <3>4, <3>5, <3>6, ValueAgrees, ZenonT(30)
  <2>3. WriterAt(WriteUint(output, size, ValueOf(Stream, written, size)), Stream, written + size)
    BY <1>1, <1>2, <2>1, StreamIs, WritesOn
  <2>4. output' = WriteUint(output, size, ValueOf(taken, written, size))
    BY DEF WriteNext
  <2> QED
    BY <1>3, <2>2, <2>3, <2>4
<1> QED
  BY <1>1, <1>2, <1>3, <1>4 DEF CopyInv, Prefix, Stream

\* Then the stream is copied.
LEMMA CopyShows == CopyInv => StreamIsCopied
<1> HAVE CopyInv
<1>1. PICK n \in 0 .. 4 * Len(Words) :
        /\ taken = Prefix(n) /\ Len(taken) = n
        /\ ReaderAt(input, Stream, n)
        /\ written \in 0 .. n
        /\ ~torn => WriterAt(output, Stream, written)
  BY DEF CopyInv
<1>2. n \in Nat /\ written \in Nat /\ written \in 0 .. 4 * Len(Words)
  BY <1>1, StreamIs
<1>3. taken = SubSeq(Stream, 1, Len(taken))
  <2> DEFINE t == SubSeq(Stream, 1, n)
  <2>0. \A k \in 1 .. n : k \in 1 .. Len(Stream)
    BY <1>1, <1>2, StreamIs
  <2>1. \A k \in 1 .. n : Stream[k] \in Nat /\ 1 + k - 1 = k
    <3>1. Stream \in Seq(Nat)
      BY StreamIs
    <3> QED
      BY <1>2, <2>0, <3>1
  <2>2. /\ t \in Seq(Nat) /\ Len(t) = IF 1 <= n THEN n - 1 + 1 ELSE 0
        /\ \A k \in 1 .. n - 1 + 1 : t[k] = Stream[1 + k - 1]
    BY <1>2, <2>1, SubSeqProperties
  <2> HIDE DEF t
  <2>3. Len(t) = n /\ n - 1 + 1 = n
    BY <1>2, <2>2
  <2>4. \A k \in 1 .. n : t[k] = Stream[k]
    BY <2>1, <2>2, <2>3
  <2>5. \A k \in 1 .. n : taken[k] = Stream[k]
    BY <1>1 DEF Prefix
  <2>6. taken \in Seq(Nat) /\ Len(taken) = n
    BY <1>1, StreamIs
  <2>7. taken = t
    <3>1. t \in Seq(Nat) /\ \A k \in 1 .. n : taken[k] = t[k]
      BY <2>2, <2>4, <2>5
    <3> QED
      BY ONLY <1>2, <2>3, <2>6, <3>1
  <2> QED
    BY <1>1, <2>7 DEF t
<1>4. ASSUME Len(taken) < Len(Stream) PROVE peek_uint8(Words, input) = Stream[Len(taken) + 1]
  <2>1. n + 1 <= 4 * Len(Words)
    BY <1>1, <1>2, <1>4, StreamIs
  <2> QED
    BY <1>1, <1>2, <2>1, StreamIs, Peeks
<1>5. ASSUME ~torn
      PROVE  Bytes(Flushed(output)) =
               [k \in 1 .. 4 * ((written + 3) \div 4) |-> IF k <= written THEN taken[k] ELSE 0]
  <2>1. Bytes(Flushed(output)) = Pad(Stream, written)
    BY <1>1, <1>2, <1>5, StreamIs, FlushedBytes
  <2>2. \A k \in 1 .. 4 * ((written + 3) \div 4) : k <= written => k \in 1 .. n
    BY <1>1, <1>2
  <2>3. \A k \in 1 .. n : taken[k] = Stream[k]
    BY <1>1 DEF Prefix
  <2>4. \A k \in 1 .. 4 * ((written + 3) \div 4) :
          (IF k <= written THEN taken[k] ELSE 0) = (IF k <= written THEN Stream[k] ELSE 0)
    BY <2>2, <2>3
  <2> QED
    BY <2>1, <2>4 DEF Pad, WordsFor
<1> QED
  BY <1>3, <1>4, <1>5 DEF StreamIsCopied

\* In whatever pieces a stream is read and written again, no byte of it is lost,
\* repeated or moved, unless two bytes were written across the end of a word.
THEOREM StreamSurvives == StreamSpec => []StreamIsCopied
<1>1. StreamInit => CopyInv
  BY CopyBegins
<1>2. CopyInv /\ [StreamNext]_streamVars => CopyInv'
  <2>1. CopyInv /\ StreamNext => CopyInv'
    BY CopyReads, CopyWrites DEF StreamNext
  <2>2. CopyInv /\ UNCHANGED streamVars => CopyInv'
    BY DEF CopyInv, streamVars, ReaderAt, WriterAt
  <2> QED
    BY <2>1, <2>2
<1>3. CopyInv => StreamIsCopied
  BY CopyShows
<1> QED
  BY <1>1, <1>2, <1>3, PTL DEF StreamSpec

-----------------------------------------------------------------------------
(* Integers of variable length *)

\* Products are numbers.
LEMMA Products == \A a, b \in Nat : a * b \in Nat
OBVIOUS

\* Two digits of any base.
LEMMA TwoDigits ==
  ASSUME NEW b \in Nat \ {0}, NEW q \in 0 .. b - 1, NEW r \in 0 .. b - 1
  PROVE  q + r * b \in 0 .. b * b - 1 /\ (q + r * b) \div b = r /\ (q + r * b) % b = q
<1>1. q + r * b = (b * r) + q /\ q + r * b \in Nat
  BY Products
<1>2. r * b <= (b - 1) * b
  <2>1. \A e, f, g \in Nat : e <= f => e * g <= f * g
    OBVIOUS
  <2> QED
    BY <2>1
<1>3. (b - 1) * b = b * b - b
  OBVIOUS
<1> DEFINE n == q + r * b
           y == r * b
           z == b * b
<1>4. y \in Nat /\ z \in Nat /\ y <= z - b /\ n = q + y
  BY <1>2, <1>3, Products
<1>5. n \in Nat /\ n = (b * r) + q
  BY <1>1
<1>6. n \in 0 .. z - 1
  <2> HIDE DEF n, y, z
  <2> QED
    BY <1>4
<1>7. n \div b = r /\ n % b = q
  <2> HIDE DEF n
  <2> QED
    BY <1>5, DivisionIs
<1> QED
  BY <1>6, <1>7

\* And the digits of a number.
LEMMA DigitsOfTwo ==
  ASSUME NEW b \in Nat \ {0}, NEW v \in 0 .. b * b - 1
  PROVE  v \div b \in 0 .. b - 1 /\ v % b \in 0 .. b - 1 /\ (v % b) + (v \div b) * b = v
<1> DEFINE q == v \div b
           r == v % b
           z == b * b
<1>0. z \in Nat
  BY Products
<1>1. v \in Nat /\ v < z
  <2> HIDE DEF z
  <2> QED
    BY <1>0 DEF z
<1>2. q \in Nat /\ r \in 0 .. b - 1 /\ v = (b * q) + r
  BY <1>1, Remainder
<1> HIDE DEF q, r
<1>3. q < b
  <2> SUFFICES ASSUME b <= q PROVE FALSE
    BY <1>2
  <2>1. \A e, f, g \in Nat : e <= f => g * e <= g * f
    OBVIOUS
  <2>2. b * b <= b * q
    BY <1>2, <2>1
  <2> DEFINE y == b * q
  <2>3. y \in Nat /\ z <= y /\ v = y + r
    BY <1>2, <2>2, Products
  <2> HIDE DEF y, z
  <2> QED
    BY <1>0, <1>1, <1>2, <2>3
<1>4. r + q * b = v
  BY <1>2
<1> QED
  BY <1>2, <1>3, <1>4 DEF q, r

\* The order of the bytes, swapped in each half and then the halves.
LEMMA Swap16 ==
  ASSUME NEW v \in 0 .. UINT16 - 1
  PROVE  byteswap16(v) \in 0 .. UINT16 - 1 /\ byteswap16(byteswap16(v)) = v
<1>1. UINT16 = BYTE * BYTE /\ BYTE \in Nat \ {0}
  <2>1. BYTE^(1 + 1) = BYTE * BYTE^1
    BY BytePowers
  <2> QED
    BY <2>1, WideIs, ByteIs
<1> DEFINE q == v \div BYTE
           r == v % BYTE
           w == q + r * BYTE
<1>2. q \in 0 .. BYTE - 1 /\ r \in 0 .. BYTE - 1 /\ r + q * BYTE = v
  BY <1>1, DigitsOfTwo
<1>3. byteswap16(v) = w
  BY DEF byteswap16
<1> HIDE DEF q, r
<1>4. w \in 0 .. BYTE * BYTE - 1 /\ w \div BYTE = r /\ w % BYTE = q
  BY <1>1, <1>2, TwoDigits
<1>5. byteswap16(w) = (w \div BYTE) + (w % BYTE) * BYTE
  BY DEF byteswap16
<1> HIDE DEF w
<1> QED
  BY <1>1, <1>2, <1>3, <1>4, <1>5

\* The same of four bytes.
LEMMA Swap32 ==
  ASSUME NEW v \in 0 .. UINT32 - 1
  PROVE  byteswap32(v) \in 0 .. UINT32 - 1 /\ byteswap32(byteswap32(v)) = v
<1>1. UINT32 = UINT16 * UINT16 /\ UINT16 \in Nat \ {0}
  <2>1. BYTE^(2 + 2) = BYTE^2 * BYTE^2 /\ 2 + 2 = 4
    BY PowerOfSum
  <2> QED
    BY <2>1, WideIs
<1> DEFINE q == v \div UINT16
           r == v % UINT16
           sq == byteswap16(q)
           sr == byteswap16(r)
           w == sq + sr * UINT16
<1>2. q \in 0 .. UINT16 - 1 /\ r \in 0 .. UINT16 - 1 /\ r + q * UINT16 = v
  BY <1>1, DigitsOfTwo
<1>3. byteswap32(v) = w
  BY DEF byteswap32
<1> HIDE DEF q, r
<1>4. sq \in 0 .. UINT16 - 1 /\ sr \in 0 .. UINT16 - 1 /\ byteswap16(sq) = q /\ byteswap16(sr) = r
  BY <1>2, Swap16
<1> HIDE DEF sq, sr
<1>5. w \in 0 .. UINT16 * UINT16 - 1 /\ w \div UINT16 = sr /\ w % UINT16 = sq
  BY <1>1, <1>4, TwoDigits
<1>6. byteswap32(w) = byteswap16(w \div UINT16) + byteswap16(w % UINT16) * UINT16
  BY DEF byteswap32
<1> HIDE DEF w
<1> QED
  BY <1>1, <1>2, <1>3, <1>4, <1>5, <1>6

Swapped(size, x) ==
  CASE size = 1 -> x [] size = 2 -> byteswap16(x) [] size = 4 -> byteswap32(x)

\* What is swapped twice is as it was.
LEMMA SwappedTwice ==
  ASSUME NEW size \in Sizes, NEW v \in 0 .. BYTE^size - 1
  PROVE  Swapped(size, v) \in 0 .. BYTE^size - 1 /\ Swapped(size, Swapped(size, v)) = v
<1>1. CASE size = 1
  BY <1>1 DEF Swapped
<1>2. CASE size = 2
  BY <1>2, WideIs, Swap16 DEF Swapped
<1>3. CASE size = 4
  BY <1>3, WideIs, Swap32 DEF Swapped
<1> QED
  BY <1>1, <1>2, <1>3 DEF Sizes

\* Zeros, then a mark, then two numbers of some bytes.
Encoded(before, mark, x, y, size) ==
  [k \in 1 .. before + 1 + 2 * size |->
     IF k <= before THEN 0
     ELSE IF k = before + 1 THEN mark
     ELSE IF k <= before + 1 + size THEN BytesOf(x, size)[k - (before + 1)]
     ELSE BytesOf(y, size)[k - (before + 1 + size)]]

IsEncoded(s, before, mark, x, y, size) ==
  /\ IsBytes(s, before + 1 + 2 * size)
  /\ \A k \in 1 .. before : s[k] = 0
  /\ ValueOf(s, before, 1) = mark
  /\ ValueOf(s, before + 1, size) = x /\ ValueOf(s, before + 1 + size, size) = y

\* The number that is one byte.
LEMMA ValueOfOne ==
  ASSUME NEW s, NEW p \in Nat, IsBytes(s, p + 1)
  PROVE  ValueOf(s, p, 1) = s[p + 1] /\ s[p + 1] \in 0 .. BYTE - 1
<1>1. IsBytes(s, p + 0) /\ 1 \in Nat /\ 0 \in Nat /\ p + 1 \in 1 .. p + 1
  BY DEF IsBytes
<1>2. ValueOf(s, p, 1) = ValueOf(s, p, 1 - 1) * BYTE + s[p + 1]
  BY <1>1, ValueStep
<1>3. ValueOf(s, p, 0) = 0 /\ 1 - 1 = 0
  BY <1>1, ValueStep
<1>4. s[p + 1] \in 0 .. BYTE - 1
  BY <1>1 DEF IsBytes
<1> DEFINE c == s[p + 1]
<1>5. 0 * BYTE + c = c
  <2>1. c \in Nat
    BY <1>4, ByteIs
  <2> HIDE DEF c
  <2> QED
    BY <2>1, ByteIs
<1> QED
  BY <1>2, <1>3, <1>4, <1>5

\* They are where a reader expects them.
LEMMA EncodedIs ==
  ASSUME NEW before \in 0 .. 3, NEW mark \in 0 .. BYTE - 1, NEW size \in Sizes,
         NEW x \in 0 .. BYTE^size - 1, NEW y \in 0 .. BYTE^size - 1
  PROVE  IsEncoded(Encoded(before, mark, x, y, size), before, mark, x, y, size)
<1> DEFINE s == Encoded(before, mark, x, y, size)
           n == before + 1 + 2 * size
           p == before + 1
           o == before + 1 + size
<1>1. /\ size \in 0 .. 8 /\ size \in Nat /\ n \in Nat /\ p \in Nat /\ o \in Nat /\ p + size = o
      /\ o + size = n /\ o <= n /\ p <= n /\ p \in 1 .. n /\ before \in Nat /\ size >= 1
  BY DEF Sizes
<1>2. x \in Nat /\ y \in Nat
  BY <1>1, ByteIs
<1>3. \A k \in 1 .. n :
        s[k] = IF k <= before THEN 0
               ELSE IF k = before + 1 THEN mark
               ELSE IF k <= before + 1 + size THEN BytesOf(x, size)[k - (before + 1)]
               ELSE BytesOf(y, size)[k - (before + 1 + size)]
  BY DEF Encoded
<1> HIDE DEF s
<1>4. \A k \in 1 .. before : s[k] = 0
  <2>1. \A k \in 1 .. before : k \in 1 .. n /\ k <= before
    BY <1>1
  <2> QED
    BY <1>3, <2>1
<1>5. s[before + 1] = mark
  <2>1. before + 1 \in 1 .. n /\ ~(before + 1 <= before)
    BY <1>1
  <2> QED
    BY <1>3, <2>1
<1>6. \A k \in 1 .. size : s[p + k] = BytesOf(x, size)[k]
  <2> TAKE k \in 1 .. size
  <2>1. /\ p + k \in 1 .. n /\ ~(p + k <= before) /\ p + k # before + 1
        /\ p + k <= before + 1 + size /\ (p + k) - (before + 1) = k
    BY <1>1
  <2> QED
    BY <1>3, <2>1
<1>7. \A k \in 1 .. size : s[o + k] = BytesOf(y, size)[k]
  <2> TAKE k \in 1 .. size
  <2>1. /\ o + k \in 1 .. n /\ ~(o + k <= before) /\ o + k # before + 1
        /\ ~(o + k <= before + 1 + size) /\ (o + k) - (before + 1 + size) = k
    BY <1>1
  <2> QED
    BY <1>3, <2>1
<1>8. IsBytes(s, n)
  <2> SUFFICES ASSUME NEW k \in 1 .. n PROVE s[k] \in 0 .. BYTE - 1
    BY DEF IsBytes
  <2>1. CASE k <= before
    <3>1. k \in 1 .. before
      BY <2>1
    <3> QED
      BY <1>4, <3>1, ByteIs
  <2>2. CASE k = before + 1
    BY <1>5, <2>2
  <2>3. CASE k > before + 1 /\ k <= o
    <3>1. k - p \in 1 .. size /\ p + (k - p) = k
      BY <1>1, <2>3
    <3>2. s[k] = BytesOf(x, size)[k - p]
      BY <1>6, <3>1
    <3> QED
      BY <1>1, <1>2, <3>1, <3>2, DigitsAreBytes
  <2>4. CASE k > o
    <3>1. k - o \in 1 .. size /\ o + (k - o) = k
      BY <1>1, <2>4
    <3>2. s[k] = BytesOf(y, size)[k - o]
      BY <1>7, <3>1
    <3> QED
      BY <1>1, <1>2, <3>1, <3>2, DigitsAreBytes
  <2> QED
    BY <1>1, <2>1, <2>2, <2>3, <2>4
<1>9. IsBytes(s, p + size) /\ IsBytes(s, o + size) /\ IsBytes(s, before + 1)
  <2> HIDE DEF n, o
  <2> QED
    BY <1>1, <1>8, FewerBytes
<1>10. ValueOf(s, before, 1) = mark
  BY <1>1, <1>5, <1>9, ValueOfOne
<1>11. ValueOf(s, p, size) = x
  <2> HIDE DEF p, o
  <2> QED
    BY <1>1, <1>6, <1>9, ValueOfBytes
<1>12. ValueOf(s, o, size) = y
  <2> HIDE DEF p, o
  <2> QED
    BY <1>1, <1>7, <1>9, ValueOfBytes
<1> QED
  BY <1>4, <1>8, <1>10, <1>11, <1>12 DEF IsEncoded, s

\* The words that bytes make up, read again.
LEMMA WordsOfAre ==
  ASSUME NEW t, NEW m \in Nat, IsBytes(t, 4 * m)
  PROVE  WordsAre(WordsOf(t, m), t) /\ Len(WordsOf(t, m)) = m
<1> DEFINE words == WordsOf(t, m)
<1>1. words = [k \in 1 .. m |-> ValueOf(t, 4 * (k - 1), 4)] /\ Len(words) = m
  <2>1. CASE m = 0
    BY <2>1 DEF WordsOf
  <2>2. CASE m # 0
    <3> DEFINE i == m - 1
    <3>1. i \in Nat /\ i + 1 = m
      BY <2>2
    <3>2. IsBytes(t, 4 * (i + 1))
      BY <3>1
    <3> HIDE DEF i
    <3>3. Len(WordsOf(t, i + 1)) = i + 1
      BY <3>1, <3>2, OneMoreWord
    <3> QED
      BY <3>1, <3>3 DEF WordsOf
  <2> QED
    BY <2>1, <2>2
<1>2. ASSUME NEW i \in 0 .. m - 1
      PROVE  words[i + 1] \in Nat /\ words[i + 1] % UINT32 = ValueOf(t, 4 * i, 4)
  <2> DEFINE p == 4 * i
             x == ValueOf(t, p, 4)
  <2>1. /\ i + 1 \in 1 .. m /\ (i + 1) - 1 = i /\ p \in Nat /\ p + 4 \in Nat /\ p + 4 <= 4 * m
        /\ 4 * m \in Nat /\ 4 \in 0 .. 8
    OBVIOUS
  <2>2. words[i + 1] = x
    BY <1>1, <2>1
  <2>3. x \in 0 .. BYTE^4 - 1
    <3> HIDE DEF p
    <3>1. IsBytes(t, p + 4)
      BY <2>1, FewerBytes
    <3> QED
      BY <2>1, <3>1, ValueBound
  <2> HIDE DEF x, words
  <2>4. x \in Nat /\ x % UINT32 = x
    BY <2>3, WideIs
  <2> QED
    BY <2>2, <2>4 DEF x
<1> HIDE DEF words
<1>3. WordsAre(words, t)
  BY <1>1, <1>2 DEF WordsAre
<1> QED
  BY <1>1, <1>3 DEF words

Start(words, before) ==
  IF before = 0 THEN init_reader
  ELSE [cur |-> BYTE^(4 - before), buf |-> words[1] % BYTE^(4 - before), ptr |-> 2]

\* A reader that begins behind some zeros.
LEMMA StartsBehind ==
  ASSUME NEW t, NEW m \in Nat \ {0}, IsBytes(t, 4 * m), NEW before \in 0 .. 3,
         \A k \in 1 .. before : t[k] = 0
  PROVE  ReaderAt(Start(WordsOf(t, m), before), t, before)
<1>1. CASE before = 0
  <2>1. IsBytes(t, 0)
    BY DEF IsBytes
  <2> QED
    BY <1>1, <2>1, ReaderBegins DEF Start
<1>2. CASE before # 0
  <2> DEFINE e == 4 - before
             c == BYTE^e
             l == ValueOf(t, before, e)
  <2>1. /\ e \in 0 .. 3 /\ e \in 0 .. 8 /\ before \in 0 .. 8 /\ before + e = 4 /\ before + e <= 8
        /\ 0 + 4 <= 4 * m /\ 4 * m \in Nat /\ 0 + before \in Nat /\ 0 + before = before
        /\ before \in Nat
        /\ 0 + before <= 4 /\ 4 <= 4 * m /\ 1 \in 1 .. m /\ 4 * (1 - 1) = 0 /\ before + e = 4 * 1
    BY <1>2
  <2>2. IsBytes(t, 4)
    BY <2>1, FewerBytes
  <2> HIDE DEF e
  <2>3. Splits(t, 0, before, e)
    <3>1. IsBytes(t, 0 + (before + e))
      BY <2>1, <2>2
    <3> QED
      BY <2>1, <3>1, TopBytes
  <2>4. ValueOf(t, 0, before) = 0
    <3>1. IsBytes(t, 0 + before) /\ \A k \in 1 .. before : t[0 + k] = 0
      BY <2>1, <2>2, FewerBytes
    <3> QED
      BY <2>1, <3>1, ValueOfZeros
  <2>5. l \in 0 .. c - 1
    <3>1. IsBytes(t, before + e)
      BY <2>1, <2>2
    <3> QED
      BY <2>1, <3>1, ValueBound
  <2>6. c \in Nat \ {0}
    BY <2>1, ByteIs
  <2>7. ValueOf(t, 0, 4) = l
    <3>1. ValueOf(t, 0, 4) = 0 * c + l
      BY <2>1, <2>3, <2>4 DEF Splits
    <3> HIDE DEF c, l
    <3>2. 0 * c + l = l
      BY <2>5, <2>6
    <3> QED
      BY <3>1, <3>2
  <2>8. WordsOf(t, m)[1] = l
    BY <2>1, <2>7 DEF WordsOf
  <2>9. l % c = l
    <3> HIDE DEF c, l
    <3> QED
      BY <2>5, <2>6
  <2>10. Start(WordsOf(t, m), before) = [cur |-> c, buf |-> l, ptr |-> 2]
    BY <1>2, <2>8, <2>9 DEF Start, e
  <2>11. Start(WordsOf(t, m), before) = Remaining(t, before, e, 1)
    <3>1. 1 + 1 = 2
      OBVIOUS
    <3> QED
      BY <2>10, <3>1 DEF Remaining
  <2> QED
    BY <2>1, <2>11 DEF ReaderAt
<1> QED
  BY <1>1, <1>2

\* The writer after the zeros.
Behind(before) == Writer(BYTE^(4 - before), 0, << >>)

\* It has written the zeros.
LEMMA WritesBehind ==
  ASSUME NEW before \in 0 .. 3, NEW s, IsBytes(s, before), \A k \in 1 .. before : s[k] = 0
  PROVE  WriterAt(Behind(before), s, before)
<1>1. ValueOf(s, 0, before) = 0
  <2>1. /\ IsBytes(s, 0 + before) /\ before \in Nat /\ 0 \in Nat
        /\ \A k \in 1 .. before : s[0 + k] = 0
    OBVIOUS
  <2> QED
    BY <2>1, ValueOfZeros
<1>2. WordsOf(s, 0) = << >>
  BY DEF WordsOf
<1> DEFINE c == BYTE^(4 - before)
<1>3. c \in Nat /\ 4 * 0 = 0
  <2>1. 4 - before \in 0 .. 8
    OBVIOUS
  <2> QED
    BY <2>1, ByteIs
<1>4. 0 * c = 0
  <2> HIDE DEF c
  <2> QED
    BY <1>3
<1>5. Behind(before) = Full(s, 0, before)
  BY <1>1, <1>2, <1>3, <1>4 DEF Full, Behind
<1>6. before = 4 * 0 + before /\ 0 \in Nat
  OBVIOUS
<1> QED
  BY <1>5, <1>6 DEF WriterAt

\* The first byte that is read back.
LEMMA ReadsBack ==
  ASSUME NEW s, NEW before \in 0 .. 3, NEW n \in Nat, before + 1 <= n, IsBytes(s, n),
         \A k \in 1 .. before : s[k] = 0, NEW w, WriterAt(w, s, n)
  PROVE  LET words == Flushed(w) IN
         /\ WordsAre(words, Pad(s, n)) /\ n <= 4 * Len(words)
         /\ HasRead(read_uint8(words, Start(words, before)), Pad(s, n), before, 1)
<1> DEFINE t == Pad(s, n)
           m == WordsFor(n)
           words == Flushed(w)
<1>1. IsBytes(t, 4 * m) /\ m \in Nat /\ n <= 4 * m
  BY PadIs
<1>2. words = WordsOf(t, m)
  BY FlushedIs
<1>3. \A k \in 1 .. before : t[k] = 0
  <2>1. \A k \in 1 .. before : k \in 1 .. 4 * m /\ k <= n
    BY <1>1
  <2> QED
    BY <2>1 DEF Pad
<1> HIDE DEF t, m, words
<1>4. m # 0 /\ before \in Nat /\ before + 1 <= 4 * m
  BY <1>1
<1>5. WordsAre(words, t) /\ Len(words) = m
  BY <1>1, <1>2, WordsOfAre
<1>6. ReaderAt(Start(words, before), t, before)
  BY <1>1, <1>2, <1>3, <1>4, StartsBehind
<1>7. HasRead(read_uint8(words, Start(words, before)), t, before, 1)
  BY <1>4, <1>5, <1>6, ReadsOne
<1> QED
  BY <1>1, <1>5, <1>7 DEF t, words

\* And the two numbers behind it.
LEMMA PairIsRead ==
  ASSUME NEW before \in 0 .. 3, NEW size \in Sizes, NEW s, NEW mark, NEW x, NEW y,
         IsEncoded(s, before, mark, x, y, size), NEW w, WriterAt(w, s, before + 1 + 2 * size)
  PROVE  LET words == Flushed(w)
             first == read_uint8(words, Start(words, before))
         IN  /\ first.value = mark
             /\ Pair(words, first.reader, size) = [lo |-> Swapped(size, x), hi |-> Swapped(size, y)]
<1> DEFINE n == before + 1 + 2 * size
           t == Pad(s, n)
           words == Flushed(w)
           first == read_uint8(words, Start(words, before))
           p == before + 1
           o == before + 1 + size
<1>1. /\ size \in Nat /\ n \in Nat /\ p \in Nat /\ o \in Nat /\ p + size = o /\ p = before + 1
      /\ o + size = n /\ o <= n /\ p <= n /\ before \in Nat /\ size >= 1 /\ 1 \in Nat
  BY DEF Sizes
<1>2. IsBytes(s, n) /\ \A k \in 1 .. before : s[k] = 0
  BY DEF IsEncoded
<1>3. /\ WordsAre(words, t) /\ n <= 4 * Len(words)
      /\ HasRead(first, t, before, 1)
  <2>1. before + 1 <= n
    BY <1>1
  <2> HIDE DEF n
  <2>2. WriterAt(w, s, n)
    BY DEF n
  <2> QED
    BY <1>1, <1>2, <2>1, <2>2, ReadsBack
<1>4. IsBytes(t, 4 * Len(words)) /\ Len(words) \in Nat
  BY <1>3 DEF WordsAre
<1>5. \A k \in 1 .. n : t[k] = s[k]
  <2>1. n <= 4 * WordsFor(n) /\ WordsFor(n) \in Nat
    <3> HIDE DEF n
    <3> QED
      BY <1>1, <1>2, PadIs
  <2>2. \A k \in 1 .. n : k \in 1 .. 4 * WordsFor(n) /\ k <= n
    BY <1>1, <2>1
  <2> HIDE DEF n
  <2> QED
    BY <2>2 DEF Pad
<1> HIDE DEF n, t, words, first
<1>6. ASSUME NEW q \in Nat, NEW a \in Nat, q + a <= n
      PROVE  ValueOf(t, q, a) = ValueOf(s, q, a)
  <2>1. q + a \in Nat /\ q + a <= 4 * Len(words) /\ 4 * Len(words) \in Nat
    BY <1>1, <1>3, <1>4, <1>6
  <2>2. IsBytes(t, q + a) /\ IsBytes(s, q + a)
    BY <1>1, <1>2, <1>4, <1>6, <2>1, FewerBytes
  <2>3. \A k \in 1 .. a : q + k \in 1 .. n
    BY <1>1, <1>6
  <2>4. \A k \in 1 .. a : t[q + k] = s[q + k]
    BY <1>5, <2>3
  <2> QED
    BY <2>2, <2>4, ValueAgrees, ZenonT(30)
<1>7. first.value = mark /\ ReaderAt(first.reader, t, p)
  <2>1. ValueOf(t, before, 1) = ValueOf(s, before, 1)
    BY <1>1, <1>6
  <2> QED
    BY <1>3, <2>1 DEF HasRead, IsEncoded
<1>8. ValueOf(t, p, size) = x /\ ValueOf(t, o, size) = y
  <2>1. ValueOf(s, p, size) = x /\ ValueOf(s, o, size) = y
    BY DEF IsEncoded
  <2> HIDE DEF p, o
  <2>2. p + size <= n /\ o + size <= n
    BY <1>1
  <2> QED
    BY <1>1, <1>6, <2>1, <2>2
<1> HIDE DEF p, o
<1> DEFINE lo == ReadUint(words, first.reader, size)
           hi == ReadUint(words, lo.reader, size)
<1>9. ReaderAt(lo.reader, t, o) /\ lo.value = x
  <2>1. p + size <= 4 * Len(words)
    BY <1>1, <1>3, <1>4
  <2>2. HasRead(lo, t, p, size)
    BY <1>1, <1>3, <1>7, <2>1, ReadsOn
  <2> HIDE DEF lo
  <2> QED
    BY <1>1, <1>8, <2>2 DEF HasRead
<1> HIDE DEF lo
<1>10. hi.value = y
  <2>1. o + size <= 4 * Len(words)
    BY <1>1, <1>3, <1>4
  <2>2. HasRead(hi, t, o, size)
    BY <1>1, <1>3, <1>9, <2>1, ReadsOn
  <2> HIDE DEF hi
  <2> QED
    BY <1>8, <2>2 DEF HasRead
<1>11. Pair(words, first.reader, size) =
         [lo |-> Swapped(size, lo.value), hi |-> Swapped(size, hi.value)]
  BY DEF Pair, Swapped, lo
<1> HIDE DEF hi
<1> QED
  BY <1>7, <1>9, <1>10, <1>11 DEF first, words

\* The mark before a number of so many bytes twice.
Mark(size) == CASE size = 1 -> BYTE - 3 [] size = 2 -> BYTE - 2 [] size = 4 -> BYTE - 1

\* Marks are bytes.
LEMMA MarkIs == \A size \in Sizes : Mark(size) \in 0 .. BYTE - 1
<1> TAKE size \in Sizes
<1>1. BYTE - 3 \in 0 .. BYTE - 1 /\ BYTE - 2 \in 0 .. BYTE - 1 /\ BYTE - 1 \in 0 .. BYTE - 1
  BY ByteIs
<1>2. CASE size = 1
  BY <1>1, <1>2 DEF Mark
<1>3. CASE size = 2
  BY <1>1, <1>3 DEF Mark
<1>4. CASE size = 4
  BY <1>1, <1>4 DEF Mark
<1> QED
  BY <1>2, <1>3, <1>4 DEF Sizes

\* A mark and two numbers are read as one number.
LEMMA LongIsRead ==
  ASSUME NEW size \in Sizes, NEW words, NEW start, NEW l, NEW h, h # 0,
         read_uint8(words, start).value = Mark(size),
         Pair(words, read_uint8(words, start).reader, size) = [lo |-> l, hi |-> h]
  PROVE  read_varint(words, start) = <<l + h * BYTE^size>>
<1> DEFINE first == read_uint8(words, start)
           pair(n) == Pair(words, first.reader, n)
           Sum(n) == pair(n).lo + pair(n).hi * BYTE^n
<1>1. BYTE - 1 # BYTE - 2 /\ BYTE - 1 # BYTE - 3 /\ BYTE - 2 # BYTE - 3
  BY ByteIs
<1>2. read_varint(words, start) =
        CASE first.value = BYTE - 1 -> IF pair(4).hi = 0 THEN NonCanonical ELSE <<Sum(4)>>
          [] first.value = BYTE - 2 -> IF pair(2).hi = 0 THEN NonCanonical ELSE <<Sum(2)>>
          [] first.value = BYTE - 3 ->
               IF pair(1).lo < BYTE - 3 /\ pair(1).hi = 0 THEN NonCanonical ELSE <<Sum(1)>>
          [] OTHER -> <<first.value>>
  BY DEF read_varint
<1>3. first.value = Mark(size) /\ pair(size).hi = h /\ pair(size).lo = l
  OBVIOUS
<1> DEFINE sum == l + h * BYTE^size
<1>4. Sum(size) = sum
  BY <1>3
<1> HIDE DEF first, pair, Sum, sum
<1>5. CASE size = 1
  BY <1>1, <1>2, <1>3, <1>4, <1>5 DEF Mark, sum
<1>6. CASE size = 2
  BY <1>1, <1>2, <1>3, <1>4, <1>6 DEF Mark, sum
<1>7. CASE size = 4
  BY <1>1, <1>2, <1>3, <1>4, <1>7 DEF Mark, sum
<1> QED
  BY <1>5, <1>6, <1>7 DEF Sizes

\* The writer after a mark and a number.
Written(before, size, number) ==
  LET w == write_uint8(Behind(before), Mark(size)) IN
  CASE size = 1 -> write_uint16_endian(w, byteswap16(number))
    [] size = 2 -> write_uint32_endian(w, byteswap32(number))
    [] size = 4 -> write_uint32_endian(
                     write_uint32_endian(w, byteswap32(number % UINT32)),
                     byteswap32(number \div UINT32))

\* Two numbers in a row are one of twice the bytes.
LEMMA TwoInARow ==
  ASSUME NEW before \in 0 .. 3, NEW size \in {1, 2}, NEW s, NEW mark, NEW x, NEW y,
         IsEncoded(s, before, mark, x, y, size)
  PROVE  ValueOf(s, before + 1, 2 * size) = y + x * BYTE^size
<1> DEFINE p == before + 1
<1>1. p \in Nat /\ size \in 0 .. 8 /\ size + size <= 8 /\ size + size = 2 * size
      /\ p + (size + size) = before + 1 + 2 * size /\ p + size = before + 1 + size
  OBVIOUS
<1>2. IsBytes(s, p + (size + size))
  BY <1>1 DEF IsEncoded
<1>3. ValueOf(s, p, size) = x /\ ValueOf(s, p + size, size) = y
  BY <1>1 DEF IsEncoded
<1> HIDE DEF p
<1>4. Splits(s, p, size, size)
  BY <1>1, <1>2, TopBytes
<1>5. ValueOf(s, p, 2 * size) = x * BYTE^size + y /\ x \in Nat /\ y \in Nat /\ BYTE^size \in Nat
  BY <1>1, <1>3, <1>4, ByteIs DEF Splits
<1> DEFINE z == x * BYTE^size
<1>6. z \in Nat
  BY <1>5, Products
<1> HIDE DEF z
<1>7. z + y = y + z
  BY <1>5, <1>6
<1> QED
  BY <1>5, <1>7 DEF z, p

\* A mark and a number are written as two numbers.
LEMMA LongIsWritten ==
  ASSUME NEW before \in 0 .. 3, NEW size \in Sizes, NEW number \in Nat, NEW s,
         IsEncoded(s, before, Mark(size), Swapped(size, number % BYTE^size),
                   Swapped(size, number \div BYTE^size), size),
         ~(before = 2 /\ size = 1)
  PROVE  WriterAt(Written(before, size, number), s, before + 1 + 2 * size)
<1> DEFINE x == Swapped(size, number % BYTE^size)
           y == Swapped(size, number \div BYTE^size)
           n == before + 1 + 2 * size
           p == before + 1
           w0 == Behind(before)
           w1 == write_uint8(w0, Mark(size))
<1>0. IsEncoded(s, before, Mark(size), x, y, size)
  OBVIOUS
<1>1. /\ size \in Nat /\ n \in Nat /\ p \in Nat /\ p <= n /\ before <= n /\ before \in Nat
      /\ p = before + 1
  BY DEF Sizes
<1>2. IsBytes(s, n) /\ (\A k \in 1 .. before : s[k] = 0) /\ ValueOf(s, before, 1) = Mark(size)
  BY <1>0 DEF IsEncoded
<1>3. IsBytes(s, before) /\ IsBytes(s, p)
  <2> HIDE DEF n, p
  <2> QED
    BY <1>1, <1>2, FewerBytes
<1> HIDE DEF w0, x, y
<1>4. WriterAt(w0, s, before)
  BY <1>2, <1>3, WritesBehind DEF w0
<1>5. WriterAt(w1, s, p)
  BY <1>1, <1>2, <1>3, <1>4, WritesOne
<1> HIDE DEF w1
<1>6. CASE size = 1
  <2>1. w1.cur # BYTE
    <3>1. PICK f \in 0 .. 3, i \in Nat : p = 4 * i + f /\ w1 = Full(s, i, f)
      BY <1>5 DEF WriterAt
    <3>2. w1.cur = BYTE^(4 - f)
      BY <3>1 DEF Full, Writer
    <3>3. f # 3
      BY <1>6, <3>1
    <3>4. 4 - f \in 0 .. 8 /\ 1 \in 0 .. 8 /\ 4 - f # 1
      BY <3>3
    <3> QED
      BY <3>2, <3>4, PowerIs, ByteIs
  <2>2. ValueOf(s, p, 2) = byteswap16(number)
    <3>1. ValueOf(s, before + 1, 2 * size) = y + x * BYTE^size
      BY <1>0, <1>6, TwoInARow
    <3>2. 2 * 1 = 2
      OBVIOUS
    <3>3. x = number % BYTE /\ y = number \div BYTE
      BY <1>6, ByteIs DEF x, y, Swapped
    <3> QED
      BY <1>6, <3>1, <3>2, <3>3, ByteIs DEF byteswap16
  <2>3. IsBytes(s, p + 2) /\ p + 2 = n
    BY <1>2, <1>6
  <2>4. Written(before, size, number) = write_uint16_endian(w1, byteswap16(number))
    BY <1>6 DEF Written, w1, w0
  <2> HIDE DEF n, p
  <2>5. WriterAt(write_uint16_endian(w1, ValueOf(s, p, 2)), s, p + 2)
    BY <1>1, <1>5, <2>1, <2>3, WritesTwo
  <2> QED
    BY <2>2, <2>3, <2>4, <2>5 DEF n
<1>7. CASE size = 2
  <2>2. ValueOf(s, p, 4) = byteswap32(number)
    <3>1. ValueOf(s, before + 1, 2 * size) = y + x * BYTE^size
      BY <1>0, <1>7, TwoInARow
    <3>2. 2 * 2 = 4
      OBVIOUS
    <3>3. x = byteswap16(number % UINT16) /\ y = byteswap16(number \div UINT16)
      BY <1>7, WideIs DEF x, y, Swapped
    <3> QED
      BY <1>7, <3>1, <3>2, <3>3, WideIs DEF byteswap32
  <2>3. IsBytes(s, p + 4) /\ p + 4 = n
    BY <1>2, <1>7
  <2>4. Written(before, size, number) = write_uint32_endian(w1, byteswap32(number))
    BY <1>7 DEF Written, w1, w0
  <2> HIDE DEF n, p
  <2>5. WriterAt(write_uint32_endian(w1, ValueOf(s, p, 4)), s, p + 4)
    BY <1>1, <1>5, <2>3, WritesFour
  <2> QED
    BY <2>2, <2>3, <2>4, <2>5 DEF n
<1>8. CASE size = 4
  <2> DEFINE o == before + 1 + size
             w2 == write_uint32_endian(w1, byteswap32(number % UINT32))
  <2>1. o \in Nat /\ p + 4 = o /\ o + 4 = n /\ o <= n
    BY <1>8
  <2>2. ValueOf(s, p, 4) = x /\ ValueOf(s, o, 4) = y
    BY <1>0, <1>8 DEF IsEncoded
  <2>3. x = byteswap32(number % UINT32) /\ y = byteswap32(number \div UINT32)
    BY <1>8, WideIs DEF x, y, Swapped
  <2>4. Written(before, size, number) = write_uint32_endian(w2, byteswap32(number \div UINT32))
    BY <1>8 DEF Written, w1, w0
  <2> HIDE DEF n, p, o, w2
  <2>5. IsBytes(s, p + 4) /\ IsBytes(s, o + 4)
    BY <1>1, <1>2, <2>1, FewerBytes
  <2>6. WriterAt(write_uint32_endian(w1, ValueOf(s, p, 4)), s, p + 4)
    BY <1>1, <1>5, <2>5, WritesFour
  <2>7. WriterAt(w2, s, o)
    BY <2>1, <2>2, <2>3, <2>6 DEF w2
  <2>8. WriterAt(write_uint32_endian(w2, ValueOf(s, o, 4)), s, o + 4)
    BY <2>1, <2>5, <2>7, WritesFour
  <2> QED
    BY <2>1, <2>2, <2>3, <2>4, <2>8 DEF n
<1> QED
  BY <1>6, <1>7, <1>8 DEF Sizes

\* What is read at the beginning of what was written.
Reread(before, w) == read_varint(Flushed(w), Start(Flushed(w), before))

\* Every number that takes a mark is read back.
LEMMA LongRoundTrip ==
  ASSUME NEW before \in 0 .. 3, NEW size \in Sizes,
         NEW number \in Nat, BYTE^size <= number, number < BYTE^size * BYTE^size,
         ~(before = 2 /\ size = 1)
  PROVE  Reread(before, Written(before, size, number)) = <<number>>
<1> DEFINE b == BYTE^size
           l == number % b
           h == number \div b
           x == Swapped(size, l)
           y == Swapped(size, h)
           s == Encoded(before, Mark(size), x, y, size)
           w == Written(before, size, number)
           words == Flushed(w)
<1>1. b \in Nat \ {0}
  BY ByteIs DEF Sizes
<1>2. l \in 0 .. b - 1 /\ h \in 0 .. b - 1 /\ l + h * b = number
  <2>1. b * b \in Nat
    BY <1>1, Products
  <2> HIDE DEF b
  <2>2. number \in 0 .. b * b - 1
    <3> DEFINE z == b * b
    <3>1. number < z /\ z \in Nat
      BY <2>1 DEF b
    <3> HIDE DEF z
    <3>2. number \in 0 .. z - 1
      BY <3>1
    <3> QED
      BY <3>2 DEF z
  <2> QED
    BY <1>1, <2>2, DigitsOfTwo
<1>3. h # 0
  <2> SUFFICES ASSUME h = 0 PROVE FALSE
    OBVIOUS
  <2>1. b <= number
    OBVIOUS
  <2> HIDE DEF b, l, h
  <2>2. h * b = 0
    BY <1>1
  <2> QED
    BY <1>1, <1>2, <2>1, <2>2
<1>4. /\ x \in 0 .. b - 1 /\ y \in 0 .. b - 1
      /\ Swapped(size, x) = l /\ Swapped(size, y) = h
  <2> HIDE DEF l, h
  <2> QED
    BY <1>2, SwappedTwice
<1>5. IsEncoded(s, before, Mark(size), x, y, size)
  <2> HIDE DEF x, y
  <2> QED
    BY <1>4, MarkIs, EncodedIs
<1>6. WriterAt(w, s, before + 1 + 2 * size)
  <2> HIDE DEF s
  <2> QED
    BY <1>5, LongIsWritten
<1> HIDE DEF w, s, x, y, l, h
<1>7. /\ read_uint8(words, Start(words, before)).value = Mark(size)
      /\ Pair(words, read_uint8(words, Start(words, before)).reader, size) =
           [lo |-> Swapped(size, x), hi |-> Swapped(size, y)]
  BY <1>5, <1>6, PairIsRead
<1> DEFINE start == Start(words, before)
<1> HIDE DEF words, start
<1>8. read_varint(words, start) = <<l + h * BYTE^size>>
  BY <1>3, <1>4, <1>7, LongIsRead DEF start
<1> QED
  BY <1>2, <1>8 DEF Reread, words, w, start

\* And every number that is one byte.
LEMMA ShortRoundTrip ==
  ASSUME NEW before \in 0 .. 3, NEW number \in 0 .. BYTE - 1, number \notin BYTE - 3 .. BYTE - 1
  PROVE  Reread(before, write_uint8(Behind(before), number)) = <<number>>
<1> DEFINE s == Encoded(before, number, 0, 0, 1)
           n == before + 1
           t == Pad(s, n)
           w == write_uint8(Behind(before), number)
           words == Flushed(w)
           first == read_uint8(words, Start(words, before))
<1>1. IsEncoded(s, before, number, 0, 0, 1)
  <2>1. 0 \in 0 .. BYTE^1 - 1 /\ 1 \in Sizes
    BY ByteIs DEF Sizes
  <2> QED
    BY <2>1, EncodedIs
<1> HIDE DEF s
<1>2. n \in Nat /\ before \in Nat /\ before <= n /\ n = before + 1 /\ n <= before + 1 + 2 * 1
      /\ before + 1 + 2 * 1 \in Nat
  OBVIOUS
<1>3. /\ IsBytes(s, n) /\ IsBytes(s, before) /\ ValueOf(s, before, 1) = number
      /\ \A k \in 1 .. before : s[k] = 0
  <2> DEFINE m == before + 1 + 2 * 1
  <2>1. IsBytes(s, m) /\ n <= m /\ before <= m /\ m \in Nat
    BY <1>1, <1>2 DEF IsEncoded
  <2> HIDE DEF m, n
  <2>2. IsBytes(s, n) /\ IsBytes(s, before)
    BY <1>2, <2>1, FewerBytes
  <2> QED
    BY <1>1, <2>2 DEF IsEncoded
<1>4. WriterAt(w, s, n)
  <2>1. WriterAt(Behind(before), s, before)
    BY <1>3, WritesBehind
  <2> QED
    BY <1>2, <1>3, <2>1, WritesOne
<1> HIDE DEF w
<1>5. /\ WordsAre(words, t) /\ n <= 4 * Len(words)
      /\ HasRead(first, t, before, 1)
  <2>1. before + 1 <= n
    BY <1>2
  <2> HIDE DEF n
  <2> QED
    BY <1>2, <1>3, <1>4, <2>1, ReadsBack
<1>6. ValueOf(t, before, 1) = number
  <2>1. IsBytes(t, before + 1)
    <3>1. IsBytes(t, 4 * Len(words)) /\ Len(words) \in Nat
      BY <1>5 DEF WordsAre
    <3>2. n <= 4 * Len(words) /\ 4 * Len(words) \in Nat
      BY <1>5, <3>1
    <3> HIDE DEF t, words, n
    <3>3. IsBytes(t, n)
      BY <1>2, <3>1, <3>2, FewerBytes
    <3> QED
      BY <3>3 DEF n
  <2>2. t[before + 1] = s[before + 1]
    <3>1. n <= 4 * WordsFor(n) /\ WordsFor(n) \in Nat
      BY <1>2, <1>3, PadIs
    <3>2. before + 1 \in 1 .. 4 * WordsFor(n) /\ before + 1 <= n
      BY <1>2, <3>1
    <3> QED
      BY <3>2 DEF Pad
  <2>3. ValueOf(t, before, 1) = t[before + 1] /\ ValueOf(s, before, 1) = s[before + 1]
    BY <1>2, <1>3, <2>1, ValueOfOne
  <2> QED
    BY <1>3, <2>2, <2>3
<1>7. first.value = number
  BY <1>5, <1>6 DEF HasRead
<1>8. number # BYTE - 1 /\ number # BYTE - 2 /\ number # BYTE - 3
  <2>1. BYTE - 1 \in BYTE - 3 .. BYTE - 1 /\ BYTE - 2 \in BYTE - 3 .. BYTE - 1
        /\ BYTE - 3 \in BYTE - 3 .. BYTE - 1
    BY ByteIs
  <2> QED
    BY <2>1
<1> DEFINE start == Start(words, before)
<1>9. read_uint8(words, start).value = number
  BY <1>7
<1> HIDE DEF words, start, first
<1>10. read_varint(words, start) = <<number>>
  BY <1>8, <1>9 DEF read_varint
<1> QED
  BY <1>10 DEF Reread, words, start, w

\* A varint is read back as it was written, wherever in a word it begins, for every
\* number of up to eight bytes but the ones that are taken for a mark or torn.
LEMMA VarintIsRead ==
  ASSUME NEW number \in Numbers, NEW before \in 0 .. 3,
         number \notin BYTE - 3 .. BYTE - 1,
         ~(before = 2 /\ number \in BYTE .. UINT16 - 1)
  PROVE  Reread(before, write_varint(Behind(before), number)) = <<number>>
<1>1. number \in Nat /\ number < UINT32 * UINT32
  <2> DEFINE z == UINT32 * UINT32
  <2>1. number \in 0 .. z - 1 /\ z \in Nat
    BY SerializeAssumption, WideIs, Products
  <2> HIDE DEF z
  <2>2. number \in Nat /\ number < z
    BY <2>1
  <2> QED
    BY <2>2 DEF z
<1>2. UINT16 = BYTE^1 * BYTE^1 /\ UINT32 = BYTE^2 * BYTE^2 /\ BYTE^1 = BYTE /\ BYTE < UINT16
      /\ UINT16 < UINT32
  <2>1. BYTE^(1 + 1) = BYTE^1 * BYTE^1 /\ BYTE^(2 + 2) = BYTE^2 * BYTE^2 /\ 1 + 1 = 2 /\ 2 + 2 = 4
    BY PowerOfSum
  <2>2. BYTE^1 < BYTE^2 /\ BYTE^2 < BYTE^4
    BY BytePowersGrow
  <2> QED
    BY <2>1, <2>2, WideIs, ByteIs
<1>3. CASE number < BYTE
  <2>1. write_varint(Behind(before), number) = write_uint8(Behind(before), number)
    BY <1>3 DEF write_varint
  <2>2. number \in 0 .. BYTE - 1
    BY <1>1, <1>3, ByteIs
  <2> QED
    BY <2>1, <2>2, ShortRoundTrip
<1>4. CASE ~(number < BYTE) /\ number < UINT16
  <2>1. write_varint(Behind(before), number) = Written(before, 1, number)
    BY <1>4 DEF write_varint, Written, Mark
  <2>2. BYTE^1 <= number /\ number < BYTE^1 * BYTE^1 /\ before # 2 /\ 1 \in Sizes
    <3>1. number \in BYTE .. UINT16 - 1
      BY <1>1, <1>4, ByteIs, WideIs
    <3> QED
      BY <1>1, <1>2, <1>4, <3>1, ByteIs DEF Sizes
  <2> QED
    BY <1>1, <2>1, <2>2, LongRoundTrip
<1>5. CASE ~(number < UINT16) /\ number < UINT32
  <2>1. ~(number < BYTE)
    BY <1>1, <1>2, <1>5, WideIs, ByteIs
  <2>2. write_varint(Behind(before), number) = Written(before, 2, number)
    BY <1>5, <2>1 DEF write_varint, Written, Mark
  <2>3. BYTE^2 <= number /\ number < BYTE^2 * BYTE^2 /\ 2 \in Sizes
    BY <1>1, <1>2, <1>5, WideIs DEF Sizes
  <2> QED
    BY <1>1, <2>2, <2>3, LongRoundTrip
<1>6. CASE ~(number < UINT32)
  <2>1. ~(number < BYTE) /\ ~(number < UINT16)
    BY <1>1, <1>2, <1>6, WideIs, ByteIs
  <2>2. write_varint(Behind(before), number) = Written(before, 4, number)
    BY <1>6, <2>1 DEF write_varint, Written, Mark
  <2>3. BYTE^4 <= number /\ number < BYTE^4 * BYTE^4 /\ 4 \in Sizes
    BY <1>1, <1>2, <1>6, WideIs DEF Sizes
  <2> QED
    BY <1>1, <2>2, <2>3, LongRoundTrip
<1> QED
  BY <1>3, <1>4, <1>5, <1>6

\* The words are those that were written.
VarintInv ==
  encoding # << >> =>
    /\ source \in Numbers /\ skipped \in 0 .. 3
    /\ encoding = Flushed(write_varint(Behind(skipped), source))

\* So a program reads every varint that it wrote, but for those.
THEOREM VarintsSurvive == VarintSpec => []VarintRoundTrip
<1>1. VarintInit => VarintInv
  BY DEF VarintInit, VarintInv
<1>2. VarintInv /\ [WriteVarint]_varintVars => VarintInv'
  BY DEF VarintInv, WriteVarint, varintVars, Behind
<1>3. VarintInv => VarintRoundTrip
  <2> SUFFICES ASSUME VarintInv, encoding # << >>, ~Misread(source, skipped)
               PROVE  read_varint(encoding, AtVarint) = <<source>>
    BY DEF VarintRoundTrip
  <2>1. /\ source \in Numbers /\ skipped \in 0 .. 3
        /\ encoding = Flushed(write_varint(Behind(skipped), source))
    BY DEF VarintInv
  <2>2. AtVarint = Start(encoding, skipped)
    BY DEF AtVarint, Start
  <2>3. Reread(skipped, write_varint(Behind(skipped), source)) = <<source>>
    BY <2>1, VarintIsRead DEF Misread
  <2> QED
    BY <2>1, <2>2, <2>3 DEF Reread
<1> QED
  BY <1>1, <1>2, <1>3, PTL DEF VarintSpec

-----------------------------------------------------------------------------
(* The money: sums *)

\* The two things that are summed up: amounts of outputs and subsidies of blocks.
Weight(kind, x) == IF kind = "amount" THEN x.amount ELSE Subsidy[x]
Pick(s) == CHOOSE x \in s : TRUE

SumStep(f, kind, s) == IF s = {} THEN 0 ELSE Weight(kind, Pick(s)) + f[s \ {Pick(s)}]
SumIter(kind, S) == CHOOSE f : f = [s \in SUBSET S |-> SumStep(f, kind, s)]
SumOf(kind, S) == SumIter(kind, S)[S]

SumUpto(f, kind, S, k) == \A s \in SUBSET S : Cardinality(s) <= k => f[s] = SumStep(f, kind, s)

\* What is picked from a set is in it.
LEMMA PickFrom ==
  ASSUME NEW s, s # {}
  PROVE  Pick(s) \in s
BY DEF Pick

\* A part of a finite set, and what it is without one of its members.
LEMMA WithoutOne ==
  ASSUME NEW S, IsFiniteSet(S), NEW s \in SUBSET S, NEW x \in s
  PROVE  /\ s \ {x} \in SUBSET S /\ IsFiniteSet(s) /\ Cardinality(s) \in Nat
         /\ Cardinality(s \ {x}) = Cardinality(s) - 1
<1>1. IsFiniteSet(s) /\ Cardinality(s) \in Nat
  BY FS_Subset, FS_CardinalityType
<1>2. Cardinality(s \ {x}) = Cardinality(s) - 1
  BY <1>1, FS_RemoveElement
<1> QED
  BY <1>1, <1>2

\* The recursive function in the definition of a sum exists: it asks
\* only for the sum of a smaller set.
LEMMA SumExists ==
  ASSUME NEW S, IsFiniteSet(S), NEW kind
  PROVE  SumIter(kind, S) = [s \in SUBSET S |-> SumStep(SumIter(kind, S), kind, s)]
<1> DEFINE T == {k \in Nat : \E f : SumUpto(f, kind, S, k)}
           n == Cardinality(S)
<1>0. /\ n \in Nat
      /\ \A s \in SUBSET S : IsFiniteSet(s) /\ Cardinality(s) \in Nat /\ Cardinality(s) <= n
  BY FS_Subset, FS_CardinalityType
<1> HIDE DEF n
<1>1. 0 \in T
  <2> DEFINE f == [s \in SUBSET S |-> 0]
  <2>1. ASSUME NEW s \in SUBSET S, Cardinality(s) <= 0 PROVE s = {}
    <3>1. Cardinality(s) = 0
      BY <1>0, <2>1
    <3> QED
      BY <1>0, <3>1, FS_EmptySet
  <2>2. SumUpto(f, kind, S, 0)
    BY <2>1 DEF SumUpto, SumStep
  <2> HIDE DEF f
  <2> QED
    BY <2>2
<1>2. ASSUME NEW k \in Nat, k \in T PROVE k + 1 \in T
  <2>1. PICK f : SumUpto(f, kind, S, k)
    BY <1>2
  <2> DEFINE g == [s \in SUBSET S |-> SumStep(f, kind, s)]
  <2>2. ASSUME NEW s \in SUBSET S, Cardinality(s) <= k + 1
        PROVE  g[s] = SumStep(g, kind, s)
    <3>1. CASE s = {}
      BY <3>1 DEF SumStep
    <3>2. CASE s # {}
      <4> DEFINE t == s \ {Pick(s)}
      <4>1. t \in SUBSET S /\ Cardinality(t) = Cardinality(s) - 1 /\ Cardinality(s) \in Nat
        BY <3>2, PickFrom, WithoutOne
      <4>2. Cardinality(t) <= k
        BY <2>2, <4>1
      <4>3. f[t] = g[t]
        <5> HIDE DEF t
        <5> QED
          BY <2>1, <4>1, <4>2 DEF SumUpto
      <4>4. g[s] = Weight(kind, Pick(s)) + f[t]
        BY <3>2 DEF SumStep
      <4>5. SumStep(g, kind, s) = Weight(kind, Pick(s)) + g[t]
        <5> HIDE DEF g
        <5> QED
          BY <3>2 DEF SumStep
      <4> QED
        BY <4>3, <4>4, <4>5
    <3> QED
      BY <3>1, <3>2
  <2> HIDE DEF g
  <2>3. SumUpto(g, kind, S, k + 1)
    BY <2>2 DEF SumUpto
  <2> QED
    BY <2>3
<1>3. n \in T
  <2> HIDE DEF T
  <2>1. Nat \subseteq T
    BY <1>1, <1>2, SetInduction
  <2> QED
    BY <1>0, <2>1
<1>4. PICK f : SumUpto(f, kind, S, n)
  BY <1>3
<1> DEFINE g == [s \in SUBSET S |-> SumStep(f, kind, s)]
<1>5. ASSUME NEW s \in SUBSET S PROVE g[s] = SumStep(g, kind, s)
  <2>1. CASE s = {}
    BY <2>1 DEF SumStep
  <2>2. CASE s # {}
    <3> DEFINE t == s \ {Pick(s)}
    <3>1. t \in SUBSET S
      OBVIOUS
    <3>2. f[t] = g[t]
      <4> HIDE DEF t
      <4> QED
        BY <1>0, <1>4, <3>1 DEF SumUpto
    <3>3. g[s] = Weight(kind, Pick(s)) + f[t]
      BY <2>2 DEF SumStep
    <3>4. SumStep(g, kind, s) = Weight(kind, Pick(s)) + g[t]
      <4> HIDE DEF g
      <4> QED
        BY <2>2 DEF SumStep
    <3> QED
      BY <3>2, <3>3, <3>4
  <2> QED
    BY <2>1, <2>2
<1>6. g = [s \in SUBSET S |-> g[s]]
  OBVIOUS
<1> HIDE DEF g
<1>7. g = [s \in SUBSET S |-> SumStep(g, kind, s)]
  BY <1>5, <1>6
<1> QED
  BY <1>7 DEF SumIter

\* The weights in a set are numbers.
Weighs(kind, S) == \A x \in S : Weight(kind, x) \in Nat

\* The parts of the recursion are numbers, and do not depend on the set they are
\* parts of, ...
LEMMA SumOfPart ==
  ASSUME NEW S, IsFiniteSet(S), NEW kind, Weighs(kind, S), NEW s \in SUBSET S
  PROVE  SumIter(kind, S)[s] = SumOf(kind, s) /\ SumOf(kind, s) \in Nat
<1> DEFINE f == SumIter(kind, S)
           g == SumIter(kind, s)
           T == {k \in Nat : \A t \in SUBSET s : Cardinality(t) <= k => f[t] = g[t] /\ g[t] \in Nat}
<1>1. IsFiniteSet(s)
  BY FS_Subset
<1>2. \A t \in SUBSET s : f[t] = SumStep(f, kind, t) /\ g[t] = SumStep(g, kind, t)
  <2>1. f = [t \in SUBSET S |-> SumStep(f, kind, t)] /\ g = [t \in SUBSET s |-> SumStep(g, kind, t)]
    BY <1>1, SumExists
  <2> HIDE DEF f, g
  <2> QED
    BY <2>1
<1> HIDE DEF f, g
<1>3. ASSUME NEW t \in SUBSET s, t = {} PROVE f[t] = g[t] /\ g[t] \in Nat
  <2>1. f[t] = SumStep(f, kind, t) /\ g[t] = SumStep(g, kind, t)
    BY <1>2
  <2>2. SumStep(f, kind, t) = 0 /\ SumStep(g, kind, t) = 0
    BY <1>3 DEF SumStep
  <2> QED
    BY <2>1, <2>2
<1>4. 0 \in T
  <2> SUFFICES ASSUME NEW t \in SUBSET s, Cardinality(t) <= 0 PROVE f[t] = g[t] /\ g[t] \in Nat
    OBVIOUS
  <2>1. IsFiniteSet(t) /\ Cardinality(t) \in Nat
    BY <1>1, FS_Subset, FS_CardinalityType
  <2>2. Cardinality(t) = 0
    BY <2>1
  <2>3. t = {}
    BY <2>1, <2>2, FS_EmptySet
  <2> QED
    BY <1>3, <2>3
<1>5. ASSUME NEW k \in Nat, k \in T PROVE k + 1 \in T
  <2> SUFFICES ASSUME NEW t \in SUBSET s, Cardinality(t) <= k + 1 PROVE f[t] = g[t] /\ g[t] \in Nat
    OBVIOUS
  <2>1. CASE t = {}
    BY <1>3, <2>1
  <2>2. CASE t # {}
    <3> DEFINE x == Pick(t)
               u == t \ {x}
    <3>1. x \in t
      BY <2>2, PickFrom
    <3>2. u \in SUBSET s /\ Cardinality(u) = Cardinality(t) - 1 /\ Cardinality(t) \in Nat
      <4> HIDE DEF x
      <4> QED
        BY <1>1, <3>1, WithoutOne
    <3>3. Cardinality(u) <= k
      BY <3>2
    <3>4. f[t] = Weight(kind, x) + f[u] /\ g[t] = Weight(kind, x) + g[u]
      BY <1>2, <2>2 DEF SumStep
    <3> HIDE DEF u
    <3>5. f[u] = g[u] /\ g[u] \in Nat
      BY <1>5, <3>2, <3>3
    <3>6. Weight(kind, x) \in Nat
      BY <3>1 DEF Weighs
    <3> HIDE DEF x
    <3> QED
      BY <3>4, <3>5, <3>6
  <2> QED
    BY <2>1, <2>2
<1>6. Cardinality(s) \in T
  <2>1. Nat \subseteq T
    <3> HIDE DEF T
    <3> QED
      BY <1>4, <1>5, SetInduction
  <2> QED
    BY <1>1, <2>1, FS_CardinalityType
<1>7. f[s] = g[s] /\ g[s] \in Nat
  <2>1. Cardinality(s) <= Cardinality(s)
    BY <1>1, FS_CardinalityType
  <2> QED
    BY <1>6, <2>1
<1> QED
  BY <1>7 DEF SumOf, f, g

\* Nothing sums up to zero.
LEMMA SumOfNothing ==
  ASSUME NEW kind
  PROVE  SumOf(kind, {}) = 0
<1>1. IsFiniteSet({})
  BY FS_EmptySet
<1> DEFINE f == SumIter(kind, {})
<1>2. f = [s \in SUBSET {} |-> SumStep(f, kind, s)]
  BY <1>1, SumExists
<1> HIDE DEF f
<1>3. f[{}] = SumStep(f, kind, {})
  BY <1>2
<1> QED
  BY <1>3 DEF SumOf, SumStep, f

\* What the picked one adds.
LEMMA SumByPick ==
  ASSUME NEW S, IsFiniteSet(S), NEW kind, Weighs(kind, S), S # {}
  PROVE  SumOf(kind, S) = Weight(kind, Pick(S)) + SumOf(kind, S \ {Pick(S)})
<1> DEFINE f == SumIter(kind, S)
           u == S \ {Pick(S)}
<1>1. f = [s \in SUBSET S |-> SumStep(f, kind, s)]
  BY SumExists
<1>2. f[u] = SumOf(kind, u)
  <2>1. u \in SUBSET S
    OBVIOUS
  <2> HIDE DEF u
  <2> QED
    BY <2>1, SumOfPart
<1> HIDE DEF f
<1>3. f[S] = SumStep(f, kind, S)
  BY <1>1
<1>4. f[S] = Weight(kind, Pick(S)) + f[u]
  BY <1>3 DEF SumStep
<1> QED
  BY <1>2, <1>4 DEF SumOf, f

\* ... nor on the order.
LEMMA SumByAny ==
  ASSUME NEW S, IsFiniteSet(S), NEW kind, Weighs(kind, S), NEW s \in SUBSET S, NEW x \in s
  PROVE  SumOf(kind, s) = Weight(kind, x) + SumOf(kind, s \ {x})
<1> DEFINE Claim(t, y) == SumOf(kind, t) = Weight(kind, y) + SumOf(kind, t \ {y})
           T == {k \in Nat : \A t \in SUBSET S : Cardinality(t) <= k => \A y \in t : Claim(t, y)}
<1>0. \A t \in SUBSET S : /\ IsFiniteSet(t) /\ Cardinality(t) \in Nat /\ Weighs(kind, t)
                          /\ SumOf(kind, t) \in Nat
  BY FS_Subset, FS_CardinalityType, SumOfPart DEF Weighs
<1>1. 0 \in T
  <2> SUFFICES ASSUME NEW t \in SUBSET S, Cardinality(t) <= 0 PROVE t = {}
    OBVIOUS
  <2>1. Cardinality(t) = 0
    BY <1>0
  <2> QED
    BY <1>0, <2>1, FS_EmptySet
<1>2. ASSUME NEW k \in Nat, k \in T PROVE k + 1 \in T
  <2> SUFFICES ASSUME NEW t \in SUBSET S, Cardinality(t) <= k + 1, NEW y \in t PROVE Claim(t, y)
    OBVIOUS
  <2> DEFINE p == Pick(t)
  <2>1. p \in t
    BY PickFrom
  <2>2. Claim(t, p)
    BY <1>0, SumByPick
  <2> HIDE DEF p
  <2>3. CASE y = p
    BY <2>2, <2>3
  <2>4. CASE y # p
    <3> DEFINE tp == t \ {p}
               ty == t \ {y}
               tpy == tp \ {y}
    <3>1. /\ tp \in SUBSET S /\ ty \in SUBSET S /\ tpy \in SUBSET S
          /\ y \in tp /\ p \in ty /\ ty \ {p} = tpy
      BY <2>1, <2>4
    <3>2. Cardinality(tp) <= k /\ Cardinality(ty) <= k
      <4>1. /\ Cardinality(tp) = Cardinality(t) - 1 /\ Cardinality(ty) = Cardinality(t) - 1
            /\ Cardinality(t) \in Nat
        BY <2>1, WithoutOne
      <4> QED
        BY <4>1
    <3>3. Claim(tp, y) /\ Claim(ty, p)
      <4> HIDE DEF tp, ty, Claim
      <4> QED
        BY <1>2, <3>1, <3>2
    <3>4. Weight(kind, y) \in Nat /\ Weight(kind, p) \in Nat
      BY <2>1 DEF Weighs
    <3>5. SumOf(kind, tpy) \in Nat
      BY <1>0, <3>1
    <3>6. /\ SumOf(kind, t) = Weight(kind, p) + SumOf(kind, tp)
          /\ SumOf(kind, tp) = Weight(kind, y) + SumOf(kind, tpy)
          /\ SumOf(kind, ty) = Weight(kind, p) + SumOf(kind, tpy)
      BY <2>2, <3>1, <3>3
    <3> HIDE DEF tp, tpy
    <3>7. SumOf(kind, t) = Weight(kind, y) + SumOf(kind, ty)
      <4> HIDE DEF ty
      <4> QED
        BY <3>4, <3>5, <3>6
    <3> QED
      BY <3>7
  <2> QED
    BY <2>3, <2>4
<1>3. Cardinality(s) \in T
  <2>1. Nat \subseteq T
    <3> HIDE DEF T
    <3> QED
      BY <1>1, <1>2, SetInduction
  <2> QED
    BY <1>0, <2>1
<1>4. Cardinality(s) <= Cardinality(s)
  BY <1>0
<1> QED
  BY <1>3, <1>4

-----------------------------------------------------------------------------
(* The value of outputs *)

Outputs(S) == S \subseteq Output /\ IsFiniteSet(S)

\* The fold that is the value of outputs is such a sum.
LEMMA ValueIs ==
  ASSUME NEW S
  PROVE  Value(S) = SumOf("amount", S)
BY DEF Value, MapThenSumSet, MapThenFoldSet, SumOf, SumIter, SumStep, Weight, Pick

\* Amounts are numbers.
LEMMA OutputsWeigh ==
  ASSUME NEW S, Outputs(S)
  PROVE  Weighs("amount", S)
BY DEF Outputs, Output, Weighs, Weight

\* The value of outputs is a number.
LEMMA ValueIsNumber ==
  ASSUME NEW S, Outputs(S)
  PROVE  Value(S) \in Nat
<1>1. IsFiniteSet(S) /\ Weighs("amount", S) /\ S \in SUBSET S
  BY OutputsWeigh DEF Outputs
<1> QED
  BY <1>1, SumOfPart, ValueIs

\* No outputs are worth nothing.
LEMMA ValueOfNothing == Value({}) = 0 /\ Outputs({})
<1>1. Value({}) = 0
  BY ValueIs, SumOfNothing
<1>2. Outputs({})
  BY FS_EmptySet DEF Outputs
<1> QED
  BY <1>1, <1>2

\* What an output adds to the value of a set.
LEMMA ValueWithout ==
  ASSUME NEW S, Outputs(S), NEW o \in S
  PROVE  /\ Outputs(S \ {o}) /\ o.amount \in Nat
         /\ Value(S) \in Nat /\ Value(S \ {o}) \in Nat
         /\ Value(S) = o.amount + Value(S \ {o})
<1>1. IsFiniteSet(S) /\ Weighs("amount", S) /\ S \in SUBSET S
  BY OutputsWeigh DEF Outputs
<1>2. SumOf("amount", S) = Weight("amount", o) + SumOf("amount", S \ {o})
  BY <1>1, SumByAny
<1>3. Outputs(S \ {o})
  BY <1>1, FS_Subset DEF Outputs
<1>4. o.amount \in Nat /\ Weight("amount", o) = o.amount
  BY DEF Outputs, Output, Weight
<1> QED
  BY <1>2, <1>3, <1>4, ValueIs, ValueIsNumber

\* An output makes a set worth more by its amount at most: nothing if it is in it.
LEMMA ValueWith ==
  ASSUME NEW S, Outputs(S), NEW o \in Output
  PROVE  /\ Outputs(S \union {o}) /\ Value(S) \in Nat /\ Value(S \union {o}) \in Nat
         /\ Value(S \union {o}) <= Value(S) + o.amount
<1>1. Outputs(S \union {o})
  BY FS_AddElement DEF Outputs
<1>2. Value(S) \in Nat /\ Value(S \union {o}) \in Nat /\ o.amount \in Nat
  BY <1>1, ValueIsNumber DEF Output
<1>3. CASE o \in S
  <2>1. S \union {o} = S
    BY <1>3
  <2>2. Outputs(S \union {o}) /\ Value(S \union {o}) = Value(S)
    BY <1>1, <2>1
  <2>3. Value(S) <= Value(S) + o.amount
    BY <1>2
  <2> QED
    BY <1>2, <2>2, <2>3
<1>4. CASE o \notin S
  <2> DEFINE W == S \union {o}
  <2>1. W \ {o} = S /\ o \in W
    BY <1>4
  <2> HIDE DEF W
  <2>2. Outputs(W) /\ Value(W) \in Nat
    BY <1>1, <1>2 DEF W
  <2>3. Value(W) = o.amount + Value(S)
    BY <2>1, <2>2, ValueWithout
  <2>4. Value(W) <= Value(S) + o.amount
    BY <1>2, <2>2, <2>3
  <2> QED
    BY <1>2, <2>2, <2>4 DEF W
<1> QED
  BY <1>3, <1>4

\* The parts of a set of outputs have a value.
LEMMA PartsAreOutputs ==
  ASSUME NEW S, Outputs(S), NEW U \in SUBSET S
  PROVE  Outputs(U) /\ Value(U) \in Nat
<1>1. Outputs(U)
  BY FS_Subset DEF Outputs
<1> QED
  BY <1>1, ValueIsNumber

-----------------------------------------------------------------------------
(* The subsidy *)

Halved(f, h) ==
  IF h = 0 THEN INITIAL_SUBSIDY ELSE IF h % HALVING = 0 THEN f[h - 1] \div 2 ELSE f[h - 1]

\* The reward is halved where the subsidy is.
LEMMA RewardStep ==
  ASSUME NEW h \in Nat, h # 0
  PROVE  compute_block_reward(h) =
           IF h % HALVING = 0 THEN compute_block_reward(h - 1) \div 2
           ELSE compute_block_reward(h - 1)
<1> DEFINE q == h \div HALVING
           r == h % HALVING
<1>0. HALVING \in Nat \ {0} /\ INITIAL_SUBSIDY \in Nat
  BY SubsidyAssumption
<1>1. q \in Nat /\ r \in 0 .. HALVING - 1 /\ h = (HALVING * q) + r
  BY <1>0, Remainder
<1> HIDE DEF q, r
<1>2. CASE r = 0
  <2>1. q # 0
    BY <1>0, <1>1, <1>2
  <2>2. q - 1 \in Nat /\ q = (q - 1) + 1
    BY <1>1, <2>1
  <2>3. HALVING * q = (HALVING * (q - 1)) + HALVING
    BY <1>0, <1>1
  <2>4. h - 1 = (HALVING * (q - 1)) + (HALVING - 1)
    <3> DEFINE y == HALVING * (q - 1)
    <3>1. y \in Int /\ HALVING * q = y + HALVING
      BY <1>0, <1>1, <2>3
    <3> HIDE DEF y
    <3>2. h = y + HALVING
      BY <1>0, <1>1, <1>2, <3>1
    <3>3. h - 1 = y + (HALVING - 1)
      BY <1>0, <3>1, <3>2
    <3> QED
      BY <3>3 DEF y
  <2>5. h - 1 \in Nat /\ HALVING - 1 \in 0 .. HALVING - 1
    BY <1>0
  <2>6. (h - 1) \div HALVING = q - 1
    BY <1>0, <2>2, <2>4, <2>5, DivisionIs
  <2>7. 2^(q - 1) \in Nat \ {0} /\ 2^q = 2 * 2^(q - 1)
    BY <2>2, PowersOfTwo
  <2>8. INITIAL_SUBSIDY \div 2^q = (INITIAL_SUBSIDY \div 2^(q - 1)) \div 2
    BY <1>0, <2>7, HalfOfQuotient
  <2>9. r = h % HALVING /\ q = h \div HALVING
    BY DEF r, q
  <2> QED
    BY <1>2, <2>6, <2>8, <2>9 DEF compute_block_reward
<1>3. CASE r # 0
  <2>1. h - 1 \in Nat /\ r - 1 \in 0 .. HALVING - 1
    BY <1>0, <1>1, <1>3
  <2>2. h - 1 = (HALVING * q) + (r - 1)
    <3> DEFINE y == HALVING * q
    <3>1. y \in Int /\ h = y + r
      BY <1>0, <1>1
    <3> HIDE DEF y
    <3>2. h - 1 = y + (r - 1)
      BY <1>1, <3>1
    <3> QED
      BY <3>2 DEF y
  <2>3. (h - 1) \div HALVING = q
    BY <1>0, <1>1, <2>1, <2>2, DivisionIs
  <2>4. r = h % HALVING /\ q = h \div HALVING
    BY DEF r, q
  <2> QED
    BY <1>3, <2>3, <2>4 DEF compute_block_reward
<1> QED
  BY <1>2, <1>3

\* The first reward is not halved.
LEMMA RewardAtGenesis == compute_block_reward(0) = INITIAL_SUBSIDY
<1>1. HALVING \in Nat \ {0} /\ INITIAL_SUBSIDY \in Nat
  BY SubsidyAssumption
<1>2. 0 \div HALVING = 0
  <2>1. 0 = (HALVING * 0) + 0 /\ 0 \in 0 .. HALVING - 1
    BY <1>1
  <2> QED
    BY <1>1, <2>1, DivisionIs
<1>3. 2^0 = 1 /\ INITIAL_SUBSIDY \div 1 = INITIAL_SUBSIDY
  BY <1>1, PowersOfTwo
<1> QED
  BY <1>2, <1>3 DEF compute_block_reward

\* compute_block_reward is the recursively defined subsidy.
LEMMA RewardIsSubsidy ==
  ASSUME NEW h \in Nat
  PROVE  compute_block_reward(h) = Subsidy[h] /\ Subsidy[h] \in Nat
<1> DEFINE g == [n \in Nat |-> compute_block_reward(n)]
           T == {n \in Nat : compute_block_reward(n) = Subsidy[n]}
<1>1. g = [n \in Nat |-> Halved(g, n)]
  <2>1. ASSUME NEW n \in Nat PROVE g[n] = Halved(g, n)
    <3>1. CASE n = 0
      BY <3>1, RewardAtGenesis DEF Halved
    <3>2. CASE n # 0
      <4>1. n - 1 \in Nat
        BY <3>2
      <4>2. g[n] = compute_block_reward(n) /\ g[n - 1] = compute_block_reward(n - 1)
        BY <4>1
      <4> HIDE DEF g
      <4> QED
        BY <3>2, <4>2, RewardStep DEF Halved
    <3> QED
      BY <3>1, <3>2
  <2>2. g = [n \in Nat |-> g[n]]
    OBVIOUS
  <2> HIDE DEF g
  <2> QED
    BY <2>1, <2>2
<1> HIDE DEF g
<1>2. Subsidy = [n \in Nat |-> Halved(Subsidy, n)]
  <2>1. Subsidy = CHOOSE f : f = [n \in Nat |-> Halved(f, n)]
    BY DEF Subsidy, Halved
  <2>2. \E f : f = [n \in Nat |-> Halved(f, n)]
    BY <1>1
  <2> QED
    BY <2>1, <2>2
<1>3. \A n \in Nat : Subsidy[n] = Halved(Subsidy, n)
  BY <1>2
<1>4. 0 \in T
  BY <1>3, RewardAtGenesis DEF Halved
<1>5. ASSUME NEW n \in Nat, n \in T PROVE n + 1 \in T
  <2>1. n + 1 \in Nat /\ n + 1 # 0 /\ (n + 1) - 1 = n
    OBVIOUS
  <2>2. compute_block_reward(n) = Subsidy[n]
    BY <1>5
  <2>3. compute_block_reward(n + 1) =
          IF (n + 1) % HALVING = 0 THEN compute_block_reward(n) \div 2 ELSE compute_block_reward(n)
    BY <2>1, RewardStep
  <2>4. Subsidy[n + 1] = IF (n + 1) % HALVING = 0 THEN Subsidy[n] \div 2 ELSE Subsidy[n]
    BY <1>3, <2>1 DEF Halved
  <2> QED
    BY <2>1, <2>2, <2>3, <2>4
<1>6. Nat \subseteq T
  <2> HIDE DEF T
  <2> QED
    BY <1>4, <1>5, SetInduction
<1>7. compute_block_reward(h) \in Nat
  <2>1. INITIAL_SUBSIDY \in Nat /\ h \div HALVING \in Nat
    BY SubsidyAssumption, Remainder
  <2>2. 2^(h \div HALVING) \in Nat \ {0}
    BY <2>1, PowersOfTwo
  <2> QED
    BY <2>1, <2>2, Remainder DEF compute_block_reward
<1> QED
  BY <1>6, <1>7

\* The fold that is the money issued is such a sum.
LEMMA IssuedIs ==
  ASSUME NEW h
  PROVE  Issued(h) = SumOf("subsidy", 0 .. h)
BY DEF Issued, MapThenSumSet, MapThenFoldSet, SumOf, SumIter, SumStep, Weight, Pick

\* Before the first block nothing is issued, and a block adds its subsidy.
LEMMA IssuedGrows ==
  /\ Issued(-1) = 0
  /\ \A h \in Nat \union {-1} :
       /\ Issued(h) \in Nat /\ Issued(h + 1) \in Nat /\ Subsidy[h + 1] \in Nat
       /\ Issued(h + 1) = Issued(h) + Subsidy[h + 1]
<1>1. Issued(-1) = 0
  <2>1. 0 .. -1 = {}
    OBVIOUS
  <2> QED
    BY <2>1, IssuedIs, SumOfNothing
<1>2. ASSUME NEW h \in Nat \union {-1}
      PROVE  /\ Issued(h) \in Nat /\ Issued(h + 1) \in Nat /\ Subsidy[h + 1] \in Nat
             /\ Issued(h + 1) = Issued(h) + Subsidy[h + 1]
  <2> DEFINE S == 0 .. h + 1
  <2>1. h + 1 \in Nat /\ h + 1 \in S /\ S \ {h + 1} = 0 .. h /\ S \in SUBSET Nat
    OBVIOUS
  <2>2. IsFiniteSet(S)
    BY <2>1, FS_Interval
  <2> HIDE DEF S
  <2>3. Weighs("subsidy", S) /\ Weight("subsidy", h + 1) = Subsidy[h + 1] /\ Subsidy[h + 1] \in Nat
    BY <2>1, RewardIsSubsidy DEF Weighs, Weight
  <2>4. SumOf("subsidy", S) = Weight("subsidy", h + 1) + SumOf("subsidy", S \ {h + 1})
    BY <2>1, <2>2, <2>3, SumByAny
  <2>5. SumOf("subsidy", S) \in Nat /\ SumOf("subsidy", S \ {h + 1}) \in Nat
    BY <2>2, <2>3, SumOfPart
  <2>6. Issued(h + 1) = SumOf("subsidy", S) /\ Issued(h) = SumOf("subsidy", S \ {h + 1})
    BY <2>1, IssuedIs DEF S
  <2> QED
    BY <2>3, <2>4, <2>5, <2>6
<1> QED
  BY <1>1, <1>2

-----------------------------------------------------------------------------
(* The invariant *)

Running == pc \notin {"idle", "aborted"}

\* What the block at hand has taken of the outputs before it, and made so far.
Spent == utxos \ roots
Created == roots \ utxos
Paid == {o \in Created : o.tx # 0}

Types ==
  /\ height \in Nat \union {-1} /\ Outputs(utxos) /\ Outputs(roots)
  /\ tx \in Nat /\ output_index \in Nat
  /\ total_input_amount \in Nat /\ total_output_amount \in Nat /\ total_fees \in Nat
  /\ pc \in {"idle", "aborted", "transactions", "inputs", "outputs", "coinbase"}

\* What the program counter says about the totals.
Loops ==
  /\ pc = "idle" => total_input_amount = 0 /\ total_output_amount = 0 /\ total_fees = 0
  /\ pc = "transactions" => total_input_amount = 0 /\ total_output_amount = 0
  /\ pc \in {"inputs", "outputs"} => tx # 0
  /\ pc = "coinbase" => tx = 0 /\ total_input_amount = 0

\* Outputs are named by their blocks, so no new one has the name of an old one.
Names ==
  /\ \A o \in utxos : o.height <= height
  /\ Running => \A o \in Created : o.height = height + 1
  /\ Running /\ pc # "coinbase" => Paid = Created

\* What has been created is paid for, and what has not been is in the totals.
Balance ==
  Running =>
    /\ Value(roots) + total_fees + total_input_amount <= Value(utxos) + total_output_amount
    /\ Value(Created) + total_fees + total_input_amount <= Value(Spent) + total_output_amount
    /\ pc = "coinbase" => Value(Paid) + total_fees <= Value(Spent)

IInv == Types /\ Loops /\ Names /\ Balance /\ Value(utxos) <= Issued(height)

\* What a block has spent, made and paid for has a value.
LEMMA PartsOfBlock ==
  ASSUME Types
  PROVE  /\ Outputs(Spent) /\ Outputs(Created) /\ Outputs(Paid)
         /\ Value(Spent) \in Nat /\ Value(Created) \in Nat /\ Value(Paid) \in Nat
         /\ Value(utxos) \in Nat /\ Value(roots) \in Nat /\ Issued(height) \in Nat
<1>1. Outputs(utxos) /\ Outputs(roots) /\ height \in Nat \union {-1}
  BY DEF Types
<1>2. Spent \in SUBSET utxos /\ Created \in SUBSET roots /\ Paid \in SUBSET roots
  BY DEF Spent, Created, Paid
<1> QED
  BY <1>1, <1>2, PartsAreOutputs, ValueIsNumber, IssuedGrows

\* The invariant holds before the first block.
LEMMA InitInv == LedgerInit => IInv
<1> SUFFICES ASSUME LedgerInit PROVE IInv
  OBVIOUS
<1> USE DEF LedgerInit, Init
<1>1. Value(utxos) <= Issued(height)
  BY ValueOfNothing, IssuedGrows
<1>2. Types
  BY ValueOfNothing DEF Types
<1> QED
  BY <1>1, <1>2 DEF IInv, Loops, Names, Balance, Running

\* A run that ends leaves nothing behind.
LEMMA LeaveInv ==
  ASSUME IInv, NEW next \in {"idle", "aborted"}, Leave(next), UNCHANGED <<height, utxos>>
  PROVE  IInv'
<1> USE DEF Leave
<1>1. Types'
  BY ValueOfNothing DEF IInv, Types
<1>2. Loops' /\ Names' /\ Balance'
  BY DEF IInv, Loops, Names, Balance, Running
<1>3. (Value(utxos) <= Issued(height))'
  BY DEF IInv
<1> QED
  BY <1>1, <1>2, <1>3 DEF IInv

\* A block begins with what there is, and owes nothing.
LEMMA StartBlockInv ==
  ASSUME IInv, StartBlock
  PROVE  IInv'
<1> USE DEF StartBlock
<1>1. Types'
  BY DEF IInv, Types
<1>2. Created' = {} /\ Spent' = {} /\ Paid' = {}
  BY DEF Created, Spent, Paid
<1>3. Loops'
  BY DEF IInv, Loops
<1>4. Names'
  BY <1>2 DEF IInv, Names, Running
<1>5. Balance'
  <2>1. total_fees = 0 /\ total_input_amount = 0 /\ total_output_amount = 0
    BY DEF IInv, Loops
  <2>2. Value(utxos) \in Nat
    BY PartsOfBlock DEF IInv
  <2>3. Value(roots') = Value(utxos) /\ Value(Created') = 0 /\ Value(Spent') = 0
    BY <1>2, ValueOfNothing
  <2>4. (total_fees = 0 /\ total_input_amount = 0 /\ total_output_amount = 0)'
    BY <2>1
  <2>5. (Value(roots) + total_fees + total_input_amount <= Value(utxos) + total_output_amount)'
    BY <2>2, <2>3, <2>4
  <2>6. (Value(Created) + total_fees + total_input_amount <= Value(Spent) + total_output_amount)'
    BY <2>3, <2>4
  <2> QED
    BY <2>5, <2>6 DEF Balance
<1>6. (Value(utxos) <= Issued(height))'
  BY DEF IInv
<1> QED
  BY <1>1, <1>3, <1>4, <1>5, <1>6 DEF IInv

\* Totals that balance are as good as others with the same balance.
LEMMA SameBalance ==
  ASSUME NEW v \in Nat, NEW w \in Nat, NEW a \in Nat, NEW b \in Nat, NEW c \in Nat,
         NEW d \in Nat, NEW e \in Nat, NEW f \in Nat,
         d + e - f = a + b - c, v + a + b <= w + c
  PROVE  v + d + e <= w + f
OBVIOUS

\* The steps between transactions take and make nothing.
LEMMA BetweenInv ==
  ASSUME IInv, NextTransaction \/ EndTransaction \/ StartCoinbase
  PROVE  IInv'
<1>1. /\ UNCHANGED <<height, utxos, roots>> /\ Running
      /\ pc' \in {"transactions", "inputs", "coinbase"}
  BY DEF NextTransaction, EndTransaction, StartCoinbase, Running
<1>2. Types'
  BY DEF IInv, Types, NextTransaction, EndTransaction, StartCoinbase
<1>3. Loops'
  BY DEF IInv, Types, Loops, NextTransaction, EndTransaction, StartCoinbase
<1>4. Created' = Created /\ Spent' = Spent /\ Paid' = Paid /\ Running'
  BY <1>1 DEF Created, Spent, Paid, Running
<1>5. pc # "coinbase"
  BY DEF NextTransaction, EndTransaction, StartCoinbase
<1>6. Names'
  BY <1>1, <1>4, <1>5 DEF IInv, Names
<1>7. total_fees' + total_input_amount' - total_output_amount' =
        total_fees + total_input_amount - total_output_amount
  BY DEF IInv, Types, NextTransaction, EndTransaction, StartCoinbase
<1>8. Balance'
  <2>1. /\ total_fees \in Nat /\ total_input_amount \in Nat /\ total_output_amount \in Nat
        /\ total_fees' \in Nat /\ total_input_amount' \in Nat /\ total_output_amount' \in Nat
    BY <1>2 DEF IInv, Types
  <2>2. /\ Value(roots) \in Nat /\ Value(utxos) \in Nat /\ Value(Created) \in Nat
        /\ Value(Spent) \in Nat /\ Value(Paid) \in Nat
    BY PartsOfBlock DEF IInv
  <2>3. /\ Value(roots) + total_fees + total_input_amount <= Value(utxos) + total_output_amount
        /\ Value(Created) + total_fees + total_input_amount <= Value(Spent) + total_output_amount
    BY <1>1 DEF IInv, Balance
  <2>4. /\ Value(roots)' = Value(roots) /\ Value(utxos)' = Value(utxos)
        /\ Value(Created)' = Value(Created) /\ Value(Spent)' = Value(Spent)
        /\ Value(Paid)' = Value(Paid)
    BY <1>1, <1>4
  <2>5. (Value(roots) + total_fees + total_input_amount <= Value(utxos) + total_output_amount)'
    BY <1>7, <2>1, <2>2, <2>3, <2>4, SameBalance
  <2>6. (Value(Created) + total_fees + total_input_amount <= Value(Spent) + total_output_amount)'
    BY <1>7, <2>1, <2>2, <2>3, <2>4, SameBalance
  <2>7. ASSUME pc' = "coinbase" PROVE (Value(Paid) + total_fees <= Value(Spent))'
    <3>1. StartCoinbase
      BY <2>7 DEF NextTransaction, EndTransaction
    <3>2. total_input_amount = 0 /\ total_output_amount = 0 /\ total_fees' = total_fees
      BY <3>1 DEF IInv, Loops, StartCoinbase
    <3>3. Value(Paid) = Value(Created)
      BY <1>1, <1>5 DEF IInv, Names
    <3> QED
      BY <2>1, <2>2, <2>3, <2>4, <3>2, <3>3
  <2> QED
    BY <2>5, <2>6, <2>7 DEF Balance
<1>9. (Value(utxos) <= Issued(height))'
  BY <1>1 DEF IInv
<1> QED
  BY <1>2, <1>3, <1>6, <1>8, <1>9 DEF IInv

\* An output that is spent goes from the set into the total, whether it was there
\* before the block or has been created in it.
LEMMA ApplyInputInv ==
  ASSUME IInv, NEW coin \in roots, ApplyInput(coin)
  PROVE  IInv'
<1>1. /\ pc = "inputs" /\ roots' = roots \ {coin}
      /\ UNCHANGED <<height, utxos, pc, tx, total_output_amount, total_fees>>
      /\ total_input_amount' = total_input_amount + coin.amount
  BY DEF ApplyInput
<1>2. /\ Outputs(roots \ {coin}) /\ coin.amount \in Nat /\ Value(roots \ {coin}) \in Nat
      /\ Value(roots) = coin.amount + Value(roots \ {coin})
  BY ValueWithout DEF IInv, Types
<1>3. Types'
  BY <1>1, <1>2 DEF IInv, Types, ApplyInput
<1>4. Loops'
  BY <1>1 DEF IInv, Loops
<1>5. /\ total_fees \in Nat /\ total_input_amount \in Nat /\ total_output_amount \in Nat
      /\ Value(utxos) \in Nat /\ Value(Created) \in Nat /\ Value(Spent) \in Nat /\ Running
  BY <1>1, PartsOfBlock DEF IInv, Types, Running
<1>6. /\ Value(roots) + total_fees + total_input_amount <= Value(utxos) + total_output_amount
      /\ Value(Created) + total_fees + total_input_amount <= Value(Spent) + total_output_amount
  BY <1>5 DEF IInv, Balance
<1>7. Created' = Created \ {coin} /\ Paid' = {o \in Created' : o.tx # 0}
  BY <1>1 DEF Created, Paid
<1>8. Names'
  BY <1>1, <1>5, <1>7 DEF IInv, Names, Running, Paid
<1>9. (Value(roots) + total_fees + total_input_amount <= Value(utxos) + total_output_amount)'
  BY <1>1, <1>2, <1>5, <1>6
<1>10. (Value(Created) + total_fees + total_input_amount <= Value(Spent) + total_output_amount)'
  <2>1. CASE coin \in utxos
    <3>1. Created' = Created /\ Spent' \ {coin} = Spent /\ coin \in Spent'
      BY <1>1, <2>1 DEF Created, Spent
    <3>2. Outputs(Spent')
      <4>1. Spent' \in SUBSET utxos
        BY <1>1 DEF Spent
      <4> QED
        BY <4>1, PartsAreOutputs DEF IInv, Types
    <3>3. Value(Spent') = coin.amount + Value(Spent)
      BY <3>1, <3>2, ValueWithout
    <3> QED
      BY <1>1, <1>2, <1>5, <1>6, <3>1, <3>3
  <2>2. CASE coin \notin utxos
    <3>1. coin \in Created /\ Spent' = Spent
      BY <1>1, <2>2 DEF Created, Spent
    <3>2. /\ Value(Created) = coin.amount + Value(Created \ {coin})
          /\ Value(Created \ {coin}) \in Nat
      BY <3>1, PartsOfBlock, ValueWithout DEF IInv
    <3> QED
      BY <1>1, <1>2, <1>5, <1>6, <1>7, <3>1, <3>2
  <2> QED
    BY <2>1, <2>2
<1>11. Balance'
  BY <1>1, <1>9, <1>10 DEF Balance
<1>12. (Value(utxos) <= Issued(height))'
  BY <1>1 DEF IInv
<1> QED
  BY <1>3, <1>4, <1>8, <1>11, <1>12 DEF IInv

\* An output that is inserted adds to the total what it adds to the set.
LEMMA InsertInv ==
  ASSUME IInv, NEW amount \in Nat, ValidateOutput(amount) \/ ValidateCoinbaseOutput(amount)
  PROVE  IInv'
<1> DEFINE o == [height |-> height + 1, tx |-> tx, vout |-> output_index, amount |-> amount]
<1>1. /\ roots' = roots \union {o}
      /\ UNCHANGED <<height, utxos, tx, total_input_amount, total_fees>>
      /\ total_output_amount' = total_output_amount + amount /\ output_index' = output_index + 1
  BY DEF ValidateOutput, ValidateCoinbaseOutput, InsertOutput
<1>2. \/ pc \in {"inputs", "outputs"} /\ pc' = "outputs"
      \/ pc = "coinbase" /\ pc' = "coinbase"
  BY DEF ValidateOutput, ValidateCoinbaseOutput
<1>3. o \in Output /\ o.amount = amount /\ o.height = height + 1 /\ o.tx = tx
  BY DEF IInv, Types, Output
<1> HIDE DEF o
<1>4. /\ Outputs(roots \union {o}) /\ Value(roots \union {o}) \in Nat
      /\ Value(roots \union {o}) <= Value(roots) + amount
  BY <1>3, ValueWith DEF IInv, Types
<1>5. Types'
  BY <1>1, <1>2, <1>4 DEF IInv, Types
<1>6. Loops'
  BY <1>1, <1>2 DEF IInv, Loops
<1>7. /\ total_fees \in Nat /\ total_input_amount \in Nat /\ total_output_amount \in Nat
      /\ Value(utxos) \in Nat /\ Value(roots) \in Nat /\ Value(Created) \in Nat
      /\ Value(Spent) \in Nat /\ Running /\ Running'
  BY <1>2, PartsOfBlock DEF IInv, Types, Running
<1>8. /\ Value(roots) + total_fees + total_input_amount <= Value(utxos) + total_output_amount
      /\ Value(Created) + total_fees + total_input_amount <= Value(Spent) + total_output_amount
      /\ pc = "coinbase" => Value(Paid) + total_fees <= Value(Spent)
  BY <1>7 DEF IInv, Balance
<1>9. o \notin utxos
  <2>1. height \in Int /\ \A x \in utxos : x.height <= height
    BY DEF IInv, Types, Names
  <2> QED
    BY <1>3, <2>1
<1>10. Created' = Created \union {o} /\ Spent' = Spent
  BY <1>1, <1>9 DEF Created, Spent
<1>11. Paid' = IF tx = 0 THEN Paid ELSE Paid \union {o}
  BY <1>3, <1>10 DEF Paid
<1>12. Names'
  <2>1. \A x \in Created' : x.height = height + 1
    BY <1>3, <1>7, <1>10 DEF IInv, Names
  <2>2. ASSUME pc' # "coinbase" PROVE Paid' = Created'
    <3>1. pc # "coinbase" /\ tx # 0
      BY <1>2, <2>2 DEF IInv, Loops
    <3>2. Paid = Created
      BY <1>7, <3>1 DEF IInv, Names
    <3> QED
      BY <1>10, <1>11, <3>1, <3>2
  <2>3. (\A x \in utxos : x.height <= height)'
    BY <1>1 DEF IInv, Names
  <2> QED
    BY <1>1, <2>1, <2>2, <2>3 DEF Names
<1>13. Balance'
  <2>1. (Value(roots) + total_fees + total_input_amount <= Value(utxos) + total_output_amount)'
    BY <1>1, <1>4, <1>7, <1>8
  <2>2. Value(Created') \in Nat /\ Value(Created') <= Value(Created) + amount
    BY <1>3, <1>10, PartsOfBlock, ValueWith DEF IInv
  <2>3. (Value(Created) + total_fees + total_input_amount <= Value(Spent) + total_output_amount)'
    BY <1>1, <1>7, <1>8, <1>10, <2>2
  <2>4. ASSUME pc' = "coinbase" PROVE (Value(Paid) + total_fees <= Value(Spent))'
    <3>1. pc = "coinbase" /\ tx = 0
      BY <1>2, <2>4 DEF IInv, Loops
    <3> QED
      BY <1>1, <1>8, <1>10, <1>11, <3>1
  <2> QED
    BY <2>1, <2>3, <2>4 DEF Balance
<1>14. (Value(utxos) <= Issued(height))'
  BY <1>1 DEF IInv
<1> QED
  BY <1>5, <1>6, <1>12, <1>13, <1>14 DEF IInv

\* The coinbase gets at most the fees and the subsidy.
LEMMA CoinbaseIsCovered ==
  ASSUME IInv, EndCoinbase
  PROVE  /\ Value(roots) <= Value(utxos) + Subsidy[height + 1]
         /\ Value(Created) <= Value(Spent) + Subsidy[height + 1]
         /\ Value(Paid) <= Value(Spent)
         /\ Subsidy[height + 1] \in Nat
<1>1. pc = "coinbase" /\ total_output_amount <= compute_block_reward(height + 1) + total_fees
  BY DEF EndCoinbase, CoinbaseCovered
<1>2. height + 1 \in Nat
  BY DEF IInv, Types
<1>3. compute_block_reward(height + 1) = Subsidy[height + 1] /\ Subsidy[height + 1] \in Nat
  BY <1>2, RewardIsSubsidy
<1>4. /\ total_fees \in Nat /\ total_output_amount \in Nat /\ total_input_amount = 0
      /\ Value(utxos) \in Nat /\ Value(roots) \in Nat /\ Value(Created) \in Nat
      /\ Value(Spent) \in Nat /\ Value(Paid) \in Nat
  BY <1>1, PartsOfBlock DEF IInv, Types, Loops
<1>5. /\ Value(roots) + total_fees + total_input_amount <= Value(utxos) + total_output_amount
      /\ Value(Created) + total_fees + total_input_amount <= Value(Spent) + total_output_amount
      /\ Value(Paid) + total_fees <= Value(Spent)
  BY <1>1 DEF IInv, Balance, Running
<1> QED
  BY <1>1, <1>3, <1>4, <1>5

\* A block that ends leaves no more than has been issued with its subsidy.
LEMMA EndCoinbaseInv ==
  ASSUME IInv, EndCoinbase
  PROVE  IInv'
<1>1. height' = height + 1 /\ utxos' = roots /\ pc = "coinbase" /\ Leave("idle")
  BY DEF EndCoinbase
<1> USE DEF Leave
<1>2. Types'
  BY <1>1, ValueOfNothing DEF IInv, Types
<1>3. \A o \in roots : o.height <= height + 1
  <2> SUFFICES ASSUME NEW o \in roots PROVE o.height <= height + 1
    OBVIOUS
  <2>1. CASE o \in utxos
    <3>1. o.height \in Nat /\ o.height <= height /\ height \in Int
      BY <2>1 DEF IInv, Types, Names, Outputs, Output
    <3> QED
      BY <3>1
  <2>2. CASE o \notin utxos
    <3>1. o \in Created
      BY <2>2 DEF Created
    <3>2. o.height = height + 1 /\ height \in Int
      BY <1>1, <3>1 DEF IInv, Types, Names, Running
    <3> QED
      BY <3>2
  <2> QED
    BY <2>1, <2>2
<1>4. Loops' /\ Balance'
  BY <1>1 DEF Loops, Balance, Running
<1>5. Names'
  BY <1>1, <1>3 DEF Names, Running
<1>6. (Value(utxos) <= Issued(height))'
  <2>1. /\ Issued(height) \in Nat /\ Issued(height + 1) = Issued(height) + Subsidy[height + 1]
        /\ Subsidy[height + 1] \in Nat
    BY IssuedGrows DEF IInv, Types
  <2>2. Value(utxos) \in Nat /\ Value(roots) \in Nat /\ Value(utxos) <= Issued(height)
    BY PartsOfBlock DEF IInv
  <2>3. Value(roots) <= Value(utxos) + Subsidy[height + 1]
    BY CoinbaseIsCovered
  <2>4. Value(roots) <= Issued(height + 1)
    BY <2>1, <2>2, <2>3
  <2> QED
    BY <1>1, <2>4
<1> QED
  BY <1>2, <1>4, <1>5, <1>6 DEF IInv

\* The genesis state is worth nothing.
LEMMA StartDriverInv ==
  ASSUME IInv, StartDriver
  PROVE  IInv'
<1> USE DEF StartDriver, Restart, Leave
<1>1. Types'
  BY ValueOfNothing DEF Types
<1>2. Loops' /\ Names' /\ Balance'
  BY DEF Loops, Names, Balance, Running
<1>3. (Value(utxos) <= Issued(height))'
  BY ValueOfNothing, IssuedGrows
<1> QED
  BY <1>1, <1>2, <1>3 DEF IInv

\* The steps that end a run without a block.
LEMMA Aborts ==
  ASSUME InputNotIncluded \/ RejectTransaction \/ RejectCoinbaseInput \/ RejectCoinbase \/ Kill
  PROVE  Leave("aborted") /\ UNCHANGED <<height, utxos>>
BY DEF InputNotIncluded, RejectTransaction, RejectCoinbaseInput, RejectCoinbase, Kill, Abort

\* Every step keeps the invariant.
LEMMA NextInv == IInv /\ [LedgerNext]_vars => IInv'
<1> SUFFICES ASSUME IInv, [LedgerNext]_vars PROVE IInv'
  OBVIOUS
<1>1. CASE StartBlock
  BY <1>1, StartBlockInv
<1>2. CASE NextTransaction \/ EndTransaction \/ StartCoinbase
  BY <1>2, BetweenInv
<1>3. CASE \E coin \in roots : ApplyInput(coin)
  BY <1>3, ApplyInputInv
<1>4. CASE \E amount \in Nat : ValidateOutput(amount) \/ ValidateCoinbaseOutput(amount)
  BY <1>4, InsertInv
<1>5. CASE InputNotIncluded \/ RejectTransaction \/ RejectCoinbaseInput \/ RejectCoinbase \/ Kill
  BY <1>5, Aborts, LeaveInv
<1>6. CASE EndCoinbase
  BY <1>6, EndCoinbaseInv
<1>7. CASE StartDriver
  BY <1>7, StartDriverInv
<1>8. CASE UNCHANGED vars
  BY <1>8 DEF IInv, Types, Loops, Names, Balance, Running, Created, Spent, Paid, vars, locals
<1> QED
  BY <1>1, <1>2, <1>3, <1>4, <1>5, <1>6, <1>7, <1>8 DEF LedgerNext

-----------------------------------------------------------------------------
\* Money is created by the subsidies alone: what a transaction has taken and not
\* yet given, and what it has left to the coinbase, is not in the set any more.
THEOREM LedgerInvariant == LedgerSpec => []IInv
<1> QED
  BY InitInv, NextInv, PTL DEF LedgerSpec

\* At no point of any block are outputs, fees and open inputs worth more than all
\* subsidies so far.
THEOREM OnlySubsidiesInflate == LedgerSpec => []NoInflation
<1>1. IInv => NoInflation
  <2> SUFFICES ASSUME IInv PROVE NoInflation
    OBVIOUS
  <2>1. Value(utxos) <= Issued(height)
    BY DEF IInv
  <2>2. ASSUME Running
        PROVE  Value(roots) + total_fees + total_input_amount <=
                 Issued(height) + total_output_amount
    <3>1. /\ Value(utxos) \in Nat /\ Value(roots) \in Nat /\ Issued(height) \in Nat
          /\ total_fees \in Nat /\ total_input_amount \in Nat /\ total_output_amount \in Nat
      BY PartsOfBlock DEF IInv, Types
    <3>2. Value(roots) + total_fees + total_input_amount <= Value(utxos) + total_output_amount
      BY <2>2 DEF IInv, Balance
    <3> QED
      BY <2>1, <3>1, <3>2
  <2> QED
    BY <2>1, <2>2 DEF NoInflation, Running
<1> QED
  BY <1>1, LedgerInvariant, PTL

\* Only the last step of a block changes height and unspent outputs, and it changes
\* them as Money!Block says.
THEOREM LedgerImplementsMoney == LedgerSpec => ImplementsMoney
<1>1. LedgerInit => Init
  BY DEF LedgerInit
<1>2. IInv /\ [LedgerNext]_vars => [Next]_<<height, utxos>>
  <2> SUFFICES ASSUME IInv, [LedgerNext]_vars PROVE [Next]_<<height, utxos>>
    OBVIOUS
  <2>1. CASE EndCoinbase
    <3>1. height' = height + 1 /\ utxos' = roots /\ pc = "coinbase"
      BY <2>1 DEF EndCoinbase
    <3>2. \A o \in Created : o.height = height'
      BY <3>1 DEF IInv, Names, Running
    <3>3. Value(Paid) <= Value(Spent) /\ Value(Created) <= Value(Spent) + Subsidy[height']
      BY <2>1, <3>1, CoinbaseIsCovered
    <3>4. utxos \ utxos' = Spent /\ utxos' \ utxos = Created
      BY <3>1 DEF Spent, Created
    <3>5. Block
      BY <3>1, <3>2, <3>3, <3>4 DEF Block, Paid
    <3> QED
      BY <3>5 DEF Next
  <2>2. CASE StartDriver
    BY <2>2 DEF StartDriver, Next
  <2>3. CASE InputNotIncluded \/ RejectTransaction \/ RejectCoinbaseInput \/ RejectCoinbase \/ Kill
    BY <2>3, Aborts
  <2>4. CASE StartBlock \/ NextTransaction \/ EndTransaction \/ StartCoinbase
    BY <2>4 DEF StartBlock, NextTransaction, EndTransaction, StartCoinbase
  <2>5. CASE \E coin \in roots : ApplyInput(coin)
    BY <2>5 DEF ApplyInput
  <2>6. CASE \E amount \in Nat : ValidateOutput(amount) \/ ValidateCoinbaseOutput(amount)
    BY <2>6 DEF ValidateOutput, ValidateCoinbaseOutput, InsertOutput
  <2>7. CASE UNCHANGED vars
    BY <2>7 DEF vars
  <2> QED
    BY <2>1, <2>2, <2>3, <2>4, <2>5, <2>6, <2>7 DEF LedgerNext
<1> QED
  BY <1>1, <1>2, LedgerInvariant, PTL DEF LedgerSpec, ImplementsMoney, Spec
=============================================================================

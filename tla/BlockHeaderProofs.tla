-------------------------- MODULE BlockHeaderProofs -------------------------
(***************************************************************************)
(* Theorems about the timestamps of a chain: what the check of the median  *)
(* establishes about the hint's answer, for a window of any odd size, that *)
(* the hint's answer passes it, and that median time never goes back.      *)
(*                                                                         *)
(* And about the chain state: it says all of the history that header       *)
(* validation needs, so that the program, which keeps no history, accepts  *)
(* exactly the headers that the rules over the whole history allow.        *)
(*                                                                         *)
(* And about the compact form of targets: what it drops, that the check of *)
(* the hint accepts it, what other answers the check lets a prover give,   *)
(* and how far the target moves from epoch to epoch.                       *)
(***************************************************************************)
EXTENDS BlockHeader, Retarget, DataLemmas

Window == [1 .. TIMESTAMP_COUNT -> Nat]

\* The size of a union of disjoint finite sets.
LEMMA DisjointCardinality ==
  ASSUME NEW S, IsFiniteSet(S), NEW T, IsFiniteSet(T), S \cap T = {}
  PROVE  /\ IsFiniteSet(S \cup T)
         /\ Cardinality(S \cup T) = Cardinality(S) + Cardinality(T)
<1>1. Cardinality(S \cap T) = 0
  BY FS_EmptySet
<1>2. /\ IsFiniteSet(S \cup T)
      /\ Cardinality(S \cup T) = Cardinality(S) + Cardinality(T) - Cardinality(S \cap T)
  BY FS_Union
<1>3. Cardinality(S) \in Nat /\ Cardinality(T) \in Nat
  BY FS_CardinalityType
<1> QED
  BY <1>1, <1>2, <1>3

\* The three sets that verify_timestamps_median counts share out the window.
LEMMA Counts ==
  ASSUME NEW ts \in Window, NEW m \in Nat
  PROVE  /\ IsFiniteSet(Before(ts, m)) /\ IsFiniteSet(Equal(ts, m)) /\ IsFiniteSet(After(ts, m))
         /\ Cardinality(Before(ts, m)) \in Nat
         /\ Cardinality(Equal(ts, m)) \in Nat
         /\ Cardinality(After(ts, m)) \in Nat
         /\ Cardinality(Before(ts, m)) + Cardinality(Equal(ts, m)) + Cardinality(After(ts, m))
              = TIMESTAMP_COUNT
<1> DEFINE D == 1 .. TIMESTAMP_COUNT
           B == Before(ts, m)
           E == Equal(ts, m)
           A == After(ts, m)
<1>1. TIMESTAMP_COUNT \in Nat
  BY HalfAssumption DEF TIMESTAMP_COUNT
<1>2. IsFiniteSet(D) /\ Cardinality(D) = TIMESTAMP_COUNT
  BY <1>1, FS_Interval
<1>3. \A i \in D : ts[i] \in Nat
  BY DEF Window
<1>4. DOMAIN ts = D
  BY DEF Window
<1>5. B \subseteq D /\ E \subseteq D /\ A \subseteq D
  BY <1>4 DEF Before, Equal, After
<1>6. IsFiniteSet(B) /\ IsFiniteSet(E) /\ IsFiniteSet(A)
  BY <1>2, <1>5, FS_Subset
<1>7. Cardinality(B) \in Nat /\ Cardinality(E) \in Nat /\ Cardinality(A) \in Nat
  BY <1>6, FS_CardinalityType
<1>8. B \cap E = {} /\ (B \cup E) \cap A = {} /\ (B \cup E) \cup A = D
  BY <1>3, <1>4 DEF Before, Equal, After
<1>9. IsFiniteSet(B \cup E) /\ Cardinality(B \cup E) = Cardinality(B) + Cardinality(E)
  BY <1>6, <1>8, DisjointCardinality
<1>10. Cardinality((B \cup E) \cup A) = Cardinality(B \cup E) + Cardinality(A)
  BY <1>6, <1>8, <1>9, DisjointCardinality
<1> QED
  BY <1>2, <1>6, <1>7, <1>8, <1>9, <1>10

\* What passes the check is one of the timestamps, ...
LEMMA VerifiedIsInWindow ==
  ASSUME NEW ts \in Window, NEW m, verify_timestamps_median(ts, m)
  PROVE  \E i \in 1 .. TIMESTAMP_COUNT : ts[i] = m
<1>1. DOMAIN ts = 1 .. TIMESTAMP_COUNT
  BY DEF Window
<1>2. IsFiniteSet(1 .. TIMESTAMP_COUNT)
  BY HalfAssumption, FS_Interval DEF TIMESTAMP_COUNT
<1>3. IsFiniteSet(Before(ts, m)) /\ IsFiniteSet(After(ts, m)) /\ IsFiniteSet(Equal(ts, m))
  BY <1>1, <1>2, FS_Subset DEF Before, After, Equal
<1>4. Cardinality(Before(ts, m)) \in Nat /\ Cardinality(After(ts, m)) \in Nat
  BY <1>3, FS_CardinalityType
<1>5. Cardinality(Equal(ts, m)) # 0
  BY <1>4 DEF verify_timestamps_median, AbsValue
<1>6. Equal(ts, m) # {}
  BY <1>5, FS_EmptySet
<1> QED
  BY <1>1, <1>6 DEF Equal

\* ... with at most half of the window before it and at most half after it.
LEMMA VerifiedIsMiddle ==
  ASSUME NEW ts \in Window, NEW m, verify_timestamps_median(ts, m)
  PROVE  /\ m \in Nat
         /\ Cardinality(Before(ts, m)) <= Half
         /\ Cardinality(After(ts, m)) <= Half
<1>1. m \in Nat
  BY VerifiedIsInWindow DEF Window
<1> QED
  BY <1>1, Counts, HalfAssumption DEF verify_timestamps_median, AbsValue, TIMESTAMP_COUNT

\* verify_timestamps_median determines the median: no two values pass for the
\* same window, so a prover has no choice in what it answers.
THEOREM MedianIsDetermined ==
  ASSUME NEW ts \in Window,
         NEW m, verify_timestamps_median(ts, m),
         NEW k, verify_timestamps_median(ts, k)
  PROVE  m = k
<1>1. ASSUME NEW a \in Nat, NEW b \in Nat, a < b,
             verify_timestamps_median(ts, a), verify_timestamps_median(ts, b)
      PROVE  FALSE
  <2>1. Equal(ts, b) \cup After(ts, b) \subseteq After(ts, a)
    BY <1>1 DEF Equal, After, Window
  <2>2. Equal(ts, b) \cap After(ts, b) = {}
    BY <1>1 DEF Equal, After, Window
  <2>3. /\ IsFiniteSet(Equal(ts, b) \cup After(ts, b))
        /\ Cardinality(Equal(ts, b) \cup After(ts, b))
             = Cardinality(Equal(ts, b)) + Cardinality(After(ts, b))
    BY <2>2, Counts, DisjointCardinality
  <2>4. Cardinality(Equal(ts, b) \cup After(ts, b)) <= Cardinality(After(ts, a))
    BY <2>1, Counts, FS_Subset
  <2>5. Cardinality(Equal(ts, b)) + Cardinality(After(ts, b)) >= Half + 1
    BY <1>1, Counts, VerifiedIsMiddle, HalfAssumption DEF TIMESTAMP_COUNT
  <2>6. Cardinality(After(ts, a)) <= Half
    BY <1>1, VerifiedIsMiddle
  <2>7. Cardinality(After(ts, a)) \in Nat
    BY Counts
  <2> QED
    BY <2>3, <2>4, <2>5, <2>6, <2>7, Counts, HalfAssumption
<1>2. m \in Nat /\ k \in Nat
  BY VerifiedIsMiddle
<1> QED
  BY <1>1, <1>2

\* One step of the window: the newest timestamp comes in, the oldest falls out.
Shift(ts, t) == [i \in 1 .. TIMESTAMP_COUNT |-> IF i = 1 THEN t ELSE ts[i - 1]]

\* A block that is not before the median does not move the median back.
LEMMA MedianAfterShift ==
  ASSUME NEW ts \in Window, NEW t \in Nat,
         NEW m, verify_timestamps_median(ts, m), m <= t,
         NEW k, verify_timestamps_median(Shift(ts, t), k)
  PROVE  m <= k
<1> DEFINE next == Shift(ts, t)
           low == Before(next, k) \cup Equal(next, k)
           f == [i \in low |-> i - 1]
<1>1. next \in Window
  BY HalfAssumption DEF Window, Shift, TIMESTAMP_COUNT
<1>2. m \in Nat /\ k \in Nat /\ Cardinality(Before(ts, m)) <= Half
  BY <1>1, VerifiedIsMiddle
<1>3. /\ IsFiniteSet(low)
      /\ Cardinality(low) = Cardinality(Before(next, k)) + Cardinality(Equal(next, k))
  <2>1. Before(next, k) \cap Equal(next, k) = {}
    BY <1>1, <1>2 DEF Before, Equal, Window
  <2> HIDE DEF next
  <2> QED
    BY <1>1, <1>2, <2>1, Counts, DisjointCardinality
<1>4. Cardinality(low) >= Half + 1
  <2>1. Cardinality(After(next, k)) <= Half
    BY <1>1, VerifiedIsMiddle
  <2> HIDE DEF next
  <2> QED
    BY <1>1, <1>2, <1>3, <2>1, Counts, HalfAssumption DEF TIMESTAMP_COUNT
<1>5. SUFFICES ASSUME k < m PROVE FALSE
  BY <1>2
<1>6. \A i \in low : i \in 2 .. TIMESTAMP_COUNT /\ ts[i - 1] < m
  BY <1>1, <1>2, <1>5, HalfAssumption DEF Before, Equal, Window, Shift, TIMESTAMP_COUNT
<1>7. f \in [low -> Before(ts, m)]
  BY <1>6, HalfAssumption DEF Before, Window, TIMESTAMP_COUNT
<1>8. \A i, j \in low : f[i] = f[j] => i = j
  BY <1>6, HalfAssumption DEF TIMESTAMP_COUNT
<1>9. IsFiniteSet(Before(ts, m)) /\ Cardinality(Before(ts, m)) \in Nat
  BY <1>2, Counts
<1>10. Cardinality(low) \in Nat
  BY <1>3, FS_CardinalityType
<1>11. Cardinality(Before(ts, m)) < Cardinality(low)
  BY <1>2, <1>4, <1>9, <1>10, HalfAssumption
<1>12. \E i, j \in low : i # j /\ f[i] = f[j]
  <2> HIDE DEF f, low
  <2> QED
    BY <1>3, <1>7, <1>9, <1>11, FS_PigeonHole
<1> QED
  BY <1>8, <1>12

-----------------------------------------------------------------------------
\* The window holds timestamps, at first zeros.
WindowType == prev_timestamps \in Window

\* The window of the genesis state.
LEMMA WindowInit == Init => WindowType
  BY DEF Init, WindowType, Window

\* An accepted header shifts the window of next_prev_timestamps.
LEMMA WindowStep ==
  ASSUME WindowType, NEW header \in Header, validate_and_apply_block_header(header)
  PROVE  /\ prev_timestamps' = Shift(prev_timestamps, header.time)
         /\ header.time \in Nat
         /\ WindowType'
<1>1. prev_timestamps' = Shift(prev_timestamps, header.time)
  BY DEF validate_and_apply_block_header, apply_block_header, next_prev_timestamps, Shift
<1>2. header.time \in Nat
  BY EpochAssumption DEF Header
<1>3. Shift(prev_timestamps, header.time) \in Window
  BY <1>2, HalfAssumption DEF WindowType, Window, Shift, TIMESTAMP_COUNT
<1> QED
  BY <1>1, <1>2, <1>3 DEF WindowType

\* Every step leaves a window of timestamps.
LEMMA WindowNext == WindowType /\ [Next]_vars => WindowType'
<1> SUFFICES ASSUME WindowType, [Next]_vars PROVE WindowType'
  OBVIOUS
<1>1. CASE UNCHANGED vars
  BY <1>1 DEF vars, stateVars, WindowType
<1>2. ASSUME NEW header \in Header, validate_and_apply_block_header(header)
      PROVE  WindowType'
  BY <1>2, WindowStep
<1>3. ASSUME NEW header \in Header, Reject(header) PROVE WindowType'
  BY <1>3 DEF Reject, vars, stateVars, WindowType
<1> QED
  BY <1>1, <1>2, <1>3 DEF Next

\* For chains of any length, epochs and windows of any size: validate_timestamp
\* admits blocks older than their predecessor, but never moves median time back.
THEOREM MedianTimeNeverDecreases == Spec => MedianNeverDecreases
<1> DEFINE Step == \A i, j \in 1 .. TIMESTAMP_COUNT :
                     /\ verify_timestamps_median(prev_timestamps, prev_timestamps[i])
                     /\ verify_timestamps_median(prev_timestamps', prev_timestamps'[j])
                     => prev_timestamps[i] <= prev_timestamps'[j]
<1>1. WindowType /\ [Next]_vars => [Step]_vars
  <2> SUFFICES ASSUME WindowType, Next, ~UNCHANGED vars,
                      NEW i \in 1 .. TIMESTAMP_COUNT, NEW j \in 1 .. TIMESTAMP_COUNT,
                      verify_timestamps_median(prev_timestamps, prev_timestamps[i]),
                      verify_timestamps_median(prev_timestamps', prev_timestamps'[j])
               PROVE  prev_timestamps[i] <= prev_timestamps'[j]
    OBVIOUS
  <2>1. PICK header \in Header : validate_and_apply_block_header(header)
    BY DEF Next, Reject
  <2> DEFINE median == MedianHint(prev_timestamps)
  <2>2. verify_timestamps_median(prev_timestamps, median) /\ median <= header.time
    BY <2>1 DEF validate_and_apply_block_header, Valid, validate_timestamp
  <2>3. prev_timestamps[i] = median
    <3> HIDE DEF median
    <3> QED
      BY <2>2, MedianIsDetermined DEF WindowType
  <2>4. prev_timestamps' = Shift(prev_timestamps, header.time) /\ header.time \in Nat
    BY <2>1, WindowStep
  <2> QED
    BY <2>2, <2>3, <2>4, MedianAfterShift DEF WindowType
<1> QED
  BY <1>1, WindowInit, WindowNext, PTL DEF Spec, MedianNeverDecreases

-----------------------------------------------------------------------------
(* Sorting *)

\* A list as long as the window or shorter leaves a place out.
LEMMA PlaceLeft ==
  ASSUME NEW n \in Nat, NEW k \in Nat, k < n, NEW p \in [1 .. k -> 1 .. n]
  PROVE  \E x \in 1 .. n : \A j \in 1 .. k : p[j] # x
<1> SUFFICES ASSUME \A x \in 1 .. n : \E j \in 1 .. k : p[j] = x PROVE FALSE
  OBVIOUS
<1> DEFINE f == [x \in 1 .. n |-> CHOOSE j \in 1 .. k : p[j] = x]
<1>1. \A x \in 1 .. n : f[x] \in 1 .. k /\ p[f[x]] = x
  OBVIOUS
<1>2. f \in [1 .. n -> 1 .. k]
  BY <1>1
<1>3. /\ IsFiniteSet(1 .. n) /\ Cardinality(1 .. n) = n
      /\ IsFiniteSet(1 .. k) /\ Cardinality(1 .. k) = k
  BY FS_Interval
<1>4. \E x, y \in 1 .. n : x # y /\ f[x] = f[y]
  <2> DEFINE D == 1 .. n
             C == 1 .. k
  <2>1. IsFiniteSet(D) /\ IsFiniteSet(C) /\ Cardinality(C) < Cardinality(D) /\ f \in [D -> C]
    BY <1>2, <1>3
  <2> HIDE DEF f, D, C
  <2>2. \E x, y \in D : x # y /\ f[x] = f[y]
    BY <2>1, FS_PigeonHole
  <2> QED
    BY <2>2 DEF D
<1> HIDE DEF f
<1> QED
  BY <1>1, <1>4

\* The k least elements in order.
LeastFirst(ts, n, k, p) ==
  /\ p \in [1 .. k -> 1 .. n]
  /\ \A i, j \in 1 .. k : p[i] = p[j] => i = j
  /\ \A i, j \in 1 .. k : i < j => ts[p[i]] <= ts[p[j]]
  /\ \A i \in 1 .. k, x \in 1 .. n : (\A j \in 1 .. k : p[j] # x) => ts[p[i]] <= ts[x]

\* The k least timestamps in order become k + 1 with the least of the rest behind them.
LEMMA OneMore ==
  ASSUME NEW n \in Nat, NEW ts \in [1 .. n -> Nat], NEW k \in 0 .. n - 1,
         NEW p, LeastFirst(ts, n, k, p)
  PROVE  \E q : LeastFirst(ts, n, k + 1, q)
<1> DEFINE rest == {x \in 1 .. n : \A j \in 1 .. k : p[j] # x}
           values == {ts[x] : x \in rest}
<1>1. values \in SUBSET Nat /\ values # {}
  <2>1. \E x \in 1 .. n : \A j \in 1 .. k : p[j] # x
    <3>1. k \in Nat /\ k < n /\ p \in [1 .. k -> 1 .. n]
      BY DEF LeastFirst
    <3> QED
      BY <3>1, PlaceLeft
  <2> QED
    BY <2>1
<1>2. PICK v \in values : \A u \in values : v <= u
  <2> HIDE DEF values
  <2> QED
    BY <1>1, LeastNumber
<1>3. PICK x \in rest : ts[x] = v
  BY <1>2
<1>4. \A y \in rest : ts[x] <= ts[y]
  BY <1>2, <1>3
<1> DEFINE q == [i \in 1 .. k + 1 |-> IF i = k + 1 THEN x ELSE p[i]]
<1>5. q[k + 1] = x /\ \A i \in 1 .. k : q[i] = p[i] /\ i \in 1 .. k + 1 /\ i # k + 1
  OBVIOUS
<1>6. \A i \in 1 .. k + 1 : i \in 1 .. k \/ i = k + 1
  OBVIOUS
<1>7. q \in [1 .. k + 1 -> 1 .. n]
  BY DEF LeastFirst
<1> HIDE DEF q, values
<1>8. ASSUME NEW i \in 1 .. k + 1, NEW j \in 1 .. k + 1, q[i] = q[j] PROVE i = j
  BY <1>3, <1>5, <1>6, <1>8 DEF LeastFirst
<1>9. ASSUME NEW i \in 1 .. k + 1, NEW j \in 1 .. k + 1, i < j PROVE ts[q[i]] <= ts[q[j]]
  <2>1. i \in 1 .. k
    BY <1>9
  <2>2. CASE j = k + 1
    BY <1>3, <1>5, <2>1, <2>2 DEF LeastFirst
  <2>3. CASE j \in 1 .. k
    BY <1>5, <1>9, <2>1, <2>3 DEF LeastFirst
  <2> QED
    BY <1>6, <2>2, <2>3
<1>10. ASSUME NEW i \in 1 .. k + 1, NEW y \in 1 .. n, \A j \in 1 .. k + 1 : q[j] # y
       PROVE  ts[q[i]] <= ts[y]
  <2>1. y \in rest
    BY <1>5, <1>10
  <2>2. CASE i = k + 1
    BY <1>4, <1>5, <2>1, <2>2
  <2>3. CASE i \in 1 .. k
    BY <1>5, <2>1, <2>3 DEF LeastFirst
  <2> QED
    BY <1>6, <2>2, <2>3
<1>11. LeastFirst(ts, n, k + 1, q)
  BY <1>7, <1>8, <1>9, <1>10 DEF LeastFirst
<1> QED
  BY <1>11

\* Every list can be sorted.
LEMMA CanBeSorted ==
  ASSUME NEW n \in Nat, NEW ts \in [1 .. n -> Nat]
  PROVE  \E p \in Rearrangements(1 .. n) : Ascending(ts, p)
<1> DEFINE T == {k \in 0 .. n : \E p : LeastFirst(ts, n, k, p)}
<1>1. 0 \in T
  <2>1. LeastFirst(ts, n, 0, [i \in 1 .. 0 |-> 0])
    BY DEF LeastFirst
  <2> QED
    BY <2>1
<1>2. ASSUME NEW k \in 0 .. n - 1, k \in T PROVE k + 1 \in T
  <2>1. \E q : LeastFirst(ts, n, k + 1, q)
    BY <1>2, OneMore
  <2> QED
    BY <2>1
<1>3. 0 .. n \subseteq T
  <2> HIDE DEF T
  <2> QED
    BY <1>1, <1>2, IntervalInduction
<1>4. PICK p : LeastFirst(ts, n, n, p)
  BY <1>3
<1>5. p \in Rearrangements(1 .. n) /\ Ascending(ts, p)
  BY <1>4 DEF LeastFirst, Rearrangements, Ascending
<1> QED
  BY <1>5

\* A rearrangement of finitely many places leaves none out.
LEMMA EveryPlaceIsTaken ==
  ASSUME NEW n \in Nat, NEW p \in Rearrangements(1 .. n), NEW x \in 1 .. n
  PROVE  \E i \in 1 .. n : p[i] = x
<1> SUFFICES ASSUME \A i \in 1 .. n : p[i] # x PROVE FALSE
  OBVIOUS
<1> DEFINE D == 1 .. n
<1>1. IsFiniteSet(D) /\ Cardinality(D) = n
  BY FS_Interval
<1>2. p \in [D -> D \ {x}]
  BY DEF Rearrangements
<1>3. IsFiniteSet(D \ {x}) /\ Cardinality(D \ {x}) = n - 1
  <2> HIDE DEF D
  <2>1. x \in D
    BY DEF D
  <2> QED
    BY <1>1, <2>1, FS_RemoveElement
<1>4. \E i, j \in D : i # j /\ p[i] = p[j]
  <2>1. n - 1 < n
    OBVIOUS
  <2> HIDE DEF D
  <2> QED
    BY <1>1, <1>2, <1>3, <2>1, FS_PigeonHole
<1> QED
  BY <1>4 DEF Rearrangements

\* A set of places that a rearrangement puts between two others.
LEMMA FewPlaces ==
  ASSUME NEW n \in Nat, NEW p \in Rearrangements(1 .. n),
         NEW a \in 1 .. n + 1, NEW b \in 0 .. n, a <= b + 1,
         NEW S \in SUBSET (1 .. n), \A i \in 1 .. n : p[i] \in S => i \in a .. b
  PROVE  Cardinality(S) <= b - a + 1
<1> DEFINE f == [x \in S |-> CHOOSE i \in 1 .. n : p[i] = x]
<1>1. \A x \in S : f[x] \in 1 .. n /\ p[f[x]] = x
  BY EveryPlaceIsTaken
<1>2. f \in [S -> a .. b]
  BY <1>1
<1>3. IsFiniteSet(S) /\ Cardinality(S) \in Nat
  <2>1. IsFiniteSet(1 .. n)
    BY FS_Interval
  <2>2. IsFiniteSet(S)
    BY <2>1, FS_Subset
  <2> QED
    BY <2>2, FS_CardinalityType
<1>4. IsFiniteSet(a .. b) /\ Cardinality(a .. b) = b - a + 1
  <2>1. a \in Int /\ b \in Int
    OBVIOUS
  <2>2. IsFiniteSet(a .. b) /\ Cardinality(a .. b) = IF a > b THEN 0 ELSE b - a + 1
    BY <2>1, FS_Interval
  <2>3. a > b => b - a + 1 = 0
    BY <2>1
  <2> QED
    BY <2>2, <2>3
<1>5. SUFFICES ASSUME b - a + 1 < Cardinality(S) PROVE FALSE
  BY <1>3
<1>6. \E x, y \in S : x # y /\ f[x] = f[y]
  <2> HIDE DEF f
  <2> QED
    BY <1>2, <1>3, <1>4, <1>5, FS_PigeonHole
<1> HIDE DEF f
<1> QED
  BY <1>1, <1>6

\* The hint's answer always passes the check.
LEMMA HintIsVerified ==
  ASSUME NEW ts \in Window
  PROVE  verify_timestamps_median(ts, MedianHint(ts))
<1> DEFINE n == TIMESTAMP_COUNT
           p == CHOOSE p \in Rearrangements(DOMAIN ts) : Ascending(ts, p)
           m == ts[p[Half + 1]]
<1>1. n \in Nat /\ Half \in Nat /\ n = (2 * Half) + 1
  BY HalfAssumption DEF TIMESTAMP_COUNT
<1>2. ts \in [1 .. n -> Nat] /\ DOMAIN ts = 1 .. n
  BY DEF Window
<1>3. p \in Rearrangements(1 .. n) /\ Ascending(ts, p)
  <2> HIDE DEF n
  <2>1. \E q \in Rearrangements(1 .. n) : Ascending(ts, q)
    BY <1>1, <1>2, CanBeSorted
  <2> QED
    BY <1>2, <2>1
<1>4. MedianHint(ts) = m
  BY DEF MedianHint
<1> HIDE DEF p, n
<1>5. p[Half + 1] \in 1 .. n /\ m \in Nat
  <2>1. Half + 1 \in 1 .. n
    BY <1>1
  <2>2. p[Half + 1] \in 1 .. n
    BY <1>3, <2>1 DEF Rearrangements
  <2> QED
    BY <1>2, <2>2
<1>0. Half + 1 \in 1 .. n /\ \A i, j \in 1 .. n : i < j => ts[p[i]] <= ts[p[j]]
  BY <1>1, <1>2, <1>3 DEF Ascending
<1>6. Cardinality(Before(ts, m)) <= Half
  <2>1. Before(ts, m) \in SUBSET (1 .. n)
    BY <1>2 DEF Before
  <2>2. ASSUME NEW i \in 1 .. n, p[i] \in Before(ts, m) PROVE i \in 1 .. Half
    <3>1. p[i] \in 1 .. n /\ ts[p[i]] \in Nat /\ ts[p[i]] < m
      BY <1>2, <1>3, <2>2 DEF Before, Rearrangements
    <3>2. ~(Half + 1 <= i)
      <4>1. CASE i = Half + 1
        BY <1>5, <3>1, <4>1
      <4>2. CASE i # Half + 1
        BY <1>0, <1>1, <1>5, <3>1, <4>2
      <4> QED
        BY <4>1, <4>2
    <3> QED
      BY <1>1, <3>2
  <2>3. 1 \in 1 .. n + 1 /\ Half \in 0 .. n /\ 1 <= Half + 1
    BY <1>1
  <2>4. Cardinality(Before(ts, m)) <= Half - 1 + 1
    BY <1>1, <1>3, <2>1, <2>2, <2>3, FewPlaces
  <2> QED
    BY <1>1, <2>4
<1>7. Cardinality(After(ts, m)) <= Half
  <2>1. After(ts, m) \in SUBSET (1 .. n)
    BY <1>2 DEF After
  <2>2. ASSUME NEW i \in 1 .. n, p[i] \in After(ts, m) PROVE i \in Half + 2 .. n
    <3>1. p[i] \in 1 .. n /\ ts[p[i]] \in Nat /\ ts[p[i]] > m
      BY <1>2, <1>3, <2>2 DEF After, Rearrangements
    <3>2. ~(i <= Half + 1)
      <4>1. CASE i = Half + 1
        BY <1>5, <3>1, <4>1
      <4>2. CASE i # Half + 1
        BY <1>0, <1>1, <1>5, <3>1, <4>2
      <4> QED
        BY <4>1, <4>2
    <3> QED
      BY <1>1, <3>2
  <2>3. Half + 2 \in 1 .. n + 1 /\ n \in 0 .. n /\ Half + 2 <= n + 1
    BY <1>1
  <2>4. Cardinality(After(ts, m)) <= n - (Half + 2) + 1
    BY <1>1, <1>3, <2>1, <2>2, <2>3, FewPlaces
  <2> QED
    BY <1>1, <2>4
<1>8. /\ Cardinality(Before(ts, m)) \in Nat /\ Cardinality(Equal(ts, m)) \in Nat
      /\ Cardinality(After(ts, m)) \in Nat
      /\ Cardinality(Before(ts, m)) + Cardinality(Equal(ts, m)) + Cardinality(After(ts, m)) = n
  BY <1>5, Counts DEF n
<1>9. verify_timestamps_median(ts, m)
  <2> HIDE DEF m
  <2> QED
    BY <1>1, <1>6, <1>7, <1>8 DEF verify_timestamps_median, AbsValue
<1> QED
  BY <1>4, <1>9

\* For a window of any odd size: verify_timestamps_median accepts what the hint
\* answers, so that no prover is stopped by it, and nothing else.
THEOREM HintIsTheMedian == Spec => []MedianIsUnique
<1>1. WindowType => MedianIsUnique
  <2> SUFFICES ASSUME WindowType, NEW i \in 1 .. TIMESTAMP_COUNT
               PROVE  verify_timestamps_median(prev_timestamps, prev_timestamps[i])
                        <=> prev_timestamps[i] = MedianHint(prev_timestamps)
    BY DEF MedianIsUnique
  <2>1. verify_timestamps_median(prev_timestamps, MedianHint(prev_timestamps))
    BY HintIsVerified DEF WindowType
  <2> QED
    BY <2>1, MedianIsDetermined DEF WindowType
<1> QED
  BY <1>1, WindowInit, WindowNext, PTL DEF Spec

-----------------------------------------------------------------------------
(* The greatest target *)

LEMMA Powers ==
  /\ Base^1 = Base /\ Base^2 = Base * Base /\ Base^3 = Base * (Base * Base)
  /\ Base^0 = 1 /\ Base \in Nat /\ Base >= 2
<1>1. MaxExponent \in Nat /\ MaxExponent >= 3 /\ Base \in Nat /\ Base >= 2
  BY CompactAssumption
<1>2. Base^(0 + 1) = Base * Base^0 /\ Base^(1 + 1) = Base * Base^1 /\ Base^(2 + 1) = Base * Base^2
  BY <1>1, PowersAssumption
<1> QED
  BY <1>1, <1>2, PowersAssumption

\* The powers about the greatest target, by the weight of its last digit.
LEMMA PowersAtLimit ==
  LET w == Base^(MaxExponent - 3) IN
  /\ w \in Nat \ {0}
  /\ Base^(MaxExponent - 2) = Base * w
  /\ Base^(MaxExponent - 1) = Base * (Base * w)
  /\ MAX_TARGET = ((Base * Base) - 1) * w
<1>1. MaxExponent \in Nat /\ MaxExponent >= 3
  BY CompactAssumption
<1>2. MaxExponent - 3 \in 0 .. MaxExponent + 1 /\ MaxExponent - 2 \in 0 .. MaxExponent + 1
  BY <1>1
<1>3. /\ Base^(MaxExponent - 3) \in Nat \ {0}
      /\ Base^((MaxExponent - 3) + 1) = Base * Base^(MaxExponent - 3)
      /\ Base^((MaxExponent - 2) + 1) = Base * Base^(MaxExponent - 2)
  BY <1>2, PowersAssumption
<1>4. (MaxExponent - 3) + 1 = MaxExponent - 2 /\ (MaxExponent - 2) + 1 = MaxExponent - 1
  BY <1>1
<1> QED
  BY <1>3, <1>4, Powers DEF MAX_TARGET

LEMMA LimitType == MAX_TARGET \in Nat \ {0}
<1> DEFINE w == Base^(MaxExponent - 3)
<1>1. w \in Nat \ {0} /\ MAX_TARGET = ((Base * Base) - 1) * w
  BY PowersAtLimit
<1>2. (Base * Base) - 1 \in Nat \ {0}
  <2>1. Base * Base >= 2 * 2
    BY Powers
  <2> QED
    BY <2>1, Powers
<1> HIDE DEF w
<1>3. \A a, b \in Nat \ {0} : a * b \in Nat \ {0}
  OBVIOUS
<1> QED
  BY <1>1, <1>2, <1>3

LEMMA MinIsLeast ==
  ASSUME NEW S, S \subseteq Int, NEW m \in S, \A y \in S : m <= y
  PROVE  Min(S) = m
<1>1. \E x \in S : \A y \in S : x <= y
  OBVIOUS
<1>2. Min(S) \in S /\ \A y \in S : Min(S) <= y
  <2> DEFINE Least(x) == x \in S /\ \A y \in S : x <= y
  <2>1. Min(S) = CHOOSE x : Least(x)
    BY Zenon DEF Min
  <2>2. Least(Min(S))
    BY <1>1, <2>1, Zenon
  <2> QED
    BY <2>2
<1>3. Min(S) \in Int /\ m \in Int /\ m <= Min(S) /\ Min(S) <= m
  BY <1>2
<1> HIDE DEF Min
<1> QED
  BY <1>3

LEMMA MinOfPair ==
  ASSUME NEW a \in Int, NEW b \in Int
  PROVE  Min({a, b}) = IF a <= b THEN a ELSE b
BY DEF Min

\* The limit has one digit less than its exponent says, ...
LEMMA SizeOfLimit == Size(MAX_TARGET) = MaxExponent - 1
<1> DEFINE w == Base^(MaxExponent - 3)
           sizes == {k \in 0 .. MaxExponent + 1 : MAX_TARGET < Base^k}
<1>1. /\ w \in Nat \ {0} /\ MAX_TARGET = ((Base * Base) - 1) * w
      /\ Base^(MaxExponent - 2) = Base * w /\ Base^(MaxExponent - 1) = Base * (Base * w)
  BY PowersAtLimit
<1>2. MaxExponent \in Nat /\ MaxExponent >= 3 /\ Base \in Nat /\ Base >= 2
  BY CompactAssumption
<1>3. MAX_TARGET < Base^(MaxExponent - 1)
  <2>1. \A v \in Nat \ {0} : ((Base * Base) - 1) * v = (Base * (Base * v)) - v
    BY <1>2
  <2>2. \A v \in Nat \ {0} : Base * (Base * v) \in Nat
    BY <1>2
  <2> HIDE DEF w
  <2> QED
    BY <1>1, <2>1, <2>2
<1>4. ASSUME NEW k \in 0 .. MaxExponent + 1, k < MaxExponent - 1
      PROVE  ~(MAX_TARGET < Base^k)
  <2>1. k \in 0 .. MaxExponent - 2 /\ MaxExponent - 2 \in 0 .. MaxExponent + 1
    BY <1>2, <1>4
  <2>2. Base^k <= Base^(MaxExponent - 2) /\ Base^k \in Nat
    BY <2>1, PowersAssumption
  <2>3. Base <= (Base * Base) - 1
    BY <1>2
  <2>4. \A a, b, v \in Nat : a <= b => a * v <= b * v
    OBVIOUS
  <2>5. Base * w <= MAX_TARGET
    <3> HIDE DEF w
    <3>1. Base \in Nat /\ (Base * Base) - 1 \in Nat /\ w \in Nat
      BY <1>1, <1>2, <2>3
    <3> QED
      BY <1>1, <2>3, <2>4, <3>1
  <2>6. Base * w \in Nat
    <3> HIDE DEF w
    <3> QED
      BY <1>1, <1>2
  <2> QED
    BY <1>1, <2>2, <2>5, <2>6, LimitType
<1>5. MaxExponent - 1 \in sizes /\ \A k \in sizes : MaxExponent - 1 <= k
  BY <1>2, <1>3, <1>4
<1>6. sizes \subseteq Int
  BY <1>2
<1>7. Min(sizes) = MaxExponent - 1
  <2> HIDE DEF sizes
  <2> QED
    BY <1>5, <1>6, MinIsLeast
<1> QED
  BY <1>7 DEF Size

\* ... and is a compact target like the program's, the first digit of which is below half.
LEMMA LimitToBits == CompactHint(MAX_TARGET) = MAX_BITS
<1> DEFINE w == Base^(MaxExponent - 3)
           size == Size(MAX_TARGET)
           full == ((Base * Base) - 1) * Base
           compact == IF size <= 3 THEN MAX_TARGET * Base^(3 - size)
                                   ELSE MAX_TARGET \div Base^(size - 3)
<1>1. MaxExponent \in Nat /\ MaxExponent >= 3 /\ Base \in Nat /\ Base >= 2
  BY CompactAssumption
<1>2. w \in Nat \ {0} /\ MAX_TARGET = ((Base * Base) - 1) * w
  BY PowersAtLimit
<1>3. size = MaxExponent - 1
  BY SizeOfLimit
<1>4. compact = full
  <2>1. CASE MaxExponent = 3
    <3>1. size = 2 /\ 3 - size = 1 /\ MaxExponent - 3 = 0
      BY <1>3, <2>1
    <3>2. w = 1 /\ Base^(3 - size) = Base
      BY <3>1, Powers
    <3>3. MAX_TARGET = (Base * Base) - 1
      BY <1>1, <1>2, <3>2
    <3> QED
      BY <3>1, <3>2, <3>3
  <2>2. CASE MaxExponent = 4
    <3>1. size = 3 /\ 3 - size = 0 /\ MaxExponent - 3 = 1
      BY <1>3, <2>2
    <3>2. w = Base /\ Base^(3 - size) = 1
      BY <3>1, Powers
    <3>3. MAX_TARGET = full /\ full \in Int
      BY <1>1, <1>2, <3>2
    <3> QED
      BY <3>1, <3>2, <3>3
  <2>3. CASE MaxExponent > 4
    <3> DEFINE v == Base^(size - 3)
    <3>1. size - 3 \in 0 .. MaxExponent + 1 /\ (size - 3) + 1 = MaxExponent - 3 /\ ~(size <= 3)
      BY <1>1, <1>3, <2>3
    <3>2. v \in Nat \ {0} /\ w = Base * v
      BY <3>1, PowersAssumption
    <3>3. \A u \in Nat \ {0} : ((Base * Base) - 1) * (Base * u) = full * u
      BY <1>1
    <3>4. \A a \in Int, u \in Nat \ {0} : (a * u) \div u = a
      OBVIOUS
    <3>5. full \in Int
      BY <1>1
    <3>6. MAX_TARGET \div v = full
      <4> HIDE DEF v, w, full
      <4>1. MAX_TARGET = full * v
        BY <1>2, <3>2, <3>3
      <4> QED
        BY <3>2, <3>4, <3>5, <4>1
    <3> QED
      BY <3>1, <3>6
  <2> QED
    BY <1>1, <2>1, <2>2, <2>3
<1>5. full >= (Base \div 2) * Base^2 /\ full \div Base = Base^2 - 1
  <2>1. PICK half \in Nat : Base = 2 * half /\ Base \div 2 = half
    BY CompactAssumption
  <2>2. (Base * Base) - half >= 1
    BY <1>1, <2>1
  <2>3. full - (half * (Base * Base)) >= 0
    <3>1. full - (half * (Base * Base)) = (half * ((Base * Base) - 2))
      BY <1>1, <2>1
    <3>2. (Base * Base) - 2 \in Nat
      <4>1. Base * Base >= 2 * 2
        BY <1>1
      <4> QED
        BY <1>1, <4>1
    <3> QED
      BY <2>1, <3>1, <3>2
  <2>4. \A a \in Int, u \in Nat \ {0} : (a * u) \div u = a
    OBVIOUS
  <2>5. (Base * Base) - 1 \in Int /\ Base \in Nat \ {0}
    BY <1>1
  <2>6. full \div Base = (Base * Base) - 1
    BY <2>4, <2>5
  <2> QED
    BY <1>1, <2>1, <2>3, <2>6, Powers
<1>6. Min({MAX_TARGET, MAX_TARGET}) = MAX_TARGET
  BY LimitType, MinOfPair
<1>7. CompactHint(MAX_TARGET) = Bits(size + 1, full \div Base)
  <2> HIDE DEF w, full
  <2> QED
    BY <1>4, <1>5, <1>6, LimitType DEF CompactHint
<1>8. size + 1 = MaxExponent
  BY <1>1, <1>3
<1>9. Bits(MaxExponent, Base^2 - 1) = MAX_BITS
  <2>1. Base^3 \in Int /\ Base^2 \in Int
    BY Powers
  <2>2. MaxExponent * Base^3 \in Int
    BY <1>1, <2>1
  <2> QED
    BY <2>1, <2>2 DEF Bits, MAX_BITS
<1> QED
  BY <1>5, <1>7, <1>8, <1>9

\* Bits that are in range are an exponent, not above the greatest, and three digits.
LEMMA DigitsOfBits ==
  ASSUME NEW bits \in Nat, BitsInRange(bits)
  PROVE  /\ Exponent(bits) \in 0 .. MaxExponent
         /\ Significand(bits) \in 0 .. Base^3 - 1
         /\ bits = (Base^3 * Exponent(bits)) + Significand(bits)
<1> DEFINE cube == Base^3
           e == bits \div cube
           m == bits % cube
<1>1. MaxExponent \in Nat /\ MaxExponent >= 3
  BY CompactAssumption
<1>2. cube \in Nat \ {0} /\ Base^2 \in Nat /\ Base^2 <= cube
  <2>1. 3 \in 0 .. MaxExponent + 1 /\ 2 \in 0 .. MaxExponent + 1 /\ 2 \in 0 .. 3
    BY <1>1
  <2> QED
    BY <2>1, PowersAssumption
<1>3. MAX_BITS < (MaxExponent + 1) * cube
  <2>1. MaxExponent * cube \in Nat /\ (MaxExponent + 1) * cube = (MaxExponent * cube) + cube
    BY <1>1, <1>2
  <2> QED
    BY <1>2, <2>1 DEF MAX_BITS
<1> HIDE DEF cube
<1>4. /\ m \in 0 .. cube - 1 /\ e \in Nat
      /\ bits = (cube * e) + m
  BY <1>2, Remainder
<1>5. e <= MaxExponent
  <2> HIDE DEF e, m
  <2>1. SUFFICES ASSUME e >= MaxExponent + 1 PROVE FALSE
    BY <1>1, <1>4
  <2>2. cube * e >= cube * (MaxExponent + 1)
    <3>1. \A a, b, c \in Nat : b >= c => a * b >= a * c
      OBVIOUS
    <3> QED
      BY <1>1, <1>2, <1>4, <2>1, <3>1
  <2>3. bits < (MaxExponent + 1) * cube
    <3>1. MAX_BITS \in Nat
      <4>1. MaxExponent * cube \in Nat
        BY <1>1, <1>2
      <4>2. Base^2 >= 1
        BY PowersAssumption, <1>1
      <4> QED
        BY <1>2, <4>1, <4>2 DEF MAX_BITS, cube
    <3>2. (MaxExponent + 1) * cube \in Nat
      BY <1>1, <1>2
    <3> QED
      BY <1>3, <3>1, <3>2 DEF BitsInRange
  <2>4. cube * (MaxExponent + 1) = (MaxExponent + 1) * cube /\ cube * e \in Nat
    BY <1>1, <1>2, <1>4
  <2> QED
    BY <1>1, <1>2, <1>4, <2>2, <2>3, <2>4
<1> QED
  BY <1>1, <1>4, <1>5 DEF Exponent, Significand, cube

\* Such bits encode a number.
LEMMA TargetType ==
  ASSUME NEW bits \in Nat, BitsInRange(bits)
  PROVE  bits_to_target(bits) \in Nat
<1> DEFINE e == Exponent(bits)
           m == Significand(bits)
<1>1. e \in 0 .. MaxExponent /\ m \in Nat /\ MaxExponent \in Nat
  BY DigitsOfBits, CompactAssumption, Powers
<1>2. CASE e \in 0 .. 2
  <2>1. Base^(3 - e) \in Nat \ {0}
    BY <1>1, <1>2, CompactAssumption, PowersAssumption
  <2>2. \A a \in Nat, d \in Nat \ {0} : a \div d \in Nat
    OBVIOUS
  <2>3. m \div Base^(3 - e) \in Nat
    BY <1>1, <2>1, <2>2
  <2> QED
    BY <1>2, <2>3 DEF bits_to_target
<1>3. CASE e \notin 0 .. 2
  <2>1. Base^(e - 3) \in Nat
    BY <1>1, <1>3, PowersAssumption
  <2>2. m * Base^(e - 3) \in Nat
    BY <1>1, <2>1
  <2> QED
    BY <1>3, <2>2 DEF bits_to_target
<1> QED
  BY <1>2, <1>3

LEMMA LimitBitsType == MAX_BITS \in Nat
<1>1. 2 \in 0 .. MaxExponent + 1 /\ 3 \in 0 .. MaxExponent + 1 /\ MaxExponent \in Nat
  BY CompactAssumption
<1>2. Base^2 \in Nat \ {0} /\ Base^3 \in Nat
  BY <1>1, PowersAssumption
<1>3. MaxExponent * Base^3 \in Nat
  BY <1>1, <1>2
<1> QED
  BY <1>2, <1>3 DEF MAX_BITS

\* An answer that passes the check keeps some digits of the target and adds none.
LEMMA AcceptedIsBelow ==
  ASSUME NEW t \in Nat, NEW bits \in target_to_bits(t)
  PROVE  /\ bits \in 0 .. MAX_BITS /\ bits \in Nat /\ VerifyCompact(t, bits)
         /\ bits_to_target(bits) \in Nat /\ bits_to_target(bits) <= t
<1> DEFINE e == Exponent(bits)
           cube == Base^3
<1>1. bits \in 0 .. MAX_BITS /\ bits \in Nat /\ VerifyCompact(t, bits)
  BY LimitBitsType DEF target_to_bits
<1>2. BitsInRange(bits)
  BY <1>1 DEF VerifyCompact
<1>3. bits_to_target(bits) \in Nat /\ e \in 0 .. MaxExponent /\ MaxExponent \in Nat
  BY <1>1, <1>2, TargetType, DigitsOfBits, CompactAssumption
<1>4. CASE e \in 0 .. 2
  BY <1>1, <1>3, <1>4 DEF VerifyCompact
<1>5. CASE e \notin 0 .. 2
  <2> DEFINE w == Base^(e - 3)
             q == t \div w
  <2>1. w \in Nat \ {0}
    BY <1>3, <1>5, PowersAssumption
  <2>2. bits_to_target(bits) = (q % cube) * w
    BY <1>1, <1>5 DEF VerifyCompact
  <2>3. cube \in Nat \ {0}
    BY CompactAssumption, PowersAssumption
  <2>4. q \in Nat /\ t % w \in Nat /\ t = (w * q) + (t % w)
    <3> HIDE DEF w
    <3>1. t % w \in 0 .. w - 1 /\ t \div w \in Nat /\ t = (w * (t \div w)) + (t % w)
      BY <2>1, Remainder
    <3> QED
      BY <2>1, <3>1
  <2> HIDE DEF w, cube, q
  <2>5. q % cube \in 0 .. q
    BY <2>3, <2>4, RemainderAtMost
  <2>6. (q % cube) * w <= q * w /\ q * w = w * q /\ w * q \in Nat
    <3>1. \A a, b, v \in Nat : a <= b => a * v <= b * v
      OBVIOUS
    <3> QED
      BY <2>1, <2>4, <2>5, <3>1
  <2>7. (q % cube) * w \in Nat
    BY <2>1, <2>4, <2>5
  <2> QED
    BY <1>1, <1>3, <2>2, <2>4, <2>6, <2>7
<1> QED
  BY <1>1, <1>3, <1>4, <1>5

\* Two answers with one exponent of three or more are the same answer.
LEMMA OnlyExponentIsFree ==
  ASSUME NEW t \in Nat, NEW a \in target_to_bits(t), NEW b \in target_to_bits(t),
         Exponent(a) = Exponent(b), Exponent(a) >= 3
  PROVE  a = b
<1> DEFINE w == Base^(Exponent(a) - 3)
           x == Significand(a)
           y == Significand(b)
<1>1. /\ a \in Nat /\ b \in Nat /\ VerifyCompact(t, a) /\ VerifyCompact(t, b)
      /\ BitsInRange(a) /\ BitsInRange(b)
  BY AcceptedIsBelow DEF VerifyCompact
<1>2. Exponent(a) \in 0 .. MaxExponent /\ Exponent(a) \notin 0 .. 2 /\ MaxExponent \in Nat
  BY <1>1, DigitsOfBits, CompactAssumption
<1>3. w \in Nat \ {0}
  BY <1>2, PowersAssumption
<1>4. x \in Nat /\ y \in Nat
  BY <1>1, DigitsOfBits, Powers
<1>5. x * w = y * w
  BY <1>1, <1>2 DEF VerifyCompact, bits_to_target
<1>6. x = y
  <2> HIDE DEF w, x, y
  <2>1. \A u, v \in Nat, z \in Nat \ {0} : u * z = v * z => u = v
    OBVIOUS
  <2> QED
    BY <1>3, <1>4, <1>5, <2>1
<1> QED
  BY <1>1, <1>6, DigitsOfBits

-----------------------------------------------------------------------------
(* The operators of HeaderChain, which has the same parameters *)

LEMMA SameCompact ==
  /\ \A t : Chain!target_to_bits(t) = target_to_bits(t)
  /\ \A b : Chain!bits_to_target(b) = bits_to_target(b)
  /\ Chain!MAX_TARGET = MAX_TARGET /\ Chain!MAX_BITS = MAX_BITS
<1>1. Chain!MAX_TARGET = MAX_TARGET /\ Chain!MAX_BITS = MAX_BITS
  BY DEF MAX_TARGET, MAX_BITS, Chain!MAX_TARGET, Chain!MAX_BITS
<1>2. \A b : Chain!Exponent(b) = Exponent(b)
  BY DEF Exponent, Chain!Exponent
<1>3. \A b : Chain!bits_to_target(b) = bits_to_target(b)
  BY <1>2 DEF bits_to_target, Chain!bits_to_target, Significand, Chain!Significand
<1>4. \A t, b : Chain!VerifyCompact(t, b) = VerifyCompact(t, b)
  <2>1. \A b : Chain!BitsInRange(b) = BitsInRange(b)
    BY <1>1 DEF BitsInRange, Chain!BitsInRange
  <2> QED
    BY <1>2, <1>3, <2>1 DEF VerifyCompact, Chain!VerifyCompact
<1>5. \A t : Chain!target_to_bits(t) = target_to_bits(t)
  BY <1>1, <1>4 DEF target_to_bits, Chain!target_to_bits
<1> QED
  BY <1>1, <1>3, <1>5

LEMMA SameMedian == \A ts : Chain!MedianHint(ts) = MedianHint(ts)
BY DEF MedianHint, Chain!MedianHint, Rearrangements, Chain!Rearrangements,
       Ascending, Chain!Ascending

LEMMA SameHeader == Chain!Header = Header /\ Chain!TIMESTAMP_COUNT = TIMESTAMP_COUNT
BY DEF Header, Chain!Header, TIMESTAMP_COUNT, Chain!TIMESTAMP_COUNT

-----------------------------------------------------------------------------
(* The target of the next epoch *)

\* A felt that stands for a negative timespan is a very long one.
LEMMA TimespanLimits ==
  ASSUME NEW t \in 0 .. MAX_TIME, NEW s \in 0 .. MAX_TIME
  PROVE  LimitedTimespan((t - s) % PRIME) = Chain!Limited(t - s)
<1> DEFINE longest == EXPECTED_EPOCH_TIMESPAN * 4
           shortest == EXPECTED_EPOCH_TIMESPAN \div 4
<1>1. /\ longest \in Nat /\ shortest \in Nat /\ shortest <= longest
      /\ MAX_TIME \in Nat /\ PRIME \in Nat \ {0} /\ PRIME > MAX_TIME + longest
  BY EpochAssumption, FieldAssumption
<1>2. \A a, b \in Int : Chain!Min({a, b}) = IF a <= b THEN a ELSE b
  BY DEF Chain!Min
<1>3. \A a, b \in Int : Chain!Max({a, b}) = IF a <= b THEN b ELSE a
  BY DEF Chain!Max
<1>4. CASE t - s >= 0
  <2>1. (t - s) % PRIME = t - s
    BY <1>1, <1>4
  <2>2. Chain!Limited(t - s) = Chain!Min({longest, Chain!Max({shortest, t - s})})
    BY <1>1, <1>4 DEF Chain!Limited
  <2> HIDE DEF longest, shortest
  <2>3. t - s \in Int
    BY <1>1
  <2>4. Chain!Max({shortest, t - s}) = IF shortest <= t - s THEN t - s ELSE shortest
    BY <1>1, <1>3, <2>3
  <2>5. Chain!Max({shortest, t - s}) \in Int
    BY <1>1, <2>3, <2>4
  <2>6. Chain!Limited(t - s)
          = IF longest <= Chain!Max({shortest, t - s}) THEN longest
            ELSE Chain!Max({shortest, t - s})
    BY <1>1, <1>2, <2>2, <2>5
  <2>7. LimitedTimespan(t - s) = IF longest <= t - s THEN longest
                                 ELSE IF t - s <= shortest THEN shortest ELSE t - s
    BY DEF LimitedTimespan, longest, shortest
  <2> QED
    BY <1>1, <2>1, <2>3, <2>4, <2>6, <2>7
<1>5. CASE t - s < 0
  <2>1. (t - s) % PRIME = (t - s) + PRIME
    <3>1. t - s \in Int /\ -(t - s) < PRIME
      BY <1>1, <1>5
    <3>2. \A n \in Int, b \in Nat \ {0} : n < 0 /\ -n < b => n % b = n + b
      OBVIOUS
    <3> QED
      BY <1>1, <1>5, <3>1, <3>2
  <2>2. (t - s) + PRIME >= longest
    BY <1>1
  <2> QED
    BY <1>5, <2>1, <2>2 DEF LimitedTimespan, Chain!Limited
<1> QED
  BY <1>1, <1>4, <1>5

LEMMA TimespanType ==
  ASSUME NEW t \in Int
  PROVE  LimitedTimespan(t % PRIME) \in Nat
<1>1. /\ EXPECTED_EPOCH_TIMESPAN * 4 \in Nat /\ EXPECTED_EPOCH_TIMESPAN \div 4 \in Nat
      /\ PRIME \in Nat \ {0}
  BY EpochAssumption, FieldAssumption
<1>2. t % PRIME \in Nat
  BY <1>1
<1> QED
  BY <1>1, <1>2 DEF LimitedTimespan

\* adjust_difficulty at the end of an epoch: the target before it is encoded.
LEMMA AdjustIsRetarget ==
  ASSUME NEW header \in Header, epoch_start_time \in 0 .. MAX_TIME
  PROVE  NextTarget(header) = Chain!Retarget(current_target, header.time - epoch_start_time)
<1>1. header.time \in 0 .. MAX_TIME
  BY DEF Header
<1>2. LimitedTimespan(FeltTimespan(header)) = Chain!Limited(header.time - epoch_start_time)
  BY <1>1, TimespanLimits DEF FeltTimespan
<1> QED
  BY <1>2, SameCompact DEF NextTarget, Chain!Retarget

LEMMA NextTargetType ==
  ASSUME NEW header \in Header, epoch_start_time \in 0 .. MAX_TIME,
         current_target \in Nat, BitsInRange(current_target)
  PROVE  NextTarget(header) \in Nat
<1> DEFINE span == LimitedTimespan(FeltTimespan(header))
           old == bits_to_target(current_target)
<1>1. span \in Nat
  <2>1. header.time - epoch_start_time \in Int
    BY EpochAssumption DEF Header
  <2> QED
    BY <2>1, TimespanType DEF FeltTimespan
<1>2. old \in Nat
  BY TargetType
<1>3. NextTarget(header) = (old * span) \div EXPECTED_EPOCH_TIMESPAN
  BY DEF NextTarget
<1>4. \A a, b \in Nat, d \in Nat \ {0} : (a * b) \div d \in Nat
  OBVIOUS
<1> HIDE DEF span, old
<1> QED
  BY <1>1, <1>2, <1>3, <1>4, EpochAssumption

-----------------------------------------------------------------------------
(* A header more *)

LEMMA ExtendedChain ==
  ASSUME NEW c \in Seq(Header), NEW header \in Header
  PROVE  LET d == Append(c, header) IN
         /\ d \in Seq(Header) /\ d # << >>
         /\ Len(c) \in Nat /\ Len(d) = Len(c) + 1
         /\ \A i \in 1 .. Len(c) : d[i] = c[i]
         /\ d[Len(c) + 1] = header
         /\ Chain!Last(d) = header /\ SubSeq(d, 1, Len(d) - 1) = c
<1> DEFINE d == Append(c, header)
<1>1. /\ d \in Seq(Header) /\ Len(c) \in Nat /\ Len(d) = Len(c) + 1
      /\ \A i \in 1 .. Len(c) : d[i] = c[i]
      /\ d[Len(c) + 1] = header
  BY AppendProperties, LenProperties
<1>2. d # << >>
  BY <1>1, AppendProperties
<1>3. Chain!Last(d) = header
  BY <1>1 DEF Chain!Last
<1>4. SubSeq(d, 1, Len(d) - 1) = c
  <2>1. SubSeq(d, 1, Len(c)) \in Seq(Header) /\ Len(SubSeq(d, 1, Len(c))) = Len(c)
    BY <1>1, SubSeqProperties
  <2>2. \A i \in 1 .. Len(c) : SubSeq(d, 1, Len(c))[i] = d[i]
    BY <1>1, SubSeqProperties
  <2>3. SubSeq(d, 1, Len(c)) = c
    BY <1>1, <2>1, <2>2, SeqEqual
  <2> QED
    BY <1>1, <2>3
<1> QED
  BY <1>1, <1>2, <1>3, <1>4

\* next_prev_timestamps
LEMMA ExtendedTimes ==
  ASSUME NEW c \in Seq(Header), NEW header \in Header,
         prev_timestamps = Chain!RecentTimes(c)
  PROVE  next_prev_timestamps(header) = Chain!RecentTimes(Append(c, header))
<1> DEFINE d == Append(c, header)
<1>1. /\ Len(c) \in Nat /\ Len(d) = Len(c) + 1
      /\ \A i \in 1 .. Len(c) : d[i] = c[i]
      /\ d[Len(c) + 1] = header
  BY ExtendedChain
<1>2. TIMESTAMP_COUNT \in Nat
  BY HalfAssumption DEF TIMESTAMP_COUNT
<1> HIDE DEF d
<1>3. ASSUME NEW i \in 1 .. TIMESTAMP_COUNT
      PROVE  (IF i = 1 THEN header.time ELSE prev_timestamps[i - 1])
               = IF i <= Len(d) THEN d[Len(d) + 1 - i].time ELSE 0
  <2>1. CASE i = 1
    BY <1>1, <2>1
  <2>2. CASE i # 1
    <3>1. i - 1 \in 1 .. TIMESTAMP_COUNT
      BY <1>2, <2>2
    <3>2. prev_timestamps[i - 1]
            = IF i - 1 <= Len(c) THEN c[Len(c) + 1 - (i - 1)].time ELSE 0
      BY <3>1, SameHeader DEF Chain!RecentTimes
    <3>3. CASE i - 1 <= Len(c)
      <4>1. Len(c) + 1 - (i - 1) \in 1 .. Len(c) /\ Len(c) + 1 - (i - 1) = Len(d) + 1 - i
        BY <1>1, <2>2, <3>3
      <4> QED
        BY <1>1, <2>2, <3>2, <3>3, <4>1
    <3>4. CASE ~(i - 1 <= Len(c))
      BY <1>1, <2>2, <3>2, <3>4
    <3> QED
      BY <3>3, <3>4
  <2> QED
    BY <2>1, <2>2
<1> QED
  BY <1>3, SameHeader DEF next_prev_timestamps, Chain!RecentTimes, d

\* The start of an epoch moves with the last block of the one before.
LEMMA ExtendedEpoch ==
  ASSUME NEW c \in Seq(Header), NEW header \in Header,
         block_height = Len(c) - 1, epoch_start_time = Chain!EpochStart(c),
         adjust_difficulty(header)
  PROVE  /\ EndsEpoch(block_height + 1) <=> Len(Append(c, header)) % BLOCKS_PER_EPOCH = 0
         /\ epoch_start_time' = Chain!EpochStart(Append(c, header))
<1> DEFINE d == Append(c, header)
           n == Len(c)
           rest == n % BLOCKS_PER_EPOCH
<1>1. /\ n \in Nat /\ Len(d) = n + 1
      /\ \A i \in 1 .. n : d[i] = c[i]
      /\ d[n + 1] = header
  BY ExtendedChain
<1>2. BLOCKS_PER_EPOCH \in Nat \ {0}
  BY EpochAssumption
<1>3. /\ rest \in 0 .. n /\ rest \in Nat
      /\ (n + 1) % BLOCKS_PER_EPOCH = IF rest = BLOCKS_PER_EPOCH - 1 THEN 0 ELSE rest + 1
  <2> HIDE DEF n
  <2>1. rest \in 0 .. n
    BY <1>1, <1>2, RemainderAtMost
  <2>2. (n + 1) % BLOCKS_PER_EPOCH = IF rest = BLOCKS_PER_EPOCH - 1 THEN 0 ELSE rest + 1
    BY <1>1, <1>2, NextRemainder
  <2> QED
    BY <1>1, <2>1, <2>2
<1>4. block_height + 1 = n
  BY <1>1
<1>5. EndsEpoch(block_height + 1) <=> rest = BLOCKS_PER_EPOCH - 1
  BY <1>4 DEF EndsEpoch
<1>6. Len(d) % BLOCKS_PER_EPOCH = IF rest = BLOCKS_PER_EPOCH - 1 THEN 0 ELSE rest + 1
  BY <1>1, <1>3
<1> HIDE DEF d, rest, n
<1>7. CASE rest = BLOCKS_PER_EPOCH - 1
  <2>1. epoch_start_time' = header.time
    BY <1>5, <1>7 DEF adjust_difficulty
  <2>2. Len(d) - (Len(d) % BLOCKS_PER_EPOCH) = n + 1 /\ n + 1 # 0
    BY <1>1, <1>6, <1>7
  <2>3. Chain!EpochStart(d) = header.time
    BY <1>1, <2>2 DEF Chain!EpochStart
  <2> QED
    BY <1>5, <1>6, <1>7, <2>1, <2>3 DEF d
<1>8. CASE rest # BLOCKS_PER_EPOCH - 1
  <2>1. epoch_start_time' = Chain!EpochStart(c)
    BY <1>5, <1>8 DEF adjust_difficulty
  <2>2. Len(d) - (Len(d) % BLOCKS_PER_EPOCH) = n - rest /\ rest + 1 # 0
    BY <1>1, <1>3, <1>6, <1>8
  <2>3. n - rest \in 0 .. n
    BY <1>1, <1>3
  <2>4. Chain!EpochStart(c) = IF n - rest = 0 THEN GENESIS_TIME ELSE c[n - rest].time
    BY DEF Chain!EpochStart, n, rest
  <2>5. Chain!EpochStart(d) = IF n - rest = 0 THEN GENESIS_TIME ELSE d[n - rest].time
    BY <2>2 DEF Chain!EpochStart
  <2>6. n - rest # 0 => d[n - rest] = c[n - rest]
    BY <1>1, <2>3
  <2>7. epoch_start_time' = Chain!EpochStart(d)
    BY <2>1, <2>4, <2>5, <2>6
  <2>8. Len(d) % BLOCKS_PER_EPOCH # 0
    BY <1>6, <1>8, <2>2
  <2> QED
    BY <1>5, <1>8, <2>7, <2>8 DEF d
<1> QED
  BY <1>7, <1>8

-----------------------------------------------------------------------------
(* The inductive invariant *)

\* The time of an epoch's start is a timestamp, which says what a felt makes of
\* the length of the epoch.
IInv ==
  /\ headers \in Seq(Header)
  /\ epoch_start_time \in 0 .. MAX_TIME
  /\ StateSummarisesChain

LEMMA InitInv == Init => IInv
<1> SUFFICES ASSUME Init PROVE IInv
  OBVIOUS
<1>1. headers = << >> /\ headers \in Seq(Header) /\ Len(headers) = 0
  BY EmptySeq DEF Init
<1>2. BLOCKS_PER_EPOCH \in Nat \ {0} /\ GENESIS_TIME \in 0 .. MAX_TIME
  BY EpochAssumption
<1>3. Chain!EpochStart(headers) = GENESIS_TIME
  <2>1. 0 % BLOCKS_PER_EPOCH = 0
    BY <1>2
  <2> QED
    BY <1>1, <2>1 DEF Chain!EpochStart
<1>4. Chain!RecentTimes(headers) = prev_timestamps
  <2>1. TIMESTAMP_COUNT \in Nat
    BY HalfAssumption DEF TIMESTAMP_COUNT
  <2> QED
    BY <1>1, <2>1, SameHeader DEF Init, Chain!RecentTimes
<1>5. Chain!Tip(headers) = GENESIS_HASH /\ current_target \in Chain!AllowedBits(headers)
  BY <1>1, SameCompact DEF Init, Chain!Tip, Chain!AllowedBits
<1> QED
  BY <1>1, <1>2, <1>3, <1>4, <1>5 DEF Init, IInv, StateSummarisesChain

\* validate_and_apply_block_header
LEMMA AcceptInv ==
  ASSUME IInv, NEW header \in Header, validate_and_apply_block_header(header)
  PROVE  IInv'
<1>1. /\ headers' = Append(headers, header)
      /\ block_height' = block_height + 1
      /\ best_block_hash' = header.hash
      /\ adjust_difficulty(header)
      /\ prev_timestamps' = next_prev_timestamps(header)
  BY DEF validate_and_apply_block_header, apply_block_header
<1>2. header.bits = current_target /\ BitsInRange(current_target) /\ current_target \in Nat
  BY DEF validate_and_apply_block_header, Valid, validate_target, Header
<1>3. /\ headers \in Seq(Header) /\ epoch_start_time \in 0 .. MAX_TIME
      /\ block_height = Len(headers) - 1
      /\ prev_timestamps = Chain!RecentTimes(headers)
      /\ epoch_start_time = Chain!EpochStart(headers)
  BY DEF IInv, StateSummarisesChain
<1>4. /\ headers' \in Seq(Header) /\ headers' # << >>
      /\ Len(headers) \in Nat /\ Len(headers') = Len(headers) + 1
      /\ Chain!Last(headers') = header /\ SubSeq(headers', 1, Len(headers') - 1) = headers
  BY <1>1, <1>3, ExtendedChain
<1>5. /\ block_height' = Len(headers') - 1
      /\ best_block_hash' = Chain!Tip(headers')
  BY <1>1, <1>3, <1>4 DEF Chain!Tip
<1>6. prev_timestamps' = Chain!RecentTimes(headers')
  BY <1>1, <1>3, ExtendedTimes
<1>7. /\ epoch_start_time' = Chain!EpochStart(headers')
      /\ EndsEpoch(block_height + 1) <=> Len(headers') % BLOCKS_PER_EPOCH = 0
  BY <1>1, <1>3, ExtendedEpoch
<1>8. epoch_start_time' \in 0 .. MAX_TIME
  BY <1>1, <1>3 DEF adjust_difficulty, Header
<1>9. current_target' \in Chain!AllowedBits(headers')
  <2>1. CASE EndsEpoch(block_height + 1)
    <3>1. NextTarget(header) = Chain!NextEpochTarget(headers')
      BY <1>2, <1>3, <1>4, AdjustIsRetarget DEF Chain!NextEpochTarget
    <3>2. current_target' \in IF NextTarget(header) <= MAX_TARGET
                                THEN target_to_bits(NextTarget(header)) ELSE {MAX_BITS}
      BY <1>1, <2>1 DEF adjust_difficulty
    <3>3. NextTarget(header) \in Nat
      BY <1>2, <1>3, NextTargetType
    <3>4. Chain!AllowedBits(headers')
            = IF NextTarget(header) > MAX_TARGET THEN {MAX_BITS}
              ELSE target_to_bits(NextTarget(header))
      BY <1>4, <1>7, <2>1, <3>1, SameCompact DEF Chain!AllowedBits
    <3> QED
      BY <3>2, <3>3, <3>4, LimitType
  <2>2. CASE ~EndsEpoch(block_height + 1)
    <3>1. Chain!AllowedBits(headers') = {header.bits}
      BY <1>4, <1>7, <2>2 DEF Chain!AllowedBits
    <3> QED
      BY <1>1, <1>2, <2>2, <3>1 DEF adjust_difficulty
  <2> QED
    BY <2>1, <2>2
<1>10. StateSummarisesChain'
  BY <1>5, <1>6, <1>7, <1>9 DEF StateSummarisesChain
<1> QED
  BY <1>4, <1>8, <1>10 DEF IInv

LEMMA NextInv == IInv /\ [Next]_vars => IInv'
<1> SUFFICES ASSUME IInv, [Next]_vars PROVE IInv'
  OBVIOUS
<1>1. CASE UNCHANGED vars
  BY <1>1 DEF vars, stateVars, IInv, StateSummarisesChain
<1>2. ASSUME NEW header \in Header, validate_and_apply_block_header(header) PROVE IInv'
  BY <1>2, AcceptInv
<1>3. ASSUME NEW header \in Header, Reject(header) PROVE IInv'
  BY <1>1, <1>3 DEF Reject
<1> QED
  BY <1>1, <1>2, <1>3 DEF Next

\* For chains of any length and epochs and windows of any size, whatever the prover
\* answers: the chain state is what the headers accepted make it, and its target
\* is one that the rules over the history allow.
THEOREM StateIsSummary == Spec => []StateSummarisesChain
<1>1. IInv => StateSummarisesChain
  BY DEF IInv
<1> QED
  BY <1>1, InitInv, NextInv, PTL DEF Spec

\* Every header that validate_and_apply_block_header accepts is one that the
\* rules over the whole history allow, whatever the prover answers.
THEOREM AcceptsByTheRules == Spec => ImplementsHeaderChain
<1>1. Init => Chain!Init
  BY DEF Init, Chain!Init
<1>2. IInv /\ [Next]_vars => [Chain!Next]_headers
  <2> SUFFICES ASSUME IInv, Next, headers' # headers PROVE Chain!Next
    BY DEF vars
  <2>1. PICK header \in Header : validate_and_apply_block_header(header)
    BY DEF Next, Reject, vars
  <2>2. /\ headers' = Append(headers, header) /\ headers \in Seq(Header)
        /\ headers' # << >> /\ Chain!Last(headers') = header
    BY <2>1, ExtendedChain DEF validate_and_apply_block_header, apply_block_header, IInv
  <2>3. /\ header.prev_block_hash = Chain!Tip(headers)
        /\ header.bits \in Chain!AllowedBits(headers)
        /\ header.hash <= Chain!bits_to_target(header.bits)
    BY <2>1, SameCompact DEF validate_and_apply_block_header, Valid, validate_prev_block_hash,
       validate_target, validate_proof_of_work, Target, IInv, StateSummarisesChain
  <2>4. header.time >= Chain!MedianTimePast(headers)
    BY <2>1, SameMedian DEF validate_and_apply_block_header, Valid, validate_timestamp,
       Chain!MedianTimePast, IInv, StateSummarisesChain
  <2> QED
    BY <2>2, <2>3, <2>4, SameHeader DEF Chain!Next, Chain!Extend, Chain!Allowed
<1> QED
  BY <1>1, <1>2, InitInv, NextInv, PTL DEF Spec, ImplementsHeaderChain, Chain!Spec

-----------------------------------------------------------------------------
(* The compact form of any target *)

\* The number of digits of a target.
LEMMA SizeIs ==
  ASSUME NEW t \in 1 .. MAX_TARGET
  PROVE  /\ Size(t) \in 1 .. MaxExponent - 1
         /\ Base^(Size(t) - 1) <= t /\ t < Base^Size(t)
<1> DEFINE sizes == {k \in 0 .. MaxExponent + 1 : t < Base^k}
<1>1. MaxExponent \in Nat /\ MaxExponent >= 3 /\ t \in Nat /\ t >= 1 /\ t <= MAX_TARGET
  BY CompactAssumption, LimitType
<1>2. MaxExponent - 1 \in sizes
  <2>1. MAX_TARGET < Base^(MaxExponent - 1)
    <3> DEFINE w == Base^(MaxExponent - 3)
    <3>1. /\ w \in Nat \ {0} /\ MAX_TARGET = ((Base * Base) - 1) * w
          /\ Base^(MaxExponent - 1) = Base * (Base * w)
      BY PowersAtLimit
    <3>2. \A v \in Nat \ {0} : ((Base * Base) - 1) * v = (Base * (Base * v)) - v
      BY Powers
    <3>3. \A v \in Nat \ {0} : Base * (Base * v) \in Nat
      BY Powers
    <3> HIDE DEF w
    <3> QED
      BY <3>1, <3>2, <3>3
  <2>2. MaxExponent - 1 \in 0 .. MaxExponent + 1 /\ Base^(MaxExponent - 1) \in Nat
    BY <1>1, PowersAssumption
  <2> QED
    BY <1>1, <2>1, <2>2, LimitType
<1>3. PICK k \in sizes : \A j \in sizes : k <= j
  <2>1. sizes \in SUBSET Nat /\ sizes # {}
    BY <1>1, <1>2
  <2> HIDE DEF sizes
  <2> QED
    BY <2>1, LeastNumber
<1>4. Size(t) = k
  <2>1. sizes \subseteq Int
    OBVIOUS
  <2>2. Min(sizes) = k
    <3> HIDE DEF sizes
    <3> QED
      BY <1>3, <2>1, MinIsLeast
  <2> QED
    BY <2>2 DEF Size
<1>5. k \in 1 .. MaxExponent - 1
  <2>1. k # 0
    BY <1>1, <1>3, Powers
  <2> QED
    BY <1>1, <1>2, <1>3, <2>1
<1>6. Base^(k - 1) <= t
  <2>1. k - 1 \in 0 .. MaxExponent + 1 /\ k - 1 \notin sizes
    BY <1>1, <1>3, <1>5
  <2> QED
    BY <1>1, <2>1, PowersAssumption
<1> QED
  BY <1>3, <1>4, <1>5, <1>6

\* The three highest digits of a target, the highest of them not zero.
Leading(t) ==
  IF Size(t) <= 3 THEN t * Base^(3 - Size(t)) ELSE t \div Base^(Size(t) - 3)

\* The bit that Bitcoin reads as a sign.
Signed(t) == Leading(t) >= (Base \div 2) * Base^2

\* The hint's answer in digits: three leading ones, or two and a zero where the first would be taken for a sign.
LEMMA HintIs ==
  ASSUME NEW t \in 1 .. MAX_TARGET
  PROVE  CompactHint(t) = IF Signed(t) THEN Bits(Size(t) + 1, Leading(t) \div Base)
                                          ELSE Bits(Size(t), Leading(t))
<1>1. t \in Int /\ MAX_TARGET \in Int /\ t <= MAX_TARGET /\ t # 0
  BY LimitType
<1>2. Min({t, MAX_TARGET}) = t
  BY <1>1, MinOfPair
<1> QED
  BY <1>1, <1>2 DEF CompactHint, Signed, Leading

\* The weight of the lowest digit that is kept, if there are four digits or more.
LEMMA Weight ==
  ASSUME NEW t \in 1 .. MAX_TARGET, NEW w, Size(t) >= 3, w = Base^(Size(t) - 3)
  PROVE  /\ w \in Nat \ {0} /\ Leading(t) = t \div w
         /\ Base^2 * w <= t /\ t < Base^3 * w
         /\ Base^(Size(t) - 1) = Base^2 * w /\ Base^Size(t) = Base^3 * w
         /\ Base^(Size(t) - 2) = Base * w
<1> DEFINE size == Size(t)
<1>1. size \in 1 .. MaxExponent - 1 /\ Base^(size - 1) <= t /\ t < Base^size
  BY SizeIs
<1>2. MaxExponent \in Nat /\ t \in Nat /\ size >= 3
  BY CompactAssumption, LimitType
<1> HIDE DEF size
<1>3. /\ size - 3 \in 0 .. MaxExponent + 1 /\ size - 2 \in 0 .. MaxExponent + 1
      /\ size - 1 \in 0 .. MaxExponent + 1
      /\ (size - 3) + 1 = size - 2 /\ (size - 2) + 1 = size - 1 /\ (size - 1) + 1 = size
  BY <1>1, <1>2
<1>4. /\ w \in Nat \ {0} /\ Base^(size - 2) = Base * w
      /\ Base^(size - 1) = Base * (Base * w) /\ Base^size = Base * (Base * (Base * w))
  <2>1. w = Base^(size - 3)
    BY DEF size
  <2>2. w \in Nat \ {0} /\ Base^((size - 3) + 1) = Base * w
    BY <1>3, <2>1, PowersAssumption
  <2>3. Base^((size - 2) + 1) = Base * Base^(size - 2) /\ Base^((size - 1) + 1) = Base * Base^(size - 1)
    BY <1>3, PowersAssumption
  <2> QED
    BY <1>3, <2>2, <2>3
<1>5. Base * (Base * w) = Base^2 * w /\ Base * (Base * (Base * w)) = Base^3 * w
  <2>1. \A b, v \in Nat : b * (b * v) = (b * b) * v /\ b * (b * (b * v)) = (b * (b * b)) * v
    OBVIOUS
  <2> QED
    BY <1>4, <2>1, Powers
<1>6. Leading(t) = t \div w
  <2>1. CASE size = 3
    <3>1. w = 1 /\ Base^(3 - size) = 1 /\ Leading(t) = t * 1
      BY <2>1, Powers DEF Leading, size
    <3> QED
      BY <1>2, <3>1
  <2>2. CASE size # 3
    BY <1>1, <1>2, <2>2 DEF Leading, size
  <2> QED
    BY <2>1, <2>2
<1> QED
  BY <1>1, <1>4, <1>5, <1>6 DEF size

\* The leading digits begin with one that is not zero.
LEMMA LeadingRange ==
  ASSUME NEW t \in 1 .. MAX_TARGET
  PROVE  Leading(t) \in Base^2 .. Base^3 - 1
<1> DEFINE size == Size(t)
<1>1. size \in 1 .. MaxExponent - 1 /\ Base^(size - 1) <= t /\ t < Base^size
  BY SizeIs
<1>2. MaxExponent \in Nat /\ t \in Nat
  BY CompactAssumption, LimitType
<1>3. CASE size >= 3
  <2> DEFINE w == Base^(size - 3)
  <2>1. w \in Nat \ {0} /\ Leading(t) = t \div w /\ Base^2 * w <= t /\ t < Base^3 * w
    BY <1>3, Weight
  <2>2. Base^2 \in Nat /\ Base^3 \in Nat
    BY Powers
  <2> HIDE DEF w
  <2> QED
    BY <1>2, <2>1, <2>2, QuotientBetween
<1>4. CASE size = 2
  <2>1. Leading(t) = t * Base /\ Base <= t /\ t < Base * Base
    BY <1>1, <1>4, Powers DEF Leading
  <2>2. \A b, x \in Nat : b <= x /\ x < b * b => b * b <= x * b /\ x * b <= (b * (b * b)) - b
    <3> TAKE b \in Nat, x \in Nat
    <3> HAVE b <= x /\ x < b * b
    <3>1. \A c, d, v \in Nat : c <= d => c * v <= d * v
      OBVIOUS
    <3>2. b * b <= x * b
      BY <3>1
    <3>3. b * b \in Nat /\ (b * b) - 1 \in Nat /\ x <= (b * b) - 1
      OBVIOUS
    <3>4. x * b <= ((b * b) - 1) * b
      BY <3>1, <3>3
    <3> QED
      BY <3>2, <3>4
  <2>3. Base * (Base * Base) \in Nat /\ Base * Base \in Nat /\ t * Base \in Nat
    BY <1>2, Powers
  <2>4. Base * Base <= t * Base /\ t * Base <= (Base * (Base * Base)) - Base
    BY <1>2, <2>1, <2>2, Powers
  <2> QED
    BY <2>1, <2>3, <2>4, Powers
<1>5. CASE size = 1
  <2>1. Leading(t) = t * (Base * Base) /\ t < Base /\ t >= 1
    BY <1>1, <1>5, Powers DEF Leading
  <2>2. \A b, x \in Nat : 1 <= x /\ x < b => b * b <= x * (b * b) /\ x * (b * b) <= (b * (b * b)) - (b * b)
    <3> TAKE b \in Nat, x \in Nat
    <3> HAVE 1 <= x /\ x < b
    <3>1. \A c, d, v \in Nat : c <= d => c * v <= d * v
      OBVIOUS
    <3> DEFINE s == b * b
    <3>2. s \in Nat /\ b * s = (b - 1) * s + s
      OBVIOUS
    <3> HIDE DEF s
    <3>3. 1 * s <= x * s /\ x * s <= (b - 1) * s
      BY <3>1, <3>2
    <3>4. s <= x * s /\ x * s <= b * s - s
      BY <3>2, <3>3
    <3> QED
      BY <3>4 DEF s
  <2>3. Base * (Base * Base) \in Nat /\ Base * Base \in Nat /\ Base * Base >= 1 /\ t * (Base * Base) \in Nat
    <3>1. Base * Base >= 2 * 2
      BY Powers
    <3> QED
      BY <1>2, <3>1, Powers
  <2>4. Base * Base <= t * (Base * Base) /\ t * (Base * Base) <= (Base * (Base * Base)) - (Base * Base)
    BY <1>2, <2>1, <2>2, Powers
  <2> QED
    BY <2>1, <2>3, <2>4, Powers
<1> QED
  BY <1>1, <1>2, <1>3, <1>4, <1>5

\* bits as a pair of digits.
LEMMA BitsOf ==
  ASSUME NEW e \in 0 .. MaxExponent, NEW s \in 0 .. Base^3 - 1,
         e = MaxExponent => s <= Base^2 - 1
  PROVE  /\ Bits(e, s) \in Nat /\ BitsInRange(Bits(e, s))
         /\ Exponent(Bits(e, s)) = e /\ Significand(Bits(e, s)) = s
<1> DEFINE cube == Base^3
           square == Base^2
<1>1. MaxExponent \in Nat /\ cube \in Nat \ {0} /\ square \in Nat \ {0} /\ e \in Nat /\ s \in Nat
  <2>1. MaxExponent \in Nat /\ MaxExponent >= 3
    BY CompactAssumption
  <2>2. 3 \in 0 .. MaxExponent + 1 /\ 2 \in 0 .. MaxExponent + 1
    BY <2>1
  <2>3. Base^3 \in Nat \ {0} /\ Base^2 \in Nat \ {0}
    BY <2>2, PowersAssumption
  <2> QED
    BY <2>1, <2>3
<1>2. Bits(e, s) = (cube * e) + s /\ s \in 0 .. cube - 1
  <2>1. e * cube = cube * e
    <3> HIDE DEF cube
    <3> QED
      BY <1>1
  <2> QED
    BY <2>1 DEF Bits
<1>3. e = MaxExponent => s <= square - 1
  OBVIOUS
<1>4. MAX_BITS = ((MaxExponent * cube) + square) - 1
  <2>1. MaxExponent * cube \in Nat
    <3> HIDE DEF cube
    <3> QED
      BY <1>1
  <2> QED
    BY <1>1, <2>1 DEF MAX_BITS
<1> HIDE DEF cube, square
<1>5. ((cube * e) + s) \div cube = e
  BY <1>1, <1>2, QuotientIs
<1>6. ((cube * e) + s) % cube = s
  <2> DEFINE b == (cube * e) + s
  <2>1. b \in Nat
    BY <1>1
  <2>2. b % cube \in 0 .. cube - 1 /\ b = (cube * (b \div cube)) + (b % cube)
    <3> HIDE DEF b
    <3> QED
      BY <1>1, <2>1, Remainder
  <2>3. b \div cube = e
    BY <1>5
  <2>4. cube * e \in Nat
    BY <1>1
  <2>5. b = (cube * e) + (b % cube)
    BY <2>2, <2>3
  <2> QED
    BY <1>1, <2>2, <2>4, <2>5
<1>7. (cube * e) + s <= MAX_BITS
  <2>1. CASE e = MaxExponent
    <3>1. cube * e = MaxExponent * cube /\ cube * e \in Nat
      BY <1>1, <2>1
    <3> QED
      BY <1>1, <1>3, <1>4, <2>1, <3>1
  <2>2. CASE e # MaxExponent
    <3>1. e + 1 <= MaxExponent
      BY <1>1, <2>2
    <3>2. cube * (e + 1) <= cube * MaxExponent
      <4>1. \A x, y, v \in Nat : x <= y => v * x <= v * y
        OBVIOUS
      <4> QED
        BY <1>1, <3>1, <4>1
    <3>3. cube * (e + 1) = (cube * e) + cube /\ cube * MaxExponent = MaxExponent * cube /\ cube * e \in Nat
          /\ MaxExponent * cube \in Nat
      BY <1>1
    <3> QED
      BY <1>1, <1>2, <1>4, <3>2, <3>3
  <2> QED
    BY <2>1, <2>2
<1>8. (cube * e) + s \in Nat
  BY <1>1
<1> QED
  BY <1>2, <1>5, <1>6, <1>7, <1>8 DEF BitsInRange, Exponent, Significand, cube

\* A number of three digits is its own remainder.
LEMMA ThreeDigits ==
  ASSUME NEW s \in 0 .. Base^3 - 1
  PROVE  s % Base^3 = s
<1>1. Base^3 \in Nat
  BY Powers
<1> QED
  BY <1>1

\* What the bits of a target decode to: the target but for the digits below u.
CompactOf(t, u) ==
  /\ u \in Nat \ {0}
  /\ bits_to_target(CompactHint(t)) = (t \div u) * u
  /\ VerifyCompact(t, CompactHint(t))

\* A target of three digits or more loses those below the leading ones.
LEMMA LongTarget ==
  ASSUME NEW t \in 1 .. MAX_TARGET, Size(t) >= 3, NEW w, w = Base^(Size(t) - 3)
  PROVE  CompactOf(t, IF Signed(t) THEN Base * w ELSE w)
<1> DEFINE size == Size(t)
           s == Leading(t)
<1>1. size \in 3 .. MaxExponent - 1 /\ MaxExponent \in Nat /\ t \in Nat
  BY SizeIs, CompactAssumption, LimitType
<1>2. s \in 0 .. Base^3 - 1 /\ s \in Nat
  BY LeadingRange, Powers
<1>3. w \in Nat \ {0} /\ s = t \div w /\ Base^(size - 2) = Base * w
  BY Weight
<1>4. CASE ~Signed(t)
  <2>1. CompactHint(t) = Bits(size, s)
    BY <1>4, HintIs
  <2>2. size \in 0 .. MaxExponent /\ size # MaxExponent /\ size \notin 0 .. 2
    BY <1>1
  <2>3. /\ BitsInRange(Bits(size, s)) /\ Exponent(Bits(size, s)) = size
        /\ Significand(Bits(size, s)) = s
    <3> HIDE DEF size, s
    <3> QED
      BY <1>2, <2>2, BitsOf
  <2>4. bits_to_target(Bits(size, s)) = s * w
    BY <2>2, <2>3 DEF bits_to_target
  <2>5. VerifyCompact(t, Bits(size, s))
    <3>1. (s % Base^3) * w = s * w
      BY <1>2, ThreeDigits
    <3> HIDE DEF s
    <3> QED
      BY <1>3, <2>2, <2>3, <2>4, <3>1 DEF VerifyCompact
  <2> QED
    BY <1>3, <1>4, <2>1, <2>4, <2>5 DEF CompactOf
<1>5. CASE Signed(t)
  <2> DEFINE d == s \div Base
             u == Base * w
  <2>1. CompactHint(t) = Bits(size + 1, d)
    BY <1>5, HintIs
  <2>2. size + 1 \in 0 .. MaxExponent /\ size + 1 \notin 0 .. 2 /\ (size + 1) - 3 = size - 2
    BY <1>1
  <2>3. d \in 0 .. Base^2 - 1
    <3>1. s < (Base * Base) * Base /\ Base \in Nat \ {0} /\ (Base * Base) \in Nat /\ 0 * Base <= s
      <4>1. (Base * Base) * Base = Base * (Base * Base) /\ Base \in Nat
        BY Powers
      <4>2. s < Base^3
        BY <1>2, Powers
      <4> QED
        BY <1>2, <4>1, <4>2, Powers
    <3> HIDE DEF s
    <3>2. d \in 0 .. (Base * Base) - 1
      BY <1>2, <3>1, QuotientBetween
    <3> QED
      BY <3>2, Powers
  <2>4. d \in 0 .. Base^3 - 1
    <3>1. Base * Base <= Base * (Base * Base) /\ Base * Base \in Nat
      <4>1. \A b \in Nat : b >= 2 => b * b <= b * (b * b)
        OBVIOUS
      <4> QED
        BY <4>1, Powers
    <3>2. Base * (Base * Base) \in Nat
      BY Powers
    <3>3. d \in 0 .. (Base * Base) - 1
      BY <2>3, Powers
    <3> HIDE DEF d
    <3> QED
      BY <3>1, <3>2, <3>3, Powers
  <2>5. /\ BitsInRange(Bits(size + 1, d)) /\ Exponent(Bits(size + 1, d)) = size + 1
        /\ Significand(Bits(size + 1, d)) = d
    <3>1. Base^2 \in Nat
      BY Powers
    <3>2. d <= Base^2 - 1
      BY <2>3, <3>1
    <3> HIDE DEF d, size
    <3> QED
      BY <2>2, <2>4, <3>2, BitsOf
  <2>6. bits_to_target(Bits(size + 1, d)) = d * u
    BY <1>3, <2>2, <2>5 DEF bits_to_target
  <2>7. d = t \div u /\ u \in Nat \ {0}
    <3>1. Base \in Nat \ {0}
      BY Powers
    <3>2. (t \div w) \div Base = t \div (Base * w)
      BY <1>1, <1>3, <3>1, QuotientOfQuotient
    <3>3. Base * w \in Nat \ {0}
      <4>1. \A x, y \in Nat \ {0} : x * y \in Nat \ {0}
        OBVIOUS
      <4> QED
        BY <1>3, <3>1, <4>1
    <3> QED
      BY <1>3, <3>2, <3>3
  <2>8. VerifyCompact(t, Bits(size + 1, d))
    <3>1. (d % Base^3) * u = d * u
      BY <2>4, ThreeDigits
    <3>2. Base^((size + 1) - 3) = u
      BY <1>3, <2>2
    <3> HIDE DEF d, u
    <3> QED
      BY <2>2, <2>5, <2>6, <2>7, <3>1, <3>2 DEF VerifyCompact
  <2> QED
    BY <1>5, <2>1, <2>6, <2>7, <2>8 DEF CompactOf
<1> QED
  BY <1>4, <1>5

\* A shorter target loses nothing, ...
LEMMA ShortTarget ==
  ASSUME NEW t \in 1 .. MAX_TARGET, Size(t) \in {1, 2}
  PROVE  CompactOf(t, 1)
<1> DEFINE s == Leading(t)
<1>1. MaxExponent \in Nat /\ MaxExponent >= 3 /\ t \in Nat /\ Base \in Nat \ {0}
  BY CompactAssumption, LimitType
<1>2. s \in 0 .. Base^3 - 1 /\ s \in Nat
  BY LeadingRange, Powers
<1>3. t \div 1 = t /\ t * 1 = t /\ 1 \in Nat \ {0}
  BY <1>1
<1>4. SUFFICES /\ bits_to_target(CompactHint(t)) = t
               /\ VerifyCompact(t, CompactHint(t))
  BY <1>3 DEF CompactOf
<1>5. ASSUME NEW e \in {1, 2}, NEW d \in 0 .. Base^3 - 1,
             CompactHint(t) = Bits(e, d), d = t * Base^(3 - e)
      PROVE  /\ bits_to_target(CompactHint(t)) = t
             /\ VerifyCompact(t, CompactHint(t))
  <2>1. e \in 0 .. MaxExponent /\ e # MaxExponent /\ e \in 0 .. 2 /\ 3 - e \in 0 .. MaxExponent + 1
    BY <1>1
  <2>2. Base^(3 - e) \in Nat \ {0}
    BY <2>1, PowersAssumption
  <2>3. BitsInRange(Bits(e, d)) /\ Exponent(Bits(e, d)) = e /\ Significand(Bits(e, d)) = d
    BY <2>1, BitsOf
  <2>4. bits_to_target(Bits(e, d)) = d \div Base^(3 - e)
    BY <2>1, <2>3 DEF bits_to_target
  <2>5. d \div Base^(3 - e) = t
    BY <1>1, <1>5, <2>2, Cancelled
  <2> QED
    BY <1>5, <2>1, <2>3, <2>4, <2>5 DEF VerifyCompact
<1>6. CASE ~Signed(t)
  <2>1. CompactHint(t) = Bits(Size(t), s) /\ s = t * Base^(3 - Size(t))
    BY <1>6, HintIs DEF Leading
  <2> HIDE DEF s
  <2> QED
    BY <1>2, <1>5, <2>1
<1>7. CASE Signed(t) /\ Size(t) = 1
  <2>1. CompactHint(t) = Bits(2, s \div Base) /\ s = t * (Base * Base)
    BY <1>7, HintIs, Powers DEF Leading
  <2>2. t * (Base * Base) = (t * Base) * Base /\ t * Base \in Nat
    BY <1>1
  <2>3. s \div Base = t * Base
    BY <1>1, <2>1, <2>2, Cancelled
  <2>4. t * Base \in 0 .. Base^3 - 1 /\ t * Base = t * Base^(3 - 2)
    <3>1. t * Base <= (t * Base) * Base
      <4>1. \A x \in Nat, b \in Nat \ {0} : x <= x * b
        OBVIOUS
      <4> QED
        BY <1>1, <2>2, <4>1
    <3>2. Base^3 \in Nat /\ (t * Base) * Base <= Base^3 - 1
      BY <1>2, <2>1, <2>2, Powers
    <3>3. (t * Base) * Base \in Nat
      BY <1>1
    <3>4. t * Base \in 0 .. Base^3 - 1
      BY <2>2, <3>1, <3>2, <3>3
    <3> QED
      BY <3>4, Powers
  <2> QED
    BY <1>5, <2>1, <2>3, <2>4
<1>8. CASE Signed(t) /\ Size(t) = 2
  <2>1. CompactHint(t) = Bits(3, s \div Base) /\ s = t * Base
    BY <1>8, HintIs, Powers DEF Leading
  <2>2. s \div Base = t
    BY <1>1, <2>1, Cancelled
  <2>3. t \in 0 .. Base^3 - 1 /\ t <= Base^2 - 1
    <3>1. t < Base * Base /\ Base * Base \in Nat
      BY <1>8, SizeIs, Powers
    <3>2. Base * Base <= Base * (Base * Base)
      <4>1. \A b \in Nat \ {0} : b * b <= b * (b * b)
        OBVIOUS
      <4> QED
        BY <1>1, <4>1
    <3>3. Base * (Base * Base) \in Nat
      BY <1>1
    <3> QED
      BY <1>1, <3>1, <3>2, <3>3, Powers
  <2>4. BitsInRange(Bits(3, t)) /\ Exponent(Bits(3, t)) = 3 /\ Significand(Bits(3, t)) = t
    <3>1. 3 \in 0 .. MaxExponent
      BY <1>1
    <3> QED
      BY <2>3, <3>1, BitsOf
  <2>5. Base^(3 - 3) = 1 /\ 3 \notin 0 .. 2
    BY Powers
  <2>6. bits_to_target(Bits(3, t)) = t
    BY <1>3, <2>4, <2>5 DEF bits_to_target
  <2>7. VerifyCompact(t, Bits(3, t))
    <3>1. t % Base^3 = t
      BY <2>3, ThreeDigits
    <3> QED
      BY <1>3, <2>4, <2>5, <2>6, <3>1 DEF VerifyCompact
  <2> QED
    BY <2>1, <2>2, <2>6, <2>7
<1> QED
  BY <1>6, <1>7, <1>8

\* ... nor does zero.
LEMMA NoTarget == CompactOf(0, 1)
<1>1. MAX_TARGET \in Nat /\ Base^3 \in Nat \ {0} /\ MaxExponent \in Nat /\ MaxExponent >= 3
  <2>1. MaxExponent \in Nat /\ MaxExponent >= 3
    BY CompactAssumption
  <2>2. 3 \in 0 .. MaxExponent + 1
    BY <2>1
  <2> QED
    BY <2>1, <2>2, PowersAssumption, LimitType
<1>2. CompactHint(0) = 0
  <2>1. Min({0, MAX_TARGET}) = 0
    BY <1>1, MinOfPair
  <2> QED
    BY <2>1 DEF CompactHint
<1>3. Exponent(0) = 0 /\ Significand(0) = 0
  <2>1. \A b \in Nat \ {0} : 0 \div b = 0 /\ 0 % b = 0
    OBVIOUS
  <2> QED
    BY <1>1, <2>1 DEF Exponent, Significand
<1>4. bits_to_target(0) = 0
  <2>1. 0 \div Base^3 = 0
    BY <1>1
  <2> QED
    BY <1>3, <2>1 DEF bits_to_target
<1>5. BitsInRange(0)
  <2>1. 0 \in 0 .. MaxExponent /\ 0 \in 0 .. Base^3 - 1 /\ 0 # MaxExponent
    BY <1>1
  <2>2. BitsInRange(Bits(0, 0))
    BY <2>1, BitsOf
  <2>3. Bits(0, 0) = 0
    BY <1>1 DEF Bits
  <2> QED
    BY <2>2, <2>3
<1> QED
  BY <1>2, <1>3, <1>4, <1>5 DEF CompactOf, VerifyCompact

\* The digits that the compact form of t drops are those below Unit(t).
Unit(t) ==
  IF t = 0 \/ Size(t) < 3 THEN 1
  ELSE Base^(Size(t) - 3) * IF Signed(t) THEN Base ELSE 1

\* All cases together: the target is rounded down to its unit.
LEMMA CompactForm ==
  ASSUME NEW t \in 0 .. MAX_TARGET
  PROVE  CompactOf(t, Unit(t))
<1>1. CASE t = 0
  BY <1>1, NoTarget DEF Unit
<1>2. CASE t # 0 /\ Size(t) < 3
  <2>1. t \in 1 .. MAX_TARGET
    BY <1>2, LimitType
  <2>2. Size(t) \in {1, 2}
    BY <1>2, <2>1, SizeIs, CompactAssumption
  <2> QED
    BY <1>2, <2>1, <2>2, ShortTarget DEF Unit
<1>3. CASE t # 0 /\ ~(Size(t) < 3)
  <2> DEFINE w == Base^(Size(t) - 3)
  <2>1. t \in 1 .. MAX_TARGET
    BY <1>3, LimitType
  <2>2. Size(t) >= 3
    BY <1>3, <2>1, SizeIs, CompactAssumption
  <2>3. CompactOf(t, IF Signed(t) THEN Base * w ELSE w) /\ w \in Nat
    BY <2>1, <2>2, LongTarget, Weight
  <2>4. Unit(t) = IF Signed(t) THEN Base * w ELSE w
    <3>1. Unit(t) = w * IF Signed(t) THEN Base ELSE 1
      BY <1>3 DEF Unit
    <3> HIDE DEF w
    <3>2. w * Base = Base * w /\ w * 1 = w
      BY <2>3, Powers
    <3> QED
      BY <3>1, <3>2
  <2> QED
    BY <2>3, <2>4
<1> QED
  BY <1>1, <1>2, <1>3

\* What the dropped digits weigh.
LEMMA UnitIsSmall ==
  ASSUME NEW t \in 0 .. MAX_TARGET
  PROVE  Unit(t) = 1 \/ Unit(t) * Base^2 <= 2 * t
<1>1. CASE t = 0 \/ Size(t) < 3
  BY <1>1 DEF Unit
<1>2. CASE ~(t = 0 \/ Size(t) < 3)
  <2> DEFINE w == Base^(Size(t) - 3)
             square == Base^2
  <2>1. t \in 1 .. MAX_TARGET /\ t \in Nat
    BY <1>2, LimitType
  <2>2. Size(t) >= 3
    BY <1>2, <2>1, SizeIs, CompactAssumption
  <2>3. w \in Nat \ {0} /\ Leading(t) = t \div w /\ square * w <= t
    BY <2>1, <2>2, Weight
  <2>4. square \in Nat /\ Base \in Nat
    BY Powers
  <2>5. Unit(t) = w * IF Signed(t) THEN Base ELSE 1
    BY <1>2 DEF Unit
  <2>6. CASE ~Signed(t)
    <3> HIDE DEF w, square
    <3>1. Unit(t) = w /\ w * square = square * w /\ square * w \in Nat
      BY <2>3, <2>4, <2>5, <2>6
    <3>2. w * square <= 2 * t
      BY <2>1, <2>3, <3>1
    <3> QED
      BY <3>1, <3>2 DEF square
  <2>7. CASE Signed(t)
    <3>1. PICK half \in Nat : Base = 2 * half /\ Base \div 2 = half
      BY CompactAssumption
    <3>2. t \div w >= half * square
      BY <2>3, <2>7, <3>1 DEF Signed
    <3> HIDE DEF w, square
    <3>3. t = (w * (t \div w)) + (t % w) /\ t % w \in Nat /\ t \div w \in Nat
      BY <2>1, <2>3, Remainder
    <3>4. w * (half * square) <= w * (t \div w)
      <4>1. \A a, b, v \in Nat : a <= b => v * a <= v * b
        OBVIOUS
      <4>2. half * square \in Nat
        BY <2>4, <3>1
      <4> QED
        BY <2>3, <3>2, <3>3, <4>1, <4>2
    <3>5. (w * Base) * square = 2 * (w * (half * square)) /\ w * (half * square) \in Nat
      <4>1. \A a, b, v \in Nat : (v * (2 * a)) * b = 2 * (v * (a * b)) /\ v * (a * b) \in Nat
        OBVIOUS
      <4> QED
        BY <2>3, <2>4, <3>1, <4>1
    <3>6. w * (t \div w) \in Nat
      BY <2>3, <3>3
    <3>7. (w * Base) * square <= 2 * t
      <4>1. w * (half * square) <= t
        BY <2>1, <3>3, <3>4, <3>5, <3>6
      <4> QED
        BY <2>1, <3>5, <4>1
    <3> QED
      BY <2>5, <2>7, <3>7 DEF square
  <2> QED
    BY <2>6, <2>7
<1> QED
  BY <1>1, <1>2

\* Rounding down to a multiple of u loses little if u is small beside the number.
LEMMA WhatIsDropped ==
  ASSUME NEW t \in Nat, NEW u \in Nat \ {0}, NEW b \in Nat \ {0, 1},
         u = 1 \/ u * b <= 2 * t
  PROVE  /\ (t \div u) * u \in Nat /\ (t \div u) * u <= t
         /\ ((t \div u) * u) * b >= t * (b - 2)
<1> DEFINE q == t \div u
           r == t % u
<1>1. r \in 0 .. u - 1 /\ q \in Nat /\ t = (u * q) + r
  BY Remainder
<1> HIDE DEF q, r
<1>2. u * q = q * u /\ q * u \in Nat
  BY <1>1
<1> DEFINE n == q * u
<1>3. n \in Nat /\ t = n + r /\ n <= t
  BY <1>1, <1>2
<1> HIDE DEF n
<1>4. t * (b - 2) = (t * b) - (2 * t) /\ t * b \in Nat /\ n * b \in Nat
  BY <1>3
<1>5. t * b = (n * b) + (r * b)
  BY <1>1, <1>3
<1>6. r * b <= 2 * t
  <2>1. CASE u = 1
    <3>1. r = 0
      BY <1>1, <2>1
    <3> QED
      BY <3>1
  <2>2. CASE u # 1
    <3>1. r * b <= u * b
      <4>1. \A x, y, v \in Nat : x <= y => x * v <= y * v
        OBVIOUS
      <4> QED
        BY <1>1, <4>1
    <3>2. r * b \in Nat /\ u * b \in Nat
      BY <1>1
    <3> QED
      BY <2>2, <3>1, <3>2
  <2> QED
    BY <2>1, <2>2
<1>7. r * b \in Nat
  BY <1>1
<1>8. n * b >= t * (b - 2)
  BY <1>4, <1>5, <1>6, <1>7
<1> QED
  BY <1>3, <1>8 DEF n, q

\* The honest hint is accepted, for
\* every target and any number of digits; what it encodes is never above the
\* target and short of it by at most two parts in Base^2.
LEMMA HintIsClose ==
  ASSUME NEW t \in 0 .. MAX_TARGET
  PROVE  LET n == bits_to_target(CompactHint(t)) IN
         /\ VerifyCompact(t, CompactHint(t))
         /\ n \in Nat /\ n <= t
         /\ n * Base^2 >= t * (Base^2 - 2)
<1>1. /\ Unit(t) \in Nat \ {0}
      /\ bits_to_target(CompactHint(t)) = (t \div Unit(t)) * Unit(t)
      /\ VerifyCompact(t, CompactHint(t))
  BY CompactForm DEF CompactOf
<1>2. Unit(t) = 1 \/ Unit(t) * Base^2 <= 2 * t
  BY UnitIsSmall
<1>3. Base^2 \in Nat \ {0, 1}
  <2>1. Base * Base >= 2 * 2
    BY Powers
  <2> QED
    BY <2>1, Powers
<1>4. t \in Nat
  BY LimitType
<1> QED
  BY <1>1, <1>2, <1>3, <1>4, WhatIsDropped

\* Only one size fits between two powers.
LEMMA SizeIsUnique ==
  ASSUME NEW t \in 1 .. MAX_TARGET, NEW n \in 1 .. MAX_TARGET,
         Base^(Size(t) - 1) <= n, n < Base^Size(t)
  PROVE  Size(n) = Size(t)
<1> DEFINE s == Size(t)
           m == Size(n)
<1>1. s \in 1 .. MaxExponent - 1 /\ m \in 1 .. MaxExponent - 1
  BY SizeIs
<1>2. Base^(s - 1) <= n /\ n < Base^s /\ Base^(m - 1) <= n /\ n < Base^m
  BY SizeIs
<1>3. MaxExponent \in Nat /\ n \in Nat
  BY CompactAssumption, LimitType
<1> HIDE DEF s, m
<1>4. \A k \in 0 .. MaxExponent + 1 : Base^k \in Nat /\ \A j \in 0 .. k : Base^j <= Base^k
  BY PowersAssumption
<1>5. ASSUME NEW a \in 1 .. MaxExponent - 1, NEW b \in 1 .. MaxExponent - 1, a < b,
             n < Base^a, Base^(b - 1) <= n
      PROVE  FALSE
  <2>1. a \in 0 .. b - 1 /\ b - 1 \in 0 .. MaxExponent + 1 /\ a \in 0 .. MaxExponent + 1
    BY <1>3, <1>5
  <2>2. Base^a <= Base^(b - 1) /\ Base^a \in Nat /\ Base^(b - 1) \in Nat
    BY <1>4, <2>1
  <2> QED
    BY <1>3, <1>5, <2>2
<1>6. ~(s < m) /\ ~(m < s)
  BY <1>1, <1>2, <1>5
<1>7. m = s
  BY <1>1, <1>3, <1>6
<1> QED
  BY <1>7 DEF s, m

\* A target that has what t keeps, with the same highest digits, has the bits of t.
LEMMA SameDigits ==
  ASSUME NEW t \in 1 .. MAX_TARGET, NEW n \in 1 .. MAX_TARGET, NEW w, Size(t) >= 3,
         w = Base^(Size(t) - 3), Base^2 * w <= n, n <= t
  PROVE  Size(n) = Size(t) /\ Leading(n) = n \div w
<1>1. /\ w \in Nat \ {0} /\ t < Base^3 * w
      /\ Base^(Size(t) - 1) = Base^2 * w /\ Base^Size(t) = Base^3 * w
  BY Weight
<1>2. n \in Nat /\ t \in Nat /\ Base^3 * w \in Nat
  <2>1. Base^3 \in Nat
    BY Powers
  <2>2. \A a, b \in Nat : a * b \in Nat
    OBVIOUS
  <2> QED
    BY <1>1, <2>1, <2>2, LimitType
<1>3. n < Base^3 * w
  BY <1>1, <1>2
<1>4. Size(n) = Size(t)
  BY <1>1, <1>3, SizeIsUnique
<1>5. Leading(n) = n \div w
  BY <1>4, Weight
<1> QED
  BY <1>4, <1>5

\* Without a sign bit, the three highest digits remain.
LEMMA UnsignedAgain ==
  ASSUME NEW t \in 1 .. MAX_TARGET, Size(t) >= 3, ~Signed(t),
         NEW w, w = Base^(Size(t) - 3)
  PROVE  CompactHint((t \div w) * w) = CompactHint(t)
<1> DEFINE l == t \div w
           n == l * w
           square == Base^2
<1>1. w \in Nat \ {0} /\ Leading(t) = l
  BY Weight
<1>2. Leading(t) \in Base^2 .. Base^3 - 1 /\ square \in Nat /\ square >= 1 /\ Base^3 \in Nat
  <2>1. Base * Base >= 2 * 2
    BY Powers
  <2> QED
    BY <2>1, LeadingRange, Powers
<1>3. l \in Nat /\ l >= square
  BY <1>1, <1>2
<1>4. t \in Nat /\ t <= MAX_TARGET /\ MAX_TARGET \in Nat
  BY LimitType
<1>5. n <= t /\ n \in Nat
  <2>1. t = (w * l) + (t % w) /\ t % w \in Nat
    <3>1. t = (w * (t \div w)) + (t % w) /\ t % w \in 0 .. w - 1
      <4> HIDE DEF l
      <4> QED
        BY <1>1, <1>4, Remainder
    <3>2. t % w \in Nat
      <4> HIDE DEF l
      <4> QED
        BY <1>1, <1>4, <3>1
    <3> QED
      BY <3>1, <3>2
  <2> HIDE DEF l
  <2>2. w * l = l * w /\ l * w \in Nat
    BY <1>1, <1>3
  <2> QED
    BY <1>4, <2>1, <2>2
<1>6. square * w <= n
  <2> HIDE DEF l, square
  <2>1. \A a, b, v \in Nat : a <= b => a * v <= b * v
    OBVIOUS
  <2> QED
    BY <1>1, <1>2, <1>3, <2>1
<1>7. n \in 1 .. MAX_TARGET
  <2>1. square * w >= 1
    <3> HIDE DEF square
    <3>1. \A a, b \in Nat \ {0} : a * b >= 1
      OBVIOUS
    <3> QED
      BY <1>1, <1>2, <3>1
  <2>2. square * w \in Nat
    <3> HIDE DEF square
    <3> QED
      BY <1>1, <1>2
  <2> HIDE DEF n, square
  <2> QED
    BY <1>4, <1>5, <1>6, <2>1, <2>2
<1>8. Size(n) = Size(t) /\ Leading(n) = n \div w
  <2> HIDE DEF n, l
  <2> QED
    BY <1>5, <1>6, <1>7, SameDigits DEF square
<1>9. n \div w = l
  <2> HIDE DEF l
  <2> QED
    BY <1>1, <1>3, Cancelled
<1>10. CompactHint(n) = CompactHint(t)
  <2>1. Leading(n) = Leading(t)
    BY <1>1, <1>8, <1>9
  <2> HIDE DEF n, l
  <2>2. ~Signed(n)
    BY <2>1 DEF Signed
  <2>3. CompactHint(n) = Bits(Size(n), Leading(n)) /\ CompactHint(t) = Bits(Size(t), Leading(t))
    BY <1>7, <2>2, HintIs
  <2> QED
    BY <1>8, <2>1, <2>3
<1> QED
  BY <1>10

\* With one, the two highest digits remain, and the higher still has the bit.
LEMMA SignedAgain ==
  ASSUME NEW t \in 1 .. MAX_TARGET, Size(t) >= 3, Signed(t),
         NEW w, w = Base^(Size(t) - 3)
  PROVE  CompactHint((t \div (Base * w)) * (Base * w)) = CompactHint(t)
<1> DEFINE l == t \div w
           u == Base * w
           d == t \div u
           n == d * u
           square == Base^2
<1>1. w \in Nat \ {0} /\ Leading(t) = l
  BY Weight
<1>2. t \in Nat /\ t <= MAX_TARGET /\ MAX_TARGET \in Nat /\ Base \in Nat \ {0}
  BY LimitType, Powers
<1>3. u \in Nat \ {0}
  <2>1. \A a, b \in Nat \ {0} : a * b \in Nat \ {0}
    OBVIOUS
  <2> QED
    BY <1>1, <1>2, <2>1
<1>4. l \in Nat /\ l = (w * 0) + l
  <2>1. t \div w \in Nat
    BY <1>1, <1>2, Remainder
  <2> QED
    BY <1>1, <2>1
<1>5. l \div Base = d
  BY <1>1, <1>2, QuotientOfQuotient
<1>6. PICK half \in Nat : Base = 2 * half /\ Base \div 2 = half /\ half >= 1
  BY CompactAssumption
<1>7. l >= (half * Base) * Base
  <2>1. l >= half * square
    BY <1>1, <1>6 DEF Signed
  <2>2. half * (Base * Base) = (half * Base) * Base
    BY <1>2, <1>6
  <2> QED
    BY <2>1, <2>2, Powers
<1>8. d \in Nat /\ d >= half * Base
  <2> DEFINE a == half * Base
             b == l + 1
  <2>1. a \in Nat /\ b \in Nat /\ a * Base <= l
    BY <1>2, <1>4, <1>6, <1>7
  <2>2. l < b * Base
    <3>1. \A x \in Nat, y \in Nat \ {0} : x < (x + 1) * y
      OBVIOUS
    <3> HIDE DEF l
    <3> QED
      BY <1>2, <1>4, <3>1
  <2>3. l \div Base \in a .. b - 1
    <3> HIDE DEF a, b, l
    <3> QED
      BY <1>2, <1>4, <2>1, <2>2, QuotientBetween
  <2> HIDE DEF l, d
  <2> QED
    BY <1>4, <1>5, <2>1, <2>3
<1>9. n <= t /\ n \in Nat
  <2>1. t = (u * d) + (t % u) /\ t % u \in Nat
    <3>1. t = (u * (t \div u)) + (t % u) /\ t % u \in 0 .. u - 1
      <4> HIDE DEF u, d
      <4> QED
        BY <1>2, <1>3, Remainder
    <3>2. t % u \in Nat
      <4> HIDE DEF u, d
      <4> QED
        BY <1>2, <1>3, <3>1
    <3> QED
      BY <3>1, <3>2
  <2> HIDE DEF d, u
  <2>2. u * d = d * u /\ d * u \in Nat
    BY <1>3, <1>8
  <2> QED
    BY <1>2, <2>1, <2>2
<1>10. n = (d * Base) * w /\ d * Base \in Nat /\ d * Base >= (half * Base) * Base /\ d * Base >= square
  <2>1. \A a, b, v \in Nat : a <= b => a * v <= b * v
    OBVIOUS
  <2>2. d * (Base * w) = (d * Base) * w
    <3> HIDE DEF d
    <3> QED
      BY <1>1, <1>2, <1>8
  <2>3. half * Base >= 1 * Base /\ half * Base \in Nat
    BY <1>2, <1>6, <2>1
  <2> HIDE DEF d
  <2>4. d >= Base
    BY <1>2, <1>8, <2>3
  <2>5. d * Base >= Base * Base /\ d * Base >= (half * Base) * Base /\ d * Base \in Nat
    BY <1>2, <1>8, <2>1, <2>3, <2>4
  <2> QED
    BY <2>2, <2>5, Powers
<1>11. square * w <= n
  <2> DEFINE e == d * Base
  <2>1. e \in Nat /\ e >= square /\ square \in Nat /\ n = e * w
    BY <1>10, Powers
  <2>2. \A a, b, v \in Nat : a <= b => a * v <= b * v
    OBVIOUS
  <2> HIDE DEF e, n, square
  <2> QED
    BY <1>1, <2>1, <2>2
<1>12. n \in 1 .. MAX_TARGET
  <2>1. square * w >= 1 /\ square * w \in Nat
    <3>1. square \in Nat \ {0}
      <4>1. Base * Base \in Nat \ {0}
        BY <1>2
      <4> QED
        BY <4>1, Powers
    <3>2. \A a, b \in Nat \ {0} : a * b >= 1 /\ a * b \in Nat
      OBVIOUS
    <3> HIDE DEF square
    <3> QED
      BY <1>1, <3>1, <3>2
  <2> HIDE DEF n, square
  <2> QED
    BY <1>2, <1>9, <1>11, <2>1
<1>13. Size(n) = Size(t) /\ Leading(n) = n \div w
  <2> HIDE DEF n
  <2> QED
    BY <1>9, <1>11, <1>12, SameDigits DEF square
<1>14. n \div w = d * Base
  <2> DEFINE e == d * Base
  <2>1. e \in Nat /\ n = e * w
    BY <1>10
  <2>2. (e * w) \div w = e
    <3> HIDE DEF e
    <3> QED
      BY <1>1, <2>1, Cancelled
  <2> QED
    BY <2>1, <2>2
<1>15. (d * Base) \div Base = d
  <2> HIDE DEF d
  <2> QED
    BY <1>2, <1>8, Cancelled
<1>16. CompactHint(n) = Bits(Size(t) + 1, d)
  <2>1. Signed(n)
    <3>1. half * (Base * Base) = (half * Base) * Base
      BY <1>2, <1>6
    <3>2. Leading(n) >= half * Base^2
      BY <1>10, <1>13, <1>14, <3>1, Powers
    <3> QED
      BY <1>6, <3>2 DEF Signed
  <2> HIDE DEF n, d
  <2> QED
    BY <1>12, <1>13, <1>14, <1>15, <2>1, HintIs
<1>17. CompactHint(t) = Bits(Size(t) + 1, d)
  BY <1>1, <1>5, HintIs
<1> QED
  BY <1>16, <1>17

\* Encoding what bits stand for gives the same bits.
LEMMA EncodedAgain ==
  ASSUME NEW t \in 0 .. MAX_TARGET
  PROVE  CompactHint((t \div Unit(t)) * Unit(t)) = CompactHint(t)
<1>1. CASE t = 0 \/ Size(t) < 3
  <2>1. Unit(t) = 1
    BY <1>1 DEF Unit
  <2>2. (t \div 1) * 1 = t
    BY LimitType
  <2> QED
    BY <2>1, <2>2
<1>2. CASE ~(t = 0 \/ Size(t) < 3)
  <2> DEFINE w == Base^(Size(t) - 3)
  <2>1. t \in 1 .. MAX_TARGET
    BY <1>2, LimitType
  <2>2. Size(t) >= 3
    BY <1>2, <2>1, SizeIs, CompactAssumption
  <2>3. w \in Nat
    BY <2>1, <2>2, Weight
  <2>4. Unit(t) = IF Signed(t) THEN Base * w ELSE w
    <3>1. Unit(t) = w * IF Signed(t) THEN Base ELSE 1
      BY <1>2 DEF Unit
    <3> HIDE DEF w
    <3>2. w * Base = Base * w /\ w * 1 = w
      BY <2>3, Powers
    <3> QED
      BY <3>1, <3>2
  <2>5. CASE Signed(t)
    BY <2>1, <2>2, <2>4, <2>5, SignedAgain
  <2>6. CASE ~Signed(t)
    BY <2>1, <2>2, <2>4, <2>6, UnsignedAgain
  <2> QED
    BY <2>5, <2>6
<1> QED
  BY <1>1, <1>2

\* What is decoded is encoded as before.
LEMMA DecodedAndEncoded ==
  ASSUME NEW target \in 0 .. MAX_TARGET
  PROVE  LET decoded == bits_to_target(CompactHint(target)) IN
         /\ CompactHint(decoded) = CompactHint(target)
         /\ decoded \in 0 .. MAX_TARGET
         /\ decoded <= target
         /\ (target - decoded) * Base^2 <= 2 * target
<1> DEFINE decoded == bits_to_target(CompactHint(target))
           square == Base^2
<1>1. decoded \in Nat /\ decoded <= target /\ decoded * square >= target * (square - 2)
  BY HintIsClose
<1>2. decoded = (target \div Unit(target)) * Unit(target)
  BY CompactForm DEF CompactOf
<1>3. CompactHint(decoded) = CompactHint(target)
  BY <1>2, EncodedAgain
<1>4. target \in Nat /\ square \in Nat
  BY LimitType, Powers
<1>5. (target - decoded) * square <= 2 * target
  <2> HIDE DEF decoded, square
  <2>1. /\ (target - decoded) * square = (target * square) - (decoded * square)
        /\ target * (square - 2) = (target * square) - (2 * target)
        /\ target * square \in Nat /\ decoded * square \in Nat
    BY <1>1, <1>4
  <2> QED
    BY <1>1, <1>4, <2>1
<1>6. decoded \in 0 .. MAX_TARGET
  BY <1>1, <1>4, LimitType
<1> QED
  BY <1>1, <1>3, <1>5, <1>6

\* The honest hint answers with a number.
LEMMA HintType ==
  ASSUME NEW t \in 0 .. MAX_TARGET
  PROVE  CompactHint(t) \in Nat
<1>1. CASE t = 0
  <2>1. Min({0, MAX_TARGET}) = 0
    BY LimitType, MinOfPair
  <2> QED
    BY <1>1, <2>1 DEF CompactHint
<1>2. CASE t # 0
  <2>1. t \in 1 .. MAX_TARGET
    BY <1>2, LimitType
  <2>2. Size(t) \in Nat /\ Leading(t) \in Nat /\ Base^3 \in Nat /\ Base \in Nat \ {0}
    <3>1. Size(t) \in 1 .. MaxExponent - 1
      BY <2>1, SizeIs
    <3>2. Leading(t) \in Base^2 .. Base^3 - 1
      BY <2>1, LeadingRange
    <3> QED
      BY <3>1, <3>2, Powers
  <2>3. \A e, s \in Nat : Bits(e, s) \in Nat
    <3>1. \A a, b, c \in Nat : (a * b) + c \in Nat
      OBVIOUS
    <3> QED
      BY <2>2, <3>1 DEF Bits
  <2>4. Leading(t) \div Base \in Nat /\ Size(t) + 1 \in Nat
    <3>1. \A a \in Nat, b \in Nat \ {0} : a \div b \in Nat
      OBVIOUS
    <3> QED
      BY <2>2, <3>1
  <2> QED
    BY <2>1, <2>2, <2>3, <2>4, HintIs
<1> QED
  BY <1>1, <1>2

\* Of the answers that the program accepts, the honest one is one.
LEMMA HintIsAnswer ==
  ASSUME NEW t \in 0 .. MAX_TARGET
  PROVE  CompactHint(t) \in target_to_bits(t)
<1>1. CompactHint(t) \in Nat /\ VerifyCompact(t, CompactHint(t))
  BY HintIsClose, HintType
<1> QED
  BY <1>1, LimitBitsType DEF target_to_bits, VerifyCompact, BitsInRange

\* The chain state holds an accepted encoding of a target there is.
RetargetInv == exact \in 0 .. MAX_TARGET /\ encoded \in target_to_bits(exact)

LEMMA TargetIsEncoded == RetargetSpec => []RetargetInv
<1>1. RetargetInit => RetargetInv
  BY DEF RetargetInit, RetargetInv
<1>2. RetargetInv /\ [SteadyEpoch]_retargetVars => RetargetInv'
  <2>1. ASSUME RetargetInv, SteadyEpoch PROVE RetargetInv'
    <3>1. exact \in Nat /\ exact <= MAX_TARGET
      BY <2>1, LimitType DEF RetargetInv
    <3>2. bits_to_target(encoded) \in Nat /\ bits_to_target(encoded) <= exact
      BY <2>1, <3>1, AcceptedIsBelow DEF RetargetInv
    <3>3. exact' \in 0 .. MAX_TARGET /\ exact' <= MAX_TARGET
      BY <2>1, <3>1, <3>2, LimitType DEF SteadyEpoch
    <3> QED
      BY <2>1, <3>3 DEF RetargetInv, SteadyEpoch
  <2>2. ASSUME RetargetInv, UNCHANGED retargetVars PROVE RetargetInv'
    BY <2>2 DEF RetargetInv, retargetVars
  <2> QED
    BY <2>1, <2>2
<1> QED
  BY <1>1, <1>2, PTL DEF RetargetSpec

\* The mask check of target_to_bits accepts the honest hint for every target: for
\* any base, with any number of digits, with or without a digit moved for the sign.
THEOREM HonestHintIsAccepted == RetargetSpec => []HonestHintAccepted
<1>1. RetargetInv => HonestHintAccepted
  BY HintIsClose DEF RetargetInv, HonestHintAccepted
<1> QED
  BY <1>1, TargetIsEncoded, PTL

\* For any base and any answers of the prover over any number of epochs: what
\* target_to_bits returns never stands for a greater target, only its exponent is
\* free, and with honest bits little is lost and the next epoch finds them again.
THEOREM NoAnswerEases == RetargetSpec => []AnswerIsNeverEasier
<1>1. ASSUME RetargetInv PROVE AnswerIsNeverEasier
  <2> DEFINE decoded == bits_to_target(encoded)
             honest == CompactHint(exact)
  <2>1. exact \in 0 .. MAX_TARGET /\ exact \in Nat /\ encoded \in target_to_bits(exact)
    BY <1>1, LimitType DEF RetargetInv
  <2>2. decoded <= exact
    BY <2>1, AcceptedIsBelow
  <2>3. Exponent(encoded) = Exponent(honest) /\ Exponent(honest) >= 3 => encoded = honest
    BY <2>1, HintIsAnswer, OnlyExponentIsFree
  <2>4. encoded = honest => /\ CompactHint(decoded) = honest
                           /\ (exact - decoded) * Base^2 <= 2 * exact
    BY <2>1, DecodedAndEncoded
  <2> QED
    BY <2>2, <2>3, <2>4 DEF AnswerIsNeverEasier
<1> QED
  BY <1>1, TargetIsEncoded, PTL

-----------------------------------------------------------------------------
(* The target of the next block *)

\* The target that adjust_difficulty encodes.
Adjusted(header) == Min({NextTarget(header), MAX_TARGET})

\* An epoch multiplies the target by four at most and leaves a quarter of it.
LEMMA NextTargetRange ==
  ASSUME NEW header \in Header, epoch_start_time \in 0 .. MAX_TIME,
         bits_to_target(current_target) \in 0 .. MAX_TARGET
  PROVE  LET old == bits_to_target(current_target) IN
         /\ NextTarget(header) \in Nat
         /\ NextTarget(header) <= 4 * old
         /\ NextTarget(header) >= old \div 4
<1> DEFINE old == bits_to_target(current_target)
           span == LimitedTimespan(FeltTimespan(header))
<1>1. PICK f \in Nat \ {0} : EXPECTED_EPOCH_TIMESPAN = 4 * f
  BY EpochAssumption
<1>2. EXPECTED_EPOCH_TIMESPAN * 4 = 16 * f /\ EXPECTED_EPOCH_TIMESPAN \div 4 = f
  BY <1>1
<1>3. FeltTimespan(header) \in Nat
  <2>1. header.time \in 0 .. MAX_TIME /\ MAX_TIME \in Nat /\ PRIME \in Nat \ {0}
    BY EpochAssumption, FieldAssumption DEF Header
  <2> QED
    BY <2>1 DEF FeltTimespan
<1>4. span \in f .. 16 * f
  BY <1>1, <1>2, <1>3 DEF LimitedTimespan
<1>5. NextTarget(header) = (old * span) \div (4 * f)
  BY <1>1 DEF NextTarget
<1>6. old \in Nat
  BY LimitType
<1> HIDE DEF old, span
<1> DEFINE q == old \div 4
           r == old % 4
           product == old * span
<1>7. q \in Nat /\ r \in 0 .. 3 /\ old = (4 * q) + r
  BY <1>6
<1>8. product \in Nat /\ 4 * f \in Nat \ {0}
  BY <1>1, <1>4, <1>6
<1>9. q * (4 * f) <= product
  <2>1. \A x, y, a, b \in Nat : (x <= y /\ a <= b) => x * a <= y * b
    <3> TAKE x, y, a, b \in Nat
    <3> HAVE x <= y /\ a <= b
    <3>1. x * a <= y * a /\ y * a <= y * b /\ x * a \in Nat /\ y * a \in Nat /\ y * b \in Nat
      OBVIOUS
    <3> QED
      BY <3>1
  <2>2. 4 * q <= old /\ 4 * q \in Nat /\ f <= span /\ span \in Nat /\ f \in Nat
    BY <1>1, <1>4, <1>6, <1>7
  <2> HIDE DEF q, r, product
  <2>3. (4 * q) * f <= old * span
    BY <1>6, <2>1, <2>2
  <2>4. q * (4 * f) = (4 * q) * f
    BY <1>1, <1>7
  <2> QED
    BY <2>3, <2>4 DEF product
<1>10. product < ((4 * old) + 1) * (4 * f)
  <2>1. product <= old * (16 * f)
    <3>1. \A x, y, v \in Nat : x <= y => v * x <= v * y
      OBVIOUS
    <3> QED
      BY <1>1, <1>4, <1>6, <3>1
  <2>2. ((4 * old) + 1) * (4 * f) = (old * (16 * f)) + (4 * f) /\ old * (16 * f) \in Nat
    BY <1>1, <1>6
  <2> HIDE DEF product
  <2> QED
    BY <1>1, <1>8, <2>1, <2>2
<1> HIDE DEF q, r, product
<1>11. product \div (4 * f) \in q .. ((4 * old) + 1) - 1
  <2>1. (4 * old) + 1 \in Nat
    BY <1>6
  <2> QED
    BY <1>7, <1>8, <1>9, <1>10, <2>1, QuotientBetween
<1> QED
  BY <1>5, <1>6, <1>7, <1>11 DEF old, q, product

\* adjust_difficulty encodes the next target, or the limit if it is beyond.
LEMMA AdjustedBits ==
  ASSUME NEW header \in Header, epoch_start_time \in 0 .. MAX_TIME,
         bits_to_target(current_target) \in 0 .. MAX_TARGET,
         EndsEpoch(block_height + 1), adjust_difficulty(header)
  PROVE  LET old == bits_to_target(current_target) IN
         /\ Adjusted(header) \in 0 .. MAX_TARGET
         /\ Adjusted(header) <= 4 * old /\ Adjusted(header) >= old \div 4
         /\ current_target' \in target_to_bits(Adjusted(header))
         /\ CompactHint(NextTarget(header)) = CompactHint(Adjusted(header))
<1> DEFINE old == bits_to_target(current_target)
           next == NextTarget(header)
<1>1. next \in Nat /\ next <= 4 * old /\ next >= old \div 4
  BY NextTargetRange
<1>2. current_target' \in IF next <= MAX_TARGET THEN target_to_bits(next) ELSE {MAX_BITS}
  BY DEF adjust_difficulty
<1> HIDE DEF next, old
<1>3. MAX_TARGET \in Nat /\ MAX_TARGET \in 0 .. MAX_TARGET
  BY LimitType
<1>4. Adjusted(header) = IF next <= MAX_TARGET THEN next ELSE MAX_TARGET
  <2>1. next \in Int /\ MAX_TARGET \in Int
    BY <1>1, <1>3
  <2> QED
    BY <2>1, MinOfPair DEF Adjusted, next
<1>5. old \in 0 .. MAX_TARGET
  BY DEF old
<1>6. /\ Adjusted(header) \in 0 .. MAX_TARGET
      /\ Adjusted(header) <= 4 * old /\ Adjusted(header) >= old \div 4
  BY <1>1, <1>3, <1>4, <1>5
<1>7. MAX_BITS \in target_to_bits(MAX_TARGET)
  BY <1>3, LimitToBits, HintIsAnswer
<1>8. current_target' \in target_to_bits(Adjusted(header))
  BY <1>2, <1>4, <1>7
<1>9. CompactHint(next) = CompactHint(Adjusted(header))
  <2>1. Min({next, MAX_TARGET}) = Adjusted(header)
    BY DEF Adjusted, next
  <2>2. Min({Adjusted(header), MAX_TARGET}) = Adjusted(header)
    <3>1. Adjusted(header) \in Int /\ MAX_TARGET \in Int /\ Adjusted(header) <= MAX_TARGET
      BY <1>3, <1>6
    <3> QED
      BY <3>1, MinOfPair
  <2> QED
    BY <2>1, <2>2 DEF CompactHint
<1> QED
  BY <1>6, <1>8, <1>9 DEF old, next

-----------------------------------------------------------------------------
(* Types, and how the target moves *)

LEMMA ProductsInOrder ==
  ASSUME NEW x \in Nat, NEW y \in Nat, NEW a \in Nat, NEW b \in Nat, x <= y, a <= b
  PROVE  y * b >= x * a
<1>1. x * a <= y * a /\ y * a <= y * b /\ x * a \in Nat /\ y * a \in Nat /\ y * b \in Nat
  <2>1. \A c, d, v \in Nat : c <= d => c * v <= d * v /\ v * c <= v * d
    OBVIOUS
  <2> QED
    BY <2>1
<1> QED
  BY <1>1

\* The target that the bits encode is one that work can be computed from.
TypeInv == TypeOK /\ bits_to_target(current_target) \in 0 .. MAX_TARGET

\* The limit is its own encoding's target.
LEMMA TypeInit == Init => TypeInv
<1> SUFFICES ASSUME Init PROVE TypeInv
  OBVIOUS
<1>1. MAX_BITS = CompactHint(MAX_TARGET) /\ MAX_TARGET \in 0 .. MAX_TARGET /\ MAX_TARGET \in Nat
  BY LimitType, LimitToBits
<1>2. MAX_BITS \in Nat
  BY LimitBitsType
<1>3. bits_to_target(MAX_BITS) \in 0 .. MAX_TARGET
  BY <1>1, HintIsClose
<1>4. prev_timestamps \in [1 .. TIMESTAMP_COUNT -> 0 .. MAX_TIME]
  BY EpochAssumption DEF Init
<1>5. headers \in Seq(Header)
  BY EmptySeq DEF Init
<1> QED
  BY <1>2, <1>3, <1>4, <1>5, EpochAssumption DEF Init, TypeInv, TypeOK

\* validate_and_apply_block_header
LEMMA TypeAccept ==
  ASSUME TypeInv, NEW header \in Header, validate_and_apply_block_header(header)
  PROVE  TypeInv'
<1> DEFINE old == bits_to_target(current_target)
<1>1. /\ headers' = Append(headers, header)
      /\ block_height' = block_height + 1
      /\ total_work' = total_work + compute_work_from_target(Target(header))
      /\ best_block_hash' = header.hash
      /\ adjust_difficulty(header)
      /\ prev_timestamps' = next_prev_timestamps(header)
  BY DEF validate_and_apply_block_header, apply_block_header
<1>2. /\ header.time \in 0 .. MAX_TIME /\ header.hash \in Nat \ {0}
  BY DEF Header
<1>3. Target(header) = old /\ header.hash <= Target(header)
  BY DEF validate_and_apply_block_header, Valid, validate_target, validate_proof_of_work, Target
<1>4. block_height' \in Nat \union {-1}
  BY <1>1 DEF TypeInv, TypeOK
<1>5. total_work' \in Nat
  <2>1. old \in Nat \ {0} /\ old < HASH_SPACE /\ HASH_SPACE \in Nat
    BY <1>2, <1>3, LimitType, FieldAssumption DEF TypeInv
  <2> HIDE DEF old
  <2>2. HASH_SPACE - old - 1 \in Nat
    BY <2>1
  <2>3. \A a \in Nat, b \in Nat \ {0} : (a \div b) + 1 \in Nat
    OBVIOUS
  <2>4. compute_work_from_target(old) \in Nat
    BY <2>1, <2>2, <2>3 DEF compute_work_from_target
  <2> QED
    BY <1>1, <1>3, <2>4 DEF TypeInv, TypeOK
<1>6. epoch_start_time' \in 0 .. MAX_TIME
  BY <1>1, <1>2 DEF adjust_difficulty, TypeInv, TypeOK
<1>7. prev_timestamps' \in [1 .. TIMESTAMP_COUNT -> 0 .. MAX_TIME]
  BY <1>1, <1>2, HalfAssumption, SMTT(30) DEF next_prev_timestamps, TypeInv, TypeOK, TIMESTAMP_COUNT
<1>8. headers' \in Seq(Header)
  BY <1>1, AppendProperties DEF TypeInv, TypeOK
<1>9. current_target' \in 0 .. MAX_BITS /\ bits_to_target(current_target') \in 0 .. MAX_TARGET
  <2>1. CASE EndsEpoch(block_height + 1)
    <3> DEFINE t == Adjusted(header)
    <3>1. t \in 0 .. MAX_TARGET /\ current_target' \in target_to_bits(t)
      BY <1>1, <2>1, AdjustedBits DEF TypeInv, TypeOK
    <3> HIDE DEF t
    <3>2. t \in Nat /\ t <= MAX_TARGET
      BY <3>1, LimitType
    <3>3. /\ current_target' \in 0 .. MAX_BITS
          /\ bits_to_target(current_target') \in Nat /\ bits_to_target(current_target') <= t
      BY <3>1, <3>2, AcceptedIsBelow
    <3> QED
      BY <3>2, <3>3, LimitType
  <2>2. CASE ~EndsEpoch(block_height + 1)
    BY <1>1, <2>2 DEF adjust_difficulty, TypeInv, TypeOK
  <2> QED
    BY <2>1, <2>2
<1> QED
  BY <1>1, <1>2, <1>4, <1>5, <1>6, <1>7, <1>8, <1>9 DEF TypeInv, TypeOK

\* A header that is accepted leaves a state of the types.
LEMMA TypeNext == TypeInv /\ [Next]_vars => TypeInv'
<1> SUFFICES ASSUME TypeInv, [Next]_vars PROVE TypeInv'
  OBVIOUS
<1>1. CASE UNCHANGED vars
  BY <1>1 DEF vars, stateVars, TypeInv, TypeOK
<1>2. ASSUME NEW header \in Header, validate_and_apply_block_header(header) PROVE TypeInv'
  BY <1>2, TypeAccept
<1>3. ASSUME NEW header \in Header, Reject(header) PROVE TypeInv'
  BY <1>1, <1>3 DEF Reject
<1> QED
  BY <1>1, <1>2, <1>3 DEF Next

\* The felts of the chain state stay in range.  That the work of a block is a
\* number needs what the bits of a header decode to, whatever the prover answered:
\* never a target above MAX_TARGET, nor, with a proof of work, one of zero.
THEOREM StateIsTyped == Spec => []TypeOK
<1>1. TypeInv => TypeOK
  BY DEF TypeInv
<1> QED
  BY <1>1, TypeInit, TypeNext, PTL DEF Spec

\* For chains, epochs and windows of any size: validate_and_apply_block_header
\* accepts all that the rules over the whole history allow, except that of the
\* compact forms of an epoch's target it is bound to the one the prover named.
THEOREM RefusesOnlyForbidden == Spec => []AcceptsAllAllowed
<1>1. ASSUME IInv, TypeInv, WindowType PROVE AcceptsAllAllowed
  <2> SUFFICES ASSUME NEW header \in Header
               PROVE  Valid(header) <=> Chain!Allowed(header) /\ header.bits = current_target
    BY DEF AcceptsAllAllowed
  <2>1. current_target \in 0 .. MAX_BITS /\ MAX_BITS \in Nat
    BY <1>1, LimitBitsType DEF TypeInv, TypeOK
  <2>2. BitsInRange(current_target)
    BY <2>1 DEF BitsInRange
  <2>3. /\ Chain!Tip(headers) = best_block_hash
        /\ current_target \in Chain!AllowedBits(headers)
        /\ Chain!RecentTimes(headers) = prev_timestamps
    BY <1>1 DEF IInv, StateSummarisesChain
  <2>4. verify_timestamps_median(prev_timestamps, MedianHint(prev_timestamps))
    BY <1>1, HintIsVerified DEF WindowType
  <2>5. MedianHint(prev_timestamps) \in Nat /\ header.time \in Nat
    <3>1. \E i \in 1 .. TIMESTAMP_COUNT : prev_timestamps[i] = MedianHint(prev_timestamps)
      BY <1>1, <2>4, VerifiedIsInWindow DEF WindowType
    <3> QED
      BY <1>1, <3>1, EpochAssumption DEF WindowType, Window, Header
  <2>6. validate_timestamp(header) <=> header.time >= Chain!MedianTimePast(headers)
    <3>1. Chain!MedianTimePast(headers) = MedianHint(prev_timestamps)
      BY <2>3, SameMedian DEF Chain!MedianTimePast
    <3> QED
      BY <2>4, <2>5, <3>1 DEF validate_timestamp
  <2>7. validate_proof_of_work(header) <=> header.hash <= Chain!bits_to_target(header.bits)
    BY SameCompact DEF validate_proof_of_work, Target
  <2> QED
    BY <2>2, <2>3, <2>6, <2>7, SameHeader
    DEF Valid, Chain!Allowed, validate_prev_block_hash, validate_target
<1> QED
  BY <1>1, InitInv, NextInv, TypeInit, TypeNext, WindowInit, WindowNext, PTL DEF Spec

\* For epochs of any length and digits of any number: adjust_difficulty, through
\* the compact form and back, makes the target four times as great at most, with
\* any answer of the prover, and leaves a quarter of it with the honest one.
THEOREM TargetMovesByFour == Spec => TargetMovesSlowly
<1> DEFINE old == bits_to_target(current_target)
           new == bits_to_target(current_target')
           honest == /\ headers' # headers
                     /\ current_target' = CompactHint(NextTarget(headers'[Len(headers')]))
           Step == /\ current_target' # current_target => EndsEpoch(block_height')
                   /\ new <= Min({4 * old, MAX_TARGET})
                   /\ honest => new * Base^2 >= (old \div 4) * (Base^2 - 2)
<1>1. Base^2 \in Nat /\ Base^2 >= 2 /\ MAX_TARGET \in Nat
  <2>1. Base * Base >= 2 * 2
    BY Powers
  <2> QED
    BY <2>1, Powers, LimitType
<1>2. ASSUME TypeInv, current_target' = current_target PROVE Step
  <2>1. old \in Nat /\ old <= MAX_TARGET /\ new = old
    BY <1>1, <1>2 DEF TypeInv
  <2> HIDE DEF old, new, honest
  <2>2. old <= Min({4 * old, MAX_TARGET})
    <3>1. 4 * old \in Int /\ MAX_TARGET \in Int /\ old <= 4 * old
      BY <1>1, <2>1
    <3>2. Min({4 * old, MAX_TARGET}) = IF 4 * old <= MAX_TARGET THEN 4 * old ELSE MAX_TARGET
      BY <3>1, MinOfPair
    <3> QED
      BY <2>1, <3>1, <3>2
  <2>3. old * Base^2 >= (old \div 4) * (Base^2 - 2)
    <3>1. old \div 4 \in Nat /\ old \div 4 <= old /\ Base^2 - 2 \in Nat /\ Base^2 - 2 <= Base^2
      BY <1>1, <2>1
    <3> QED
      BY <1>1, <2>1, <3>1, ProductsInOrder
  <2> QED
    BY <1>2, <2>1, <2>2, <2>3
<1>3. ASSUME TypeInv, NEW header \in Header, validate_and_apply_block_header(header)
      PROVE  Step
  <2>1. block_height' = block_height + 1 /\ adjust_difficulty(header) /\ headers' = Append(headers, header)
    BY <1>3 DEF validate_and_apply_block_header, apply_block_header
  <2>2. CASE ~EndsEpoch(block_height + 1)
    <3>1. current_target' = current_target
      BY <2>1, <2>2 DEF adjust_difficulty
    <3> HIDE DEF Step
    <3> QED
      BY <1>2, <1>3, <3>1
  <2>3. CASE EndsEpoch(block_height + 1)
    <3> DEFINE t == Adjusted(header)
    <3>1. old \in 0 .. MAX_TARGET
      BY <1>3 DEF TypeInv
    <3>2. /\ t \in 0 .. MAX_TARGET /\ t <= 4 * old /\ t >= old \div 4
          /\ current_target' \in target_to_bits(t)
          /\ CompactHint(NextTarget(header)) = CompactHint(t)
      BY <1>3, <2>1, <2>3, AdjustedBits DEF TypeInv, TypeOK
    <3>3. headers'[Len(headers')] = header
      <4>1. headers \in Seq(Header)
        BY <1>3 DEF TypeInv, TypeOK
      <4> QED
        BY <2>1, <4>1, ExtendedChain
    <3>4. honest => current_target' = CompactHint(t)
      BY <3>2, <3>3
    <3> HIDE DEF t, old, honest
    <3>5. t \in Nat /\ t <= MAX_TARGET
      BY <1>1, <3>2
    <3>6. new \in Nat /\ new <= t
      BY <3>2, <3>5, AcceptedIsBelow
    <3>7. honest => new * Base^2 >= t * (Base^2 - 2)
      BY <3>2, <3>4, HintIsClose
    <3> HIDE DEF new
    <3>8. new <= Min({4 * old, MAX_TARGET})
      <4>1. 4 * old \in Int /\ MAX_TARGET \in Int
        BY <1>1, <3>1
      <4>2. Min({4 * old, MAX_TARGET}) = IF 4 * old <= MAX_TARGET THEN 4 * old ELSE MAX_TARGET
        BY <4>1, MinOfPair
      <4> QED
        BY <1>1, <3>1, <3>2, <3>5, <3>6, <4>1, <4>2
    <3>9. honest => new * Base^2 >= (old \div 4) * (Base^2 - 2)
      <4> SUFFICES ASSUME honest PROVE new * Base^2 >= (old \div 4) * (Base^2 - 2)
        OBVIOUS
      <4> DEFINE x == old \div 4
                 a == Base^2 - 2
                 b == Base^2
      <4>1. x \in Nat /\ a \in Nat /\ b \in Nat /\ x <= t /\ t \in Nat /\ a <= a
        BY <1>1, <3>1, <3>2, <3>5
      <4>2. new * b >= t * a
        BY <3>7
      <4> HIDE DEF x, a, b
      <4>3. t * a >= x * a
        BY <4>1, ProductsInOrder
      <4>4. x * a \in Nat /\ t * a \in Nat /\ new * b \in Nat
        BY <3>6, <4>1
      <4>5. new * b >= x * a
        BY <4>2, <4>3, <4>4
      <4> QED
        BY <4>5 DEF x, a, b
    <3> QED
      BY <2>1, <2>3, <3>8, <3>9
  <2> QED
    BY <2>2, <2>3
<1>4. TypeInv /\ [Next]_vars => [Step]_vars
  <2> SUFFICES ASSUME TypeInv, Next, ~UNCHANGED vars PROVE Step
    OBVIOUS
  <2>1. PICK header \in Header : validate_and_apply_block_header(header)
    BY DEF Next, Reject
  <2> HIDE DEF Step
  <2> QED
    BY <1>3, <2>1
<1> QED
  BY <1>4, TypeInit, TypeNext, PTL DEF Spec, TargetMovesSlowly
=============================================================================

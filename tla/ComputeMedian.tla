---------------------------- MODULE ComputeMedian ---------------------------
(***************************************************************************)
(* The median of the most recent timestamps (src/block/compute_median      *)
(* .cairo): a hint sorts them, the program only counts.                    *)
(***************************************************************************)
EXTENDS Integers, Sequences, FiniteSets

CONSTANT Half   \* TIMESTAMP_MEDIAN_INDEX, 5

ASSUME HalfAssumption == Half \in Nat

TIMESTAMP_COUNT == 2 * Half + 1

Before(ts, m) == {i \in DOMAIN ts : ts[i] < m}
Equal(ts, m) == {i \in DOMAIN ts : ts[i] = m}
After(ts, m) == {i \in DOMAIN ts : ts[i] > m}

AbsValue(k) == IF k < 0 THEN -k ELSE k

\* Mutant: the one is added on the wrong side.
VerifyMedianLoosely(ts, m) ==
  AbsValue(Cardinality(After(ts, m)) - Cardinality(Before(ts, m)))
    <= Cardinality(Equal(ts, m)) + 1

\* signs_diff is #After - #Before when the loop ends.
verify_timestamps_median(ts, m) ==
  AbsValue(Cardinality(After(ts, m)) - Cardinality(Before(ts, m))) + 1
    <= Cardinality(Equal(ts, m))

\* timestamps.sort(): the rearrangement in ascending order.
Rearrangements(D) == {p \in [D -> D] : \A i, j \in D : p[i] = p[j] => i = j}
Ascending(ts, p) == \A i, j \in DOMAIN ts : i < j => ts[p[i]] <= ts[p[j]]

\* The hint: timestamps.sort()[TIMESTAMP_MEDIAN_INDEX].
MedianHint(ts) ==
  LET p == CHOOSE p \in Rearrangements(DOMAIN ts) : Ascending(ts, p)
  IN  ts[p[Half + 1]]
=============================================================================

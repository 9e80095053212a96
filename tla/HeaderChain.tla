----------------------------- MODULE HeaderChain ----------------------------
(***************************************************************************)
(* What header validation promises: a chain of headers in which each       *)
(* header obeys rules stated over the whole history before it.  The        *)
(* program keeps no history (see BlockHeader): it has to get by with the   *)
(* eleven last timestamps, the target and one time per epoch.              *)
(***************************************************************************)
EXTENDS HeaderParameters, SequencesExt

VARIABLE chain   \* chain[i] is the header at height i - 1

Tip(c) == IF c = << >> THEN GENESIS_HASH ELSE Last(c).hash

\* The last timestamps, the newest first; before the genesis block there are zeros.
RecentTimes(c) ==
  [i \in 1 .. TIMESTAMP_COUNT |-> IF i <= Len(c) THEN c[Len(c) + 1 - i].time ELSE 0]

MedianTimePast(c) == MedianHint(RecentTimes(c))

\* The time from which the epoch of the next block is measured: that of the
\* last block of the epoch before.
EpochStart(c) ==
  LET blocks == Len(c) - (Len(c) % BLOCKS_PER_EPOCH)
  IN IF blocks = 0 THEN GENESIS_TIME ELSE c[blocks].time

\* The time an epoch took, as far as the target follows it.  An epoch that ends
\* before it began counts as a long one.
Limited(timespan) ==
  LET longest == EXPECTED_EPOCH_TIMESPAN * 4
      shortest == EXPECTED_EPOCH_TIMESPAN \div 4
  IN IF timespan < 0 THEN longest ELSE Min({longest, Max({shortest, timespan})})

Retarget(bits, timespan) ==
  (bits_to_target(bits) * Limited(timespan)) \div EXPECTED_EPOCH_TIMESPAN

\* The target of the next block where the last one ended an epoch.
NextEpochTarget(c) ==
  Retarget(Last(c).bits, Last(c).time - EpochStart(SubSeq(c, 1, Len(c) - 1)))

\* The bits that the next block may have.  The history determines the target of
\* an epoch; which of its compact forms is used is for the prover to choose.
AllowedBits(c) ==
  IF c = << >> THEN {MAX_BITS}
  ELSE IF Len(c) % BLOCKS_PER_EPOCH # 0 THEN {Last(c).bits}
  ELSE IF NextEpochTarget(c) > MAX_TARGET THEN {MAX_BITS}
  ELSE target_to_bits(NextEpochTarget(c))

Init == chain = << >>

Allowed(header) ==
  /\ header \in Header
  /\ header.prev_block_hash = Tip(chain)
  /\ header.bits \in AllowedBits(chain)
  /\ header.hash <= bits_to_target(header.bits)
  /\ header.time >= MedianTimePast(chain)

Extend(header) == Allowed(header) /\ chain' = Append(chain, header)

\* A new chain is the old one and a header that extends it.
Next == chain' # << >> /\ Extend(Last(chain'))

Spec == Init /\ [][Next]_chain
=============================================================================

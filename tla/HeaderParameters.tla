-------------------------- MODULE HeaderParameters --------------------------
(***************************************************************************)
(* The constants of header validation and what a header is, for the        *)
(* program's module and for the rules it implements.                       *)
(***************************************************************************)
EXTENDS Compact, ComputeMedian

CONSTANTS
  BLOCKS_PER_EPOCH,         \* 2016
  EXPECTED_EPOCH_TIMESPAN,  \* two weeks
  GENESIS_TIME,             \* epoch_start_time of chain_proof/state_0.json
  GENESIS_HASH,             \* its best_block_hash, all zero
  MAX_TIME                  \* 2^32 - 1, the greatest timestamp of a header

ASSUME EpochAssumption ==
  /\ BLOCKS_PER_EPOCH \in Nat \ {0}
  /\ EXPECTED_EPOCH_TIMESPAN \in Nat \ {0} /\ EXPECTED_EPOCH_TIMESPAN % 4 = 0
  /\ MAX_TIME \in Nat /\ GENESIS_TIME \in 0 .. MAX_TIME /\ GENESIS_HASH \in Nat

\* A hash is the number that the proof-of-work compares with the target; no
\* header is known, or ever will be, whose double SHA-256 is zero.
Header == [prev_block_hash : Nat, time : 0 .. MAX_TIME, bits : Nat, hash : Nat \ {0}]
=============================================================================

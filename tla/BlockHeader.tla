----------------------------- MODULE BlockHeader ----------------------------
(***************************************************************************)
(* Validation of block headers (src/block/block_header.cairo): a step of   *)
(* the chain state, from a header that passes every assert.                *)
(***************************************************************************)
EXTENDS HeaderParameters

CONSTANTS
  HASH_SPACE,  \* 2^256
  PRIME        \* the order of the field that felts live in

ASSUME FieldAssumption ==
  /\ HASH_SPACE \in Nat /\ HASH_SPACE > MAX_TARGET
  /\ PRIME \in Nat /\ PRIME > MAX_TIME + 4 * EXPECTED_EPOCH_TIMESPAN

VARIABLES
  block_height, total_work, best_block_hash,
  current_target,    \* the bits of the next block
  epoch_start_time,
  prev_timestamps,   \* the newest first
  headers            \* the headers accepted, which the program does not keep

stateVars == <<block_height, total_work, best_block_hash,
               current_target, epoch_start_time, prev_timestamps>>
vars == <<stateVars, headers>>

Chain == INSTANCE HeaderChain WITH chain <- headers

Init ==
  /\ block_height = -1
  /\ total_work = 0
  /\ best_block_hash = GENESIS_HASH
  /\ current_target = MAX_BITS
  /\ epoch_start_time = GENESIS_TIME
  /\ prev_timestamps = [i \in 1 .. TIMESTAMP_COUNT |-> 0]
  /\ headers = << >>

Target(header) == bits_to_target(header.bits)

validate_prev_block_hash(header) == header.prev_block_hash = best_block_hash

validate_proof_of_work(header) == header.hash <= Target(header)

\* Mutant: any target that is not above the limit will do.
ValidateTargetLimit(header) == header.bits <= MAX_BITS

validate_target(header) == header.bits = current_target

\* Mutant: the median is computed and not compared.
ValidateTimestampUnchecked(header) ==
  verify_timestamps_median(prev_timestamps, MedianHint(prev_timestamps))

\* The prover's hint names the median and the program counts around it.
validate_timestamp(header) ==
  LET median_time == MedianHint(prev_timestamps) IN
  /\ verify_timestamps_median(prev_timestamps, median_time)
  /\ median_time <= header.time

\* The target is at least the hash, so it is not zero.
compute_work_from_target(target) == (HASH_SPACE - target - 1) \div target + 1

\* Mutant: the memcpy copies the whole old window behind the new timestamp.
CopyAllTimestamps(header) ==
  [i \in 1 .. TIMESTAMP_COUNT + 1 |-> IF i = 1 THEN header.time ELSE prev_timestamps[i - 1]]

next_prev_timestamps(header) ==
  [i \in 1 .. TIMESTAMP_COUNT |-> IF i = 1 THEN header.time ELSE prev_timestamps[i - 1]]

\* Mutant: the target is adjusted with the first block of the next epoch.
EndsEpochLate(height) == height % BLOCKS_PER_EPOCH = 0

EndsEpoch(height) == height % BLOCKS_PER_EPOCH = BLOCKS_PER_EPOCH - 1

\* Felts have no sign: an epoch that ends before it began lasts almost PRIME.
FeltTimespan(header) == (header.time - epoch_start_time) % PRIME

\* Mutant: only too long an epoch is limited.
LimitedAbove(timespan) ==
  IF EXPECTED_EPOCH_TIMESPAN * 4 <= timespan THEN EXPECTED_EPOCH_TIMESPAN * 4
  ELSE timespan

LimitedTimespan(timespan) ==
  IF EXPECTED_EPOCH_TIMESPAN * 4 <= timespan THEN EXPECTED_EPOCH_TIMESPAN * 4
  ELSE IF timespan <= EXPECTED_EPOCH_TIMESPAN \div 4 THEN EXPECTED_EPOCH_TIMESPAN \div 4
  ELSE timespan

NextTarget(header) ==
  (bits_to_target(current_target) * LimitedTimespan(FeltTimespan(header)))
    \div EXPECTED_EPOCH_TIMESPAN

\* The target is whatever answer of the prover target_to_bits accepts.
adjust_difficulty(header) ==
  IF EndsEpoch(block_height + 1)
    THEN /\ current_target' \in IF NextTarget(header) <= MAX_TARGET
                                 THEN target_to_bits(NextTarget(header)) ELSE {MAX_BITS}
         /\ epoch_start_time' = header.time
    ELSE UNCHANGED <<current_target, epoch_start_time>>

apply_block_header(header) ==
  /\ block_height' = block_height + 1
  /\ total_work' = total_work + compute_work_from_target(Target(header))
  /\ best_block_hash' = header.hash
  /\ adjust_difficulty(header)
  /\ prev_timestamps' = next_prev_timestamps(header)
  /\ headers' = Append(headers, header)

Valid(header) ==
  /\ BitsInRange(header.bits)
  /\ validate_prev_block_hash(header)
  /\ validate_proof_of_work(header)
  /\ validate_target(header)
  /\ validate_timestamp(header)

validate_and_apply_block_header(header) == Valid(header) /\ apply_block_header(header)

\* A failed assert ends the run; the state it read stays as it is.
Reject(header) == ~Valid(header) /\ UNCHANGED vars

Next == \E header \in Header :
  validate_and_apply_block_header(header) \/ Reject(header)

Spec == Init /\ [][Next]_vars

-----------------------------------------------------------------------------
\* The six felts and the window are in range, heights from -1 on.
TypeOK ==
  /\ block_height \in Nat \union {-1}
  /\ total_work \in Nat /\ best_block_hash \in Nat
  /\ current_target \in 0 .. MAX_BITS
  /\ epoch_start_time \in 0 .. MAX_TIME
  /\ prev_timestamps \in [1 .. TIMESTAMP_COUNT -> 0 .. MAX_TIME]
  /\ headers \in Seq(Header)

\* The six felts of a ChainState say all of the history that the rules need:
\* the window holds the last times, the epoch is measured from the block where
\* the last one ended, and the target is one that the history allows, after as
\* many epochs as there were and whatever the prover answered at their ends.
StateSummarisesChain ==
  /\ block_height = Len(headers) - 1
  /\ best_block_hash = Chain!Tip(headers)
  /\ prev_timestamps = Chain!RecentTimes(headers)
  /\ epoch_start_time = Chain!EpochStart(headers)
  /\ current_target \in Chain!AllowedBits(headers)

\* No header is accepted that the rules over the whole chain forbid, whatever the
\* prover answers.
ImplementsHeaderChain == Chain!Spec

\* And no header is refused that the rules allow, but for other bits than those
\* that the prover answered with.
AcceptsAllAllowed ==
  \A header \in Header :
    Valid(header) <=> Chain!Allowed(header) /\ header.bits = current_target

\* Whatever value the prover gets past verify_timestamps_median, block after
\* block: the median time never goes back, although timestamps may.
MedianNeverDecreases ==
  [][\A i, j \in 1 .. TIMESTAMP_COUNT :
       /\ verify_timestamps_median(prev_timestamps, prev_timestamps[i])
       /\ verify_timestamps_median(prev_timestamps', prev_timestamps'[j])
       => prev_timestamps[i] <= prev_timestamps'[j]]_vars

\* The check of verify_timestamps_median, which compares three counts, accepts
\* the hint's answer and no other timestamp.
MedianIsUnique ==
  \A i \in 1 .. TIMESTAMP_COUNT :
    verify_timestamps_median(prev_timestamps, prev_timestamps[i])
      <=> prev_timestamps[i] = MedianHint(prev_timestamps)

\* The target moves only when an epoch ends, then grows by a factor of four at
\* most and never beyond MAX_TARGET, whatever the prover answers.  That it shrinks
\* by no more than four (but for the digits that the compact form drops) holds
\* where the answer is the honest one.
TargetMovesSlowly ==
  [][LET old == bits_to_target(current_target)
         new == bits_to_target(current_target')
     IN /\ current_target' # current_target => EndsEpoch(block_height')
        /\ new <= Min({4 * old, MAX_TARGET})
        /\ (/\ headers' # headers
            /\ current_target' = CompactHint(NextTarget(headers'[Len(headers')])))
             => new * Base^2 >= (old \div 4) * (Base^2 - 2)]_vars

-----------------------------------------------------------------------------
(* What a test says, and the code does not do. *)

\* test_block_header.cairo:206: an epoch is measured from the timestamp of its
\* first block, the one whose height is a multiple of BLOCKS_PER_EPOCH.
EpochStartsAtItsFirstBlock ==
  LET first == block_height - (block_height % BLOCKS_PER_EPOCH)
  IN first > 0 => epoch_start_time = headers[first + 1].time
=============================================================================

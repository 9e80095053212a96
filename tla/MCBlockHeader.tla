---------------------------- MODULE MCBlockHeader ---------------------------
EXTENDS BlockHeader

CONSTANTS
  Times,      \* timestamps of the blocks
  Hashes,     \* block hashes and the zeros before the genesis block
  MaxBlocks   \* the blocks of a chain: two epochs

\* Headers that fail each assert and headers that pass them all.
Headers == [prev_block_hash : Hashes, time : Times,
            bits : {current_target, MAX_BITS, MAX_BITS + 1}, hash : Hashes \ {0}]

\* Rejecting changes nothing, so a few headers will do: some with a wrong parent,
\* with too old a time or with bits that are out of range.
Refused == [prev_block_hash : Hashes, time : {0},
            bits : {current_target, MAX_BITS + 1}, hash : Hashes \ {0}]

MCNext ==
  \/ block_height + 1 < MaxBlocks
     /\ \E header \in Headers : validate_and_apply_block_header(header)
  \/ \E header \in Refused : Reject(header)

MCSpec == Init /\ [][MCNext]_vars

=============================================================================

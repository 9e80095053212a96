----------------------------- MODULE MerkleTree -----------------------------
(***************************************************************************)
(* The Merkle root of a block's transactions                               *)
(* (src/block/merkle_tree.cairo), row by row.                              *)
(***************************************************************************)
EXTENDS Naturals, Sequences, SequencesExt

CONSTANTS
  Transaction,  \* by their bytes
  Lists         \* what blocks may hold

\* A leaf is a txid and never the hash of two others.
hash256(x, y) == <<"hash", x, y>>
Txid(t) == <<"txid", t>>

ASSUME MerkleAssumption ==
  \A list \in Lists : list \in Seq({Txid(t) : t \in Transaction}) /\ list # << >>

Failed == << >>

\* _compute_merkle_root_loop
Pairs(row) == [i \in 1 .. Len(row) \div 2 |-> hash256(row[2 * i - 1], row[2 * i])]

\* Mutant: without the fix of CVE-2012-2459.
NextRowUnchecked(row) ==
  IF Len(row) % 2 = 1 THEN Pairs(Append(row, Last(row))) ELSE Pairs(row)

\* The last hash of an odd row is paired with itself; an even row must not look as
\* if that had happened to it.
NextRow(row) ==
  IF Len(row) % 2 = 1 THEN Pairs(Append(row, Last(row)))
  ELSE IF Last(row) = row[Len(row) - 1] THEN Failed
  ELSE Pairs(row)

\* The root alone in a row, or Failed.
compute_merkle_root(leaves) ==
  LET row[k \in 1 .. Len(leaves)] ==
        IF k = 1 THEN leaves
        ELSE LET prev == row[k - 1] IN IF Len(prev) > 1 THEN NextRow(prev) ELSE prev
  IN  row[Len(leaves)]
-----------------------------------------------------------------------------
VARIABLES
  block_txids,  \* the list of the block that is read, empty before the first
  merkle_root   \* what compute_merkle_root returned for it

merkleVars == <<block_txids, merkle_root>>

MerkleInit == block_txids = << >> /\ merkle_root = Failed

ReadBlock ==
  \E list \in Lists : block_txids' = list /\ merkle_root' = compute_merkle_root(list)

MerkleSpec == MerkleInit /\ [][ReadBlock]_merkleVars

RootOf == [list \in Lists |-> compute_merkle_root(list)]

\* Although the last hash of an odd row is paired with itself, on every level again,
\* no other list of transactions has the root of a block: one of them is refused.
RootCommitsToList ==
  merkle_root # Failed => \A list \in Lists : RootOf[list] = merkle_root => list = block_txids
=============================================================================

----------------------------- MODULE MCAlgorithms ---------------------------
(***************************************************************************)
(* The algorithms without an environment, each on all its inputs: the      *)
(* compact encoding on every target there is, the hash chain on every      *)
(* short array, the Merkle root of every short list, the integers of       *)
(* variable length, a stream read and written in all possible pieces, and  *)
(* an honest low-degree proof with every choice of three positions.        *)
(***************************************************************************)
EXTENDS Retarget, HashChain, MerkleTree, Serialize, FriVerifier

VARIABLE algorithm   \* which one is run

mcVars == <<algorithm, retargetVars, hashVars, merkleVars, varintVars, streamVars, friVars>>

MCWords == <<27, 228, 177, 78>>   \* 0123 3210 2301 1032 in base four

MCNumbers == 0 .. UINT32 + UINT16 \union {UINT32 * UINT32 - 1}

MCLists == SeqOf({Txid(1), Txid(2)}, 8) \ {<< >>}

MCProofs == {[poly |-> <<5, 3, 0, 7, 96, 1, 2, 60>>, alphas |-> <<17, 4, 90>>]}

MCInit ==
  /\ algorithm \in {"compact", "hash_chain", "merkle", "varint", "stream", "fri"}
  /\ RetargetInit /\ (algorithm # "compact" => exact = 0 /\ encoded = 0)
  /\ HashInit /\ MerkleInit /\ VarintInit /\ StreamInit /\ FriInit

NextEpoch ==
  /\ algorithm = "compact" /\ SteadyEpoch
  /\ UNCHANGED <<hashVars, merkleVars, varintVars, streamVars, friVars>>

NextHash ==
  /\ algorithm = "hash_chain" /\ HashNext
  /\ UNCHANGED <<retargetVars, merkleVars, varintVars, streamVars, friVars>>

NextBlock ==
  /\ algorithm = "merkle" /\ block_txids = << >> /\ ReadBlock
  /\ UNCHANGED <<retargetVars, hashVars, varintVars, streamVars, friVars>>

NewBlock ==
  /\ algorithm = "merkle" /\ block_txids # << >>
  /\ block_txids' = << >> /\ merkle_root' = Failed
  /\ UNCHANGED <<retargetVars, hashVars, varintVars, streamVars, friVars>>

NextVarint ==
  /\ algorithm = "varint" /\ encoding = << >> /\ WriteVarint
  /\ UNCHANGED <<retargetVars, hashVars, merkleVars, streamVars, friVars>>

NewVarint ==
  /\ algorithm = "varint" /\ encoding # << >>
  /\ source' = 0 /\ skipped' = 0 /\ encoding' = << >>
  /\ UNCHANGED <<retargetVars, hashVars, merkleVars, streamVars, friVars>>

NextPiece ==
  /\ algorithm = "stream" /\ StreamNext
  /\ UNCHANGED <<retargetVars, hashVars, merkleVars, varintVars, friVars>>

NewStream ==
  /\ algorithm = "stream" /\ written = Len(Stream)
  /\ input' = init_reader /\ output' = init_writer
  /\ taken' = << >> /\ written' = 0 /\ torn' = FALSE
  /\ UNCHANGED <<retargetVars, hashVars, merkleVars, varintVars, friVars>>

NextQueryOrLayer ==
  /\ algorithm = "fri" /\ FriNext
  /\ UNCHANGED <<retargetVars, hashVars, merkleVars, varintVars, streamVars>>

NewQueries ==
  /\ algorithm = "fri" /\ fri_step = "accepted"
  /\ fri_step' = "idle" /\ positions' = << >> /\ fri_proofs' = << >>
  /\ query' = 0 /\ layer' = 0 /\ evaluation' = 0
  /\ verified_positions' = [l \in Layers |-> << >>]
  /\ verified_positions_len' = None /\ next_verified_positions_len' = None
  /\ UNCHANGED <<proof, channel, retargetVars, hashVars, merkleVars, varintVars, streamVars>>

MCNext ==
  /\ NextEpoch \/ NextHash \/ NextBlock \/ NewBlock \/ NextVarint \/ NewVarint
     \/ NextPiece \/ NewStream \/ NextQueryOrLayer \/ NewQueries
  /\ UNCHANGED algorithm

MCSpec == MCInit /\ [][MCNext]_mcVars
=============================================================================

----------------------------- MODULE MCAnyBridge ----------------------------
(***************************************************************************)
(* A small accumulator and every inclusion proof of at most MaxProof nodes *)
(* of the right heights, whether or not its leaves are in the forest.      *)
(*                                                                         *)
(* The outputs in Stock stay once they are added and are in no proof: they *)
(* are there to fill the forest, before or after the others.               *)
(***************************************************************************)
EXTENDS AnyBridge, TLC

CONSTANTS
  MaxProof,   \* the longest inclusion proof that is tried
  Stock       \* as many outputs as there are in the highest tree

MCNodes(i) == [1 .. 2^i -> Leaf \ Stock]

MCProofs(len) == {p \in [1 .. len -> UNION {MCNodes(i) : i \in 0 .. len - 1}] :
                    \A i \in 1 .. len : p[i] \in MCNodes(i - 1)}

MCAnswers == UNION {[leaf_index : 0 .. 2^len - 1, proof : MCProofs(len)] : len \in 0 .. MaxProof}

\* Both kinds are added all or none before the other: first or last.
MCAdd(x) ==
  /\ x \in Stock => LeavesOf(roots) \ Stock \in {{}, Leaf \ Stock}
  /\ x \notin Stock => LeavesOf(roots) \intersect Stock \in {{}, Stock}
  /\ StartAdd(x)

MCNext ==
  \/ \E x \in Leaf : MCAdd(x)
  \/ \E x \in Leaf \ Stock : StartDelete(x)
  \/ \E answer \in Answers : Fetch(answer)
  \/ FetchFails
  \/ Compute
  \/ Restart

MCSpec == Init /\ [][MCNext]_cairoVars

MCSymmetry == Permutations(Leaf \ Stock) \union Permutations(Stock)
=============================================================================

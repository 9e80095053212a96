------------------------------ MODULE AnyBridge -----------------------------
(***************************************************************************)
(* The accumulator with a bridge node that may answer anything: a leaf     *)
(* index and a list of nodes, or nothing.  What is shown here of the       *)
(* accumulator holds whatever state the bridge node is in.                 *)
(***************************************************************************)
EXTENDS Utreexo

CONSTANT Answers   \* the inclusion proofs the bridge node may return

Next ==
  \/ \E x \in Leaf : StartAdd(x) \/ StartDelete(x)
  \/ \E answer \in Answers : Fetch(answer)
  \/ FetchFails
  \/ Compute
  \/ Restart

Spec == Init /\ [][Next]_cairoVars
=============================================================================

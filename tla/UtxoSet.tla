------------------------------- MODULE UtxoSet ------------------------------
(***************************************************************************)
(* What the UTXO set promises to the block validator: a set of outputs.    *)
(* An output is created once, spent only while it is in the set, and       *)
(* nothing else changes the set but a new run of the driver, which starts  *)
(* again from the genesis state.                                           *)
(***************************************************************************)
CONSTANT Leaf

VARIABLE utxos

Init == utxos = {}

Insert(x) == x \notin utxos /\ utxos' = utxos \union {x}

Extract(x) == x \in utxos /\ utxos' = utxos \ {x}

Restart == utxos' = {}

Next == (\E x \in Leaf : Insert(x) \/ Extract(x)) \/ Restart

Spec == Init /\ [][Next]_utxos
=============================================================================

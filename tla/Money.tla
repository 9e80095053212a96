------------------------------- MODULE Money --------------------------------
(***************************************************************************)
(* What block validation promises about money: the unspent outputs change  *)
(* by whole blocks, and a block creates no more than its subsidy.          *)
(*                                                                         *)
(* An output is named by the place where it was created: the height of the *)
(* block, the index of the transaction in it, 0 for the coinbase, and its  *)
(* index in the transaction.                                               *)
(***************************************************************************)
EXTENDS Integers, FiniteSets, FiniteSetsExt

CONSTANTS
  INITIAL_SUBSIDY,   \* 50 * 10^8
  HALVING            \* 210000

ASSUME SubsidyAssumption == INITIAL_SUBSIDY \in Nat /\ HALVING \in Nat \ {0}

VARIABLES height, utxos   \* of the last block; -1 before the first

Output == [height : Nat, tx : Nat, vout : Nat, amount : Nat]

Value(outputs) == MapThenSumSet(LAMBDA o : o.amount, outputs)

\* The subsidy is halved, and rounded, every HALVING blocks.
Subsidy[h \in Nat] ==
  IF h = 0 THEN INITIAL_SUBSIDY
  ELSE IF h % HALVING = 0 THEN Subsidy[h - 1] \div 2 ELSE Subsidy[h - 1]

\* All the money there may be after the block of height h.
Issued(h) == MapThenSumSet(LAMBDA k : Subsidy[k], 0 .. h)

Init == height = -1 /\ utxos = {}

\* A block takes outputs that were there and leaves outputs of its own.  Those
\* of its transactions are paid for by what it took, those of the coinbase by
\* the rest of it and the subsidy.
Block ==
  LET spent == utxos \ utxos'
      created == utxos' \ utxos
  IN /\ height' = height + 1
     /\ \A o \in created : o.height = height'
     /\ Value({o \in created : o.tx # 0}) <= Value(spent)
     /\ Value(created) <= Value(spent) + Subsidy[height']

\* The driver starts again from the genesis state.
Restart == height' = -1 /\ utxos' = {}

Next == Block \/ Restart

Spec == Init /\ [][Next]_<<height, utxos>>
=============================================================================

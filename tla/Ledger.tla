------------------------------- MODULE Ledger -------------------------------
(***************************************************************************)
(* The transactions of a block (src/block/block.cairo, src/transaction/    *)
(* transaction.cairo), one action per input, output and transaction: all   *)
(* but the coinbase in their order, then the coinbase.  The roots of the   *)
(* UTXO set are passed from one to the next, here as the set of outputs    *)
(* that the accumulator implements (AnyBridge).                            *)
(*                                                                         *)
(* The Bitcoin node fixes the block before the run.  Here each part of it  *)
(* is chosen when it is due, which is the same: nothing depends on it      *)
(* before.  Two transactions never have the same txid.                     *)
(***************************************************************************)
EXTENDS Money

VARIABLES
  pc,
  roots,         \* utreexo_roots of the running program
  tx,            \* the index of the transaction
  output_index,  \* the outputs of it that were inserted
  total_input_amount, total_output_amount, total_fees

locals == <<roots, tx, output_index, total_input_amount, total_output_amount, total_fees>>
vars == <<height, utxos, pc, locals>>

\* The state that the run started from is still there, whatever the run did.
Leave(next) ==
  /\ pc' = next
  /\ roots' = {} /\ tx' = 0 /\ output_index' = 0
  /\ total_input_amount' = 0 /\ total_output_amount' = 0 /\ total_fees' = 0

Abort == Leave("aborted") /\ UNCHANGED <<height, utxos>>

LedgerInit ==
  /\ Init
  /\ pc = "idle"
  /\ roots = {} /\ tx = 0 /\ output_index = 0
  /\ total_input_amount = 0 /\ total_output_amount = 0 /\ total_fees = 0

\* A run for the next block, whose header is valid and names these transactions.
StartBlock ==
  /\ pc = "idle"
  /\ pc' = "transactions" /\ roots' = utxos
  /\ UNCHANGED <<height, utxos, tx, output_index,
                 total_input_amount, total_output_amount, total_fees>>

-----------------------------------------------------------------------------
(* validate_and_apply_transaction *)

NextTransaction ==
  /\ pc = "transactions"
  /\ pc' = "inputs" /\ tx' = tx + 1
  /\ UNCHANGED <<height, utxos, roots, output_index,
                 total_input_amount, total_output_amount, total_fees>>

\* utxo_set_extract of an output that is in the set, and of one that is not.
ApplyInput(output) ==
  /\ pc = "inputs" /\ output \in roots
  /\ roots' = roots \ {output}
  /\ total_input_amount' = total_input_amount + output.amount
  /\ UNCHANGED <<height, utxos, pc, tx, output_index, total_output_amount, total_fees>>

InputNotIncluded == pc = "inputs" /\ Abort

\* utxo_set_insert, for a transaction whose inputs are done and for the coinbase.
InsertOutput(amount) ==
  /\ roots' = roots \union {[height |-> height + 1, tx |-> tx, vout |-> output_index, amount |-> amount]}
  /\ output_index' = output_index + 1
  /\ total_output_amount' = total_output_amount + amount
  /\ UNCHANGED <<height, utxos, tx, total_input_amount, total_fees>>

ValidateOutput(amount) ==
  /\ pc \in {"inputs", "outputs"} /\ pc' = "outputs"
  /\ InsertOutput(amount)

\* Mutant: the outputs may be worth more than the inputs.
EndTransactionUnchecked ==
  /\ pc \in {"inputs", "outputs"}
  /\ pc' = "transactions"
  /\ total_fees' = total_fees + total_input_amount - total_output_amount
  /\ output_index' = 0 /\ total_input_amount' = 0 /\ total_output_amount' = 0
  /\ UNCHANGED <<height, utxos, roots, tx>>

EndTransaction ==
  /\ pc \in {"inputs", "outputs"}
  /\ total_output_amount <= total_input_amount
  /\ pc' = "transactions"
  /\ total_fees' = total_fees + total_input_amount - total_output_amount
  /\ output_index' = 0 /\ total_input_amount' = 0 /\ total_output_amount' = 0
  /\ UNCHANGED <<height, utxos, roots, tx>>

\* "The total output amount is greater than the input one."
RejectTransaction ==
  /\ pc \in {"inputs", "outputs"}
  /\ total_output_amount > total_input_amount
  /\ Abort

-----------------------------------------------------------------------------
(* validate_and_apply_coinbase *)

StartCoinbase ==
  /\ pc = "transactions"
  /\ pc' = "coinbase" /\ tx' = 0
  /\ UNCHANGED <<height, utxos, roots, output_index,
                 total_input_amount, total_output_amount, total_fees>>

\* The first transaction does not have the one input of a coinbase.
RejectCoinbaseInput == pc = "transactions" /\ Abort

ValidateCoinbaseOutput(amount) ==
  /\ pc = "coinbase" /\ pc' = pc
  /\ InsertOutput(amount)

\* Mutant: the reward is halved a block late.
RewardHalvedLate(block_height) ==
  INITIAL_SUBSIDY \div 2^(block_height \div (HALVING + 1))

compute_block_reward(block_height) ==
  INITIAL_SUBSIDY \div 2^(block_height \div HALVING)

CoinbaseCovered == total_output_amount <= compute_block_reward(height + 1) + total_fees

\* The program outputs the next state.
EndCoinbase ==
  /\ pc = "coinbase" /\ CoinbaseCovered
  /\ height' = height + 1 /\ utxos' = roots
  /\ Leave("idle")

RejectCoinbase == pc = "coinbase" /\ ~CoinbaseCovered /\ Abort

-----------------------------------------------------------------------------
\* The runner is killed, or the Bitcoin or the bridge node does not answer.
Kill == pc # "aborted" /\ Abort

\* The driver knows no other start than the genesis state.
StartDriver == pc = "aborted" /\ Restart /\ Leave("idle")

LedgerNext ==
  \/ StartBlock
  \/ NextTransaction
  \/ \E output \in roots : ApplyInput(output)
  \/ InputNotIncluded
  \/ \E amount \in Nat : ValidateOutput(amount) \/ ValidateCoinbaseOutput(amount)
  \/ EndTransaction \/ RejectTransaction
  \/ StartCoinbase \/ RejectCoinbaseInput \/ EndCoinbase \/ RejectCoinbase
  \/ Kill \/ StartDriver

LedgerSpec == LedgerInit /\ [][LedgerNext]_vars

-----------------------------------------------------------------------------
\* No money but the subsidies: at no point of a block are the unspent outputs,
\* with the fees collected so far and what the transaction at hand has taken and
\* not yet given, worth more than all the subsidies of the blocks before.
NoInflation ==
  /\ Value(utxos) <= Issued(height)
  /\ pc \notin {"idle", "aborted"} =>
       Value(roots) + total_fees + total_input_amount <= Issued(height) + total_output_amount

\* One step after the other, and with runs that fail anywhere in between, blocks
\* have the effect of Money!Block as a whole or none at all: what their
\* transactions create is paid for by outputs of earlier blocks, whatever they
\* spend of each other, and the rest is for the coinbase.
ImplementsMoney == Spec
=============================================================================

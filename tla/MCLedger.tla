------------------------------ MODULE MCLedger ------------------------------
EXTENDS Ledger

CONSTANTS
  Amounts,       \* the amounts of outputs
  MaxHeight,     \* the height of the last block
  MaxTx,         \* the transactions of a block, the coinbase not counted
  MaxOutputs     \* the outputs of a transaction

MCNext ==
  \/ height < MaxHeight /\ StartBlock
  \/ tx < MaxTx /\ NextTransaction
  \/ \E output \in roots : ApplyInput(output)
  \/ InputNotIncluded
  \/ \E amount \in Amounts :
       output_index < MaxOutputs /\ (ValidateOutput(amount) \/ ValidateCoinbaseOutput(amount))
  \/ EndTransaction \/ RejectTransaction
  \/ StartCoinbase \/ RejectCoinbaseInput \/ EndCoinbase \/ RejectCoinbase
  \/ Kill \/ StartDriver

MCSpec == LedgerInit /\ [][MCNext]_vars
=============================================================================

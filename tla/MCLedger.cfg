SPECIFICATION MCSpec
CONSTANTS
  INITIAL_SUBSIDY = 3
  HALVING = 2
  Amounts = {1, 2, 4}
  MaxHeight = 2
  MaxTx = 2
  MaxOutputs = 2
INVARIANTS
  NoInflation
PROPERTY ImplementsMoney

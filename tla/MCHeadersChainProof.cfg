SPECIFICATION Spec
CONSTANTS
  Chains <- MCChains
  Parameters <- MCParameters
  MMR_ROOTS_LEN = 3
INVARIANTS
  TypeOK
  ProofsVouchForHeaders
  StateIsProvenButForLastBatch
PROPERTIES
  FailedProofIsFinal
  AllBatchesProven

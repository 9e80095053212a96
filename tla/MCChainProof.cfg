SPECIFICATION Spec
CONSTANTS
  Choice = {x, y}
  NumBlocks = 3
  Dirs = {"tmp"}
  Programs = {1, 2}
  GenesisHash = 1
  Faults = TRUE
INVARIANTS
  ProofsVouchForChains
  StateIsProvenButForLast
PROPERTY AllBlocksProven

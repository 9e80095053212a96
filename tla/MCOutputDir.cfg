SPECIFICATION Spec
CONSTANTS
  Choice = {x, y}
  NumBlocks = 2
  Dirs = {"out"}
  Programs = {1}
  GenesisHash = 1
  Faults = FALSE
PROPERTY AllBlocksProven

SPECIFICATION ProverSpec
CONSTANTS
  Leaf = {a, b, c, d}
  NoLeaf = NoLeaf
  Height = 3
  Duplicates = {}
SYMMETRY MCSymmetry
INVARIANTS
  Lockstep
  OneRequestAhead
  ValidRunNeverAborts

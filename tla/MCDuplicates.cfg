SPECIFICATION ProverSpec
CONSTANTS
  Leaf = {a, b, c}
  NoLeaf = NoLeaf
  Height = 2
  Duplicates = {a}
PROPERTIES
  OneOccurrenceAtATime
  OperationEnds

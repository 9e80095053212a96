SPECIFICATION MCSpec
CONSTANTS
  Leaf = {a, b, c, d, e, f, g, h}
  NoLeaf = NoLeaf
  Height = 3
  Duplicates = {}
  MaxProof = 2
  Stock = {e, f, g, h}
  Answers <- MCAnswers
SYMMETRY MCSymmetry
INVARIANTS
  NoLeafTwice
PROPERTY ImplementsUtxoSet

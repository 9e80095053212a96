SPECIFICATION MCSpec
CONSTANTS
  a = a
  b = b
  Leaf = {a, b, c, d, e, f, g, h, i}
  Height = 3
  Block <- MCBlock
  Inputs <- MCInputs
  Own <- MCOwn
  Coinbase = Coinbase
  OtherLeaf = {a, b}
SYMMETRY MCSymmetry
INVARIANTS
  ForestPerfect
  ProofsVerify
  EveryLeafProvable
  DummysFitTheBlock

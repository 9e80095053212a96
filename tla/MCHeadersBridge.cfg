SPECIFICATION Spec
CONSTANTS
  Chains <- MCChains
  Wanted = {1, 3, 5, 6, 7}
INVARIANTS
  TypeOK
  PathsLeadToRoot
  NullPathIsBehindLastLeaf
  LeavesAreOneChain
PROPERTY CreateServesBestChain

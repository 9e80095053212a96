SPECIFICATION MCSpec
CONSTANTS
  Base = 4
  MaxExponent = 6
  Word = {0, 1}
  MaxLength = 5
  Transaction = {1, 2}
  Lists <- MCLists
  BYTE = 4
  Numbers <- MCNumbers
  Words <- MCWords
  FIELD = 97
  MULTIPLICATIVE_GENERATOR = 5
  TWO_ADIC_ROOT_OF_UNITY = 28
  TWO_ADICITY = 5
  FOLDING_FACTOR = 2
  NUM_QUERIES = 3
  log2_domain_size = 4
  max_remainder_size = 2
  trace_length = 8
  Proofs <- MCProofs
INVARIANTS
  HonestHintAccepted
  AnswerIsNeverEasier
  ReturnsTheChain
  NoTwoArraysCollide
  RootCommitsToList
  VarintRoundTrip
  StreamIsCopied
  HonestProofAccepted

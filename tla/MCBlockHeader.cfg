SPECIFICATION MCSpec
CONSTANTS
  Base = 4
  MaxExponent = 5
  Half = 1
  BLOCKS_PER_EPOCH = 3
  EXPECTED_EPOCH_TIMESPAN = 4
  GENESIS_TIME = 1
  GENESIS_HASH = 0
  MAX_TIME = 30
  HASH_SPACE = 65536
  PRIME = 10007
  Times = {1, 4, 30}
  Hashes = {0, 1, 100}
  MaxBlocks = 6
INVARIANTS
  TypeOK
  StateSummarisesChain
  MedianIsUnique
PROPERTIES
  ImplementsHeaderChain
  MedianNeverDecreases
  TargetMovesSlowly

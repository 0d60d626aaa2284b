SPECIFICATION MCSpec
CONSTANTS
  Keys = {k1, k2, k3}
  HashBits <- Bits
  Hashes <- HashValues
  WordSize = 128
  Word <- WordOf
  Mix <- MixOf
  BloomHash <- BloomHashOf
  BloomDelta <- BloomDeltaOf
  BitsPerKey = {10, 16, 50}
  kCapacityNumerator = 123
  kCapacityDenominator = 100
  kCapacitySlack = 2
  kMaxSeedTries = 2
  EntryKeys <- TableEntries
  RocksBitsPerKey = {0, 10, 20}
  KeysPerPartition = 2
SYMMETRY Symmetry
INVARIANTS NoFalseNegatives RetryOnlyOnCore RocksNoFalseNegatives
PROPERTIES WorkShrinks

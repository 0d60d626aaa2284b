SPECIFICATION Spec
CONSTANTS
  Keys = {k1, k2, k3}
  MaxKeys = 3
  WordSize = 128
  ResultHashes <- ResultHashValues
  HighWord <- HighWordOf
  LowBits <- LowBitsOf
  CoefficientHashes <- CoefficientHashValues
  BloomWord <- BloomWordOf
  BitsPerKey = {20}
  kRibbonWidth = 3
  kOverheadNumerator = 105
  kOverheadDenominator = 100
  kMaxSeedTries = 2
SYMMETRY Symmetry
INVARIANTS NoFalseNegatives FailsOnlyIfUnsolvable
PROPERTIES WorkShrinks

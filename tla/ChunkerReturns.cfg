SPECIFICATION CKSpec
CONSTANTS
  Texts <- ShortTexts
  ChunkDescs <- OverlappingSentences
  TokenCounts = {}
  CountBits = 3
  SimdBlock = 2
PROPERTIES
  ChunkReturns
CHECK_DEADLOCK FALSE

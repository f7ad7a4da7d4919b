SPECIFICATION Spec
CONSTANTS
  SizeRange = 1024
  ByteHalf = 1
  kNumLanes = 4
  kNumWordBits = 4
  kNumAvxBits = 4
  kNumTuplesPerBlock = 8
  kNumBytesPerCode = 3
  PadFactor = 1
  NEARLYSTOP = TRUE
  CodeArrays <- MCCodeArrays
  Literals <- MCLiterals
  BitPatterns <- MCBitPatterns
  Nums <- MCNums
INVARIANTS
  ResultCorrect
  EarlyStopSound
CHECK_DEADLOCK FALSE

SPECIFICATION Spec
CONSTANTS
  SizeRange = 1024
  ByteHalf = 2
  kNumLanes = 2
  kNumWordBits = 4
  kNumAvxBits = 8
  kNumTuplesPerBlock = 8
  kNumBytesPerCode = 2
  PadFactor = 2
  NEARLYSTOP = FALSE
  CodeArrays <- MCCodeArrays
  Literals <- MCLiterals
  BitPatterns <- MCBitPatterns
  Nums <- MCNums
INVARIANTS
  TypeOK
  ResultCorrect
  EarlyStopSound
  AccessesInBounds
  IInv
PROPERTIES
  ImplementsBlockScan
CHECK_DEADLOCK FALSE

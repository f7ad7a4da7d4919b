SPECIFICATION Spec
CONSTANTS
  SizeRange = 1024
  kNumWordBits = 2
  kNumAvxBits = 4
  kNumTuplesPerBlock = 8
  DtypeRange = 16
  CodeRange = 8
  CodeArrays <- MCCodeArrays
  Literals <- MCLiterals
  BitPatterns <- MCBitPatterns
  Nums <- MCNums
INVARIANTS
  TypeOK
  LayoutsAgree
  TailAsFound
PROPERTIES
  ImplementsBlockScan
CHECK_DEADLOCK FALSE

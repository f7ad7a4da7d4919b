SPECIFICATION Spec
CONSTANTS
  SizeRange = 16
  kNumWordBits = 2
  kNumAvxBits = 4
  kNumTuplesPerBlock = 4
  num_ = 9
  Vectors <- MCVectors
  Touched <- MCTouched
  StopAtEnd = FALSE
PROPERTY TrueMeansNext
CHECK_DEADLOCK FALSE

SPECIFICATION Spec
CONSTANTS
  SizeRange = 16
  kNumWordBits = 2
  kNumAvxBits = 4
  kNumTuplesPerBlock = 4
  num_ = 9
  Vectors <- MCVectors
  Touched <- MCTouched
  StopAtEnd = TRUE
INVARIANTS
  TypeOK
  SeenAscending
  SeenExactly
PROPERTIES
  StaleWithinWord
  IterationEnds
CHECK_DEADLOCK FALSE

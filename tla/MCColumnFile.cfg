SPECIFICATION Spec
CONSTANTS
  MaxBlocks = 2
  kNumBytesPerCode = 1
  NumCells = 1
  SliceCells = 2
  Own = Own
INVARIANTS
  TypeOK
  RestoreExact
  OrderKept
  ClosedWhole
CHECK_DEADLOCK FALSE

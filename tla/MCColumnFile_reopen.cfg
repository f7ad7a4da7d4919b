SPECIFICATION Spec
CONSTANTS
  MaxBlocks = 2
  kNumBytesPerCode = 1
  NumCells = 1
  SliceCells = 2
  Own = Own
INVARIANT AlreadyOpenIsOpen
CHECK_DEADLOCK FALSE

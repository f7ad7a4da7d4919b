SPECIFICATION Spec
CONSTANTS
  SizeRange = 64
  kNumTuplesPerBlock = 2
  kNumWordBits = 1
  NDEBUG = FALSE
  MaxTuples = 5
  Codes = {0, 1}
  Fresh = 0
  Arrays <- MCArrays
  NoLoad = NoLoad
INVARIANT ResizeAssertHolds
CHECK_DEADLOCK FALSE

SPECIFICATION Spec
CONSTANTS
  SizeRange = 64
  kNumTuplesPerBlock = 2
  kNumWordBits = 1
  NDEBUG = TRUE
  MaxTuples = 5
  Codes = {0, 1}
  Fresh = 0
  Arrays <- MCArrays
  NoLoad = NoLoad
INVARIANTS
  TypeOK
PROPERTIES
  ScanComplete
  LayoutKept
  ResizeKeepsTuples
  HealthyCallsReturn
  BulkLoadExact
  LoadEnds
CHECK_DEADLOCK FALSE

SPECIFICATION SessionSpec
CONSTANTS
  SizeRange = 64
  kNumTuplesPerBlock = 4
  kNumWordBits = 2
  kNumAvxBits = 2
  NDEBUG = TRUE
  MaxTuples = 6
  Codes = {0, 1}
  Fresh = 0
  Arrays <- MCArrays
  NoLoad = NoLoad
  ColumnTypes = {"kNaive", "kByteSlicePadRight"}
  Comparators = {"kLess", "kEqual"}
  Literals = {1}
  Others <- MCOthers
INVARIANTS
  SessionTypeOK
  QueryExact
  StaleVectorExact
PROPERTIES
  TailsDirtied
  LostTuplesAnswer
CHECK_DEADLOCK FALSE

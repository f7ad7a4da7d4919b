SPECIFICATION Spec
CONSTANTS
  SizeRange = 1024
  kNumWordBits = 2
  kNumAvxBits = 4
  kNumTuplesPerBlock = 4
  num_ = 9
  Worker = {w1, w2}
  NoCall = NoCall
  Calls <- MCCalls
  Bits <- MCBits
INVARIANTS
  TypeOK
  TailsClean
  BlocksOnce
  BlocksOwned
PROPERTIES
  ImplementsBitVectorSpec
  CallsReturn

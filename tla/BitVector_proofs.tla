-------------------------- MODULE BitVector_proofs --------------------------
(***************************************************************************)
(* BitVector, proved for every size of vector, block, register and word,   *)
(* every team of threads and every operation the caller may ask for: the   *)
(* inductive invariant VectorInv, and from it the run's invariants and     *)
(* that the vector is a BitVectorSpec.                                     *)
(***************************************************************************)
EXTENDS BitVector, BitVectorBlock_proofs, FiniteSetTheorems

Tuple == 0 .. num_ - 1
Clean(bs) == \A b \in BlockId : bs[b] \subseteq 0 .. BlockNum(b) - 1

(* Where the loop and its threads are.                                     *)
LoopOK ==
  /\ call = NoCall => /\ next_block = 0 /\ count = 0
                      /\ \A w \in Worker : pc[w] = "out" /\ partial[w] = 0
  /\ call # NoCall => \A w \in Worker : pc[w] # "out"
  /\ \A w \in Worker :
       /\ pc[w] = "barrier" => next_block = NumBlocks
       /\ pc[w] = "load" => word_id[w] <= Words(block[w])
       /\ pc[w] = "store" => word_id[w] < Words(block[w])

(* During an operation the words in use hold all the bits there are; only  *)
(* SetZeros and CountOnes, which do not clear it, find and leave the tail  *)
(* clean.                                                                  *)
StorageOK ==
  call # NoCall =>
    /\ \A b \in BlockId : blocks_[b] \subseteq UnitPositions(BlockNum(b))
    /\ Clean(old)
    /\ call.op \in {"SetZeros", "CountOnes"} => Clean(blocks_)
    /\ call.op = "CountOnes" => blocks_ = old

(* The tuples whose words have been read, and those of them that count.    *)
ReadTuple(t) ==
  LET b == t \div kNumTuplesPerBlock IN
  /\ Started(b)
  /\ \A w \in Worker : Working(w) /\ block[w] = b =>
       (t % kNumTuplesPerBlock) \div kNumWordBits < word_id[w]

Counted == {t \in Ids(old) : ReadTuple(t)}

(* The tuples each thread has counted share them out, and the total has    *)
(* the shares of the threads that left.                                    *)
Left == {w \in Worker : pc[w] = "barrier"}

Shares(part) ==
  /\ \A v, w \in Worker : v # w => part[v] \cap part[w] = {}
  /\ UNION {part[w] : w \in Worker} = Counted
  /\ \A w \in Worker : partial[w] = Cardinality(part[w])
  /\ count = Cardinality(UNION {part[w] : w \in Left})

CountOK ==
  call # NoCall /\ call.op = "CountOnes" =>
    \E part \in [Worker -> SUBSET Tuple] : Shares(part)

VectorInv ==
  /\ TypeOK /\ LoopOK /\ StorageOK /\ CountOK
  /\ TailsClean /\ BlocksOnce /\ BlocksOwned

-----------------------------------------------------------------------------
(* Sizes: of the vector, its blocks and their words.                       *)

LEMMA VectorSizes ==
  /\ kNumTuplesPerBlock \in Nat \ {0} /\ kNumWordBits \in Nat \ {0}
  /\ num_ \in Nat \ {0} /\ NumBlocks \in Nat \ {0}
  /\ num_ <= kNumTuplesPerBlock * NumBlocks
  /\ kNumTuplesPerBlock * (NumBlocks - 1) < num_
<1>1. num_ \in 1 .. SizeRange - 1 /\ SizeRange \in Nat
  BY CallAssumption, SizeRangeAssumption
<1> QED BY <1>1, Sizes, CeilCovers DEF NumBlocks

LEMMA BlockSizes ==
  ASSUME NEW b \in BlockId
  PROVE  /\ b \in Nat /\ BlockNum(b) \in 1 .. kNumTuplesPerBlock
         /\ b * kNumTuplesPerBlock + BlockNum(b) <= num_
         /\ \/ BlockNum(b) = kNumTuplesPerBlock
            \/ b * kNumTuplesPerBlock + BlockNum(b) = num_
<1> DEFINE K == kNumTuplesPerBlock
<1>1. K \in Nat \ {0} /\ num_ \in Nat \ {0} /\ NumBlocks \in Nat \ {0}
      /\ K * (NumBlocks - 1) < num_
  BY VectorSizes
<1>2. b \in Nat /\ b <= NumBlocks - 1
  BY <1>1 DEF BlockId
<1> HIDE DEF K
<1>3. b * K <= K * (NumBlocks - 1) /\ b * K \in Nat
  BY <1>1, <1>2
<1>4. num_ - b * K \in Nat \ {0}
  BY <1>1, <1>3
<1>5. BlockNum(b) = IF num_ - b * K < K THEN num_ - b * K ELSE K
  BY DEF BlockNum, K
<1> DEFINE n == BlockNum(b)
<1>6. n \in 1 .. K /\ b * K + n <= num_ /\ (n = K \/ b * K + n = num_)
  <2> DEFINE m == b * K
  <2>1. m \in Nat /\ num_ - m \in Nat \ {0} /\ n = IF num_ - m < K THEN num_ - m ELSE K
    BY <1>3, <1>4, <1>5
  <2> HIDE DEF n, m
  <2>2. n \in 1 .. K /\ m + n <= num_ /\ (n = K \/ m + n = num_)
    BY <1>1, <2>1
  <2> QED BY <2>2 DEF m
<1> QED BY <1>2, <1>6 DEF K

(* A tuple id is a position of a block, and the other way round.           *)
LEMMA TuplePlace ==
  ASSUME NEW t \in Tuple
  PROVE  /\ t \div kNumTuplesPerBlock \in BlockId
         /\ t % kNumTuplesPerBlock \in 0 .. BlockNum(t \div kNumTuplesPerBlock) - 1
         /\ t = kNumTuplesPerBlock * (t \div kNumTuplesPerBlock) + (t % kNumTuplesPerBlock)
<1> DEFINE K == kNumTuplesPerBlock
           b == t \div K
           p == t % K
<1>1. K \in Nat \ {0} /\ num_ \in Nat \ {0} /\ NumBlocks \in Nat \ {0}
      /\ num_ <= K * NumBlocks
  BY VectorSizes
<1>2. t \in Nat /\ t < num_
  BY <1>1 DEF Tuple
<1>3. b \in Nat /\ p \in 0 .. K - 1 /\ t = K * b + p
  BY <1>1, <1>2, Quotient
<1> HIDE DEF K, b, p
<1>4. b < NumBlocks
  <2>1. K * b < K * NumBlocks
    BY <1>1, <1>2, <1>3
  <2> QED BY <2>1, <1>1, <1>3
<1>5. b \in BlockId
  BY <1>1, <1>3, <1>4 DEF BlockId
<1>6. /\ BlockNum(b) \in 1 .. K
      /\ BlockNum(b) = K \/ b * K + BlockNum(b) = num_
  BY <1>5, BlockSizes DEF K
<1>7. p < BlockNum(b)
  BY <1>1, <1>2, <1>3, <1>5, <1>6, BlockSizes DEF K
<1>8. p \in 0 .. BlockNum(b) - 1
  BY <1>3, <1>5, <1>7, BlockSizes, <1>1 DEF K
<1> QED BY <1>3, <1>5, <1>8 DEF K, b, p

LEMMA PlaceTuple ==
  ASSUME NEW b \in BlockId, NEW p \in 0 .. BlockNum(b) - 1
  PROVE  LET t == b * kNumTuplesPerBlock + p
         IN  t \in Tuple /\ t \div kNumTuplesPerBlock = b /\ t % kNumTuplesPerBlock = p
<1> DEFINE K == kNumTuplesPerBlock
<1>1. /\ K \in Nat \ {0} /\ num_ \in Nat /\ b \in Nat /\ BlockNum(b) \in 1 .. K
      /\ b * K + BlockNum(b) <= num_
  BY VectorSizes, BlockSizes
<1>2. p \in Nat /\ p < BlockNum(b) /\ p \in 0 .. K - 1
  BY <1>1
<1>3. K * b + p = b * K + p /\ b * K \in Nat
  BY <1>1, <1>2
<1>4. (K * b + p) \div K = b /\ (K * b + p) % K = p
  <2> HIDE DEF K
  <2> QED BY <1>1, <1>2, QuotientUnique
<1>5. b * K + p < num_
  BY <1>1, <1>2, <1>3
<1> QED BY <1>1, <1>2, <1>3, <1>4, <1>5 DEF Tuple

LEMMA TuplesFinite == IsFiniteSet(Tuple) /\ IsFiniteSet(WordBit)
<1>1. 0 \in Int /\ num_ - 1 \in Int /\ kNumWordBits - 1 \in Int
  BY VectorSizes
<1>2. IsFiniteSet(0 .. num_ - 1) /\ IsFiniteSet(0 .. kNumWordBits - 1)
  BY <1>1, FS_Interval
<1> QED BY <1>2 DEF Tuple, WordBit

(* A position and the words before, at and after it.                       *)
LEMMA WordPlace ==
  ASSUME NEW p \in Nat, NEW n \in Nat
  PROVE  /\ p \div kNumWordBits \in Nat /\ n * kNumWordBits \in Nat
         /\ p \div kNumWordBits < n <=> p < n * kNumWordBits
         /\ p \div kNumWordBits = n <=> p - n * kNumWordBits \in WordBit
<1> DEFINE W == kNumWordBits
           d == p \div W
           s == p % W
<1>1. W \in Nat \ {0}
  BY Sizes
<1>2. d \in Nat /\ s \in 0 .. W - 1 /\ p = W * d + s
  BY <1>1, Quotient
<1> HIDE DEF W, d, s
<1>3. n * W \in Nat
  BY <1>1
<1>4. CASE d < n
  <2>1. W * (d + 1) <= W * n
    BY <1>4, <1>1, <1>2
  <2>2. p < n * W /\ d # n /\ ~(p - n * W \in 0 .. W - 1)
    BY <2>1, <1>1, <1>2, <1>4
  <2> QED BY <2>2, <1>2, <1>3, <1>4 DEF W, d, WordBit
<1>5. CASE d = n
  <2>1. ~(p < n * W) /\ ~(d < n) /\ p - n * W \in 0 .. W - 1
    BY <1>1, <1>2, <1>5
  <2> QED BY <2>1, <1>2, <1>3, <1>5 DEF W, d, WordBit
<1>6. CASE d > n
  <2>1. W * (n + 1) <= W * d
    BY <1>6, <1>1, <1>2
  <2>2. ~(p < n * W) /\ d # n /\ ~(d < n) /\ ~(p - n * W \in 0 .. W - 1)
    BY <2>1, <1>1, <1>2, <1>6
  <2> QED BY <2>2, <1>2, <1>3 DEF W, d, WordBit
<1> QED BY <1>2, <1>4, <1>5, <1>6

LEMMA CallType ==
  ASSUME TypeOK, call # NoCall
  PROVE  /\ call.op \in {"Scan", "And", "Or", "SetOnes", "SetZeros", "CountOnes"}
         /\ call.opt \in BitwiseOpt
         /\ call.arg \in [BlockId -> SUBSET Position]
  BY CallAssumption DEF TypeOK

(* Every operation visits all the words that hold tuples, and no word      *)
(* beyond those in use.                                                    *)
LEMMA WordsCover ==
  ASSUME TypeOK, call # NoCall, NEW b \in BlockId
  PROVE  /\ Words(b) \in Nat /\ NumWordUnits(BlockNum(b)) \in Nat
         /\ BlockNum(b) <= Words(b) * kNumWordBits
         /\ Words(b) <= NumWordUnits(BlockNum(b))
<1> DEFINE n == BlockNum(b)
           u == NumWordUnits(n)
           W == kNumWordBits
           c == CEIL(n, W)
<1>1. n \in 1 .. kNumTuplesPerBlock
  BY BlockSizes
<1>2. u \in Nat \ {0} /\ n <= u * W
  BY <1>1, UnitsCover
<1>3. c \in Nat \ {0} /\ n <= W * c /\ W * (c - 1) < n
  <2>1. n \in 1 .. SizeRange - 1
    BY <1>1, BitVectorAssumption, SizeRangeAssumption
  <2> QED BY <2>1, Sizes, CeilCovers
<1>4. c <= u
  <2>1. W \in Nat \ {0} /\ n \in Nat
    BY <1>1, Sizes
  <2> HIDE DEF n, u, W, c
  <2>2. W * (c - 1) < W * u
    BY <1>2, <1>3, <2>1
  <2>3. c - 1 < u
    BY <1>2, <1>3, <2>1, <2>2
  <2> QED BY <1>2, <1>3, <2>3
<1>5. W \in Nat \ {0} /\ n \in Nat
  BY <1>1, Sizes
<1>6. n <= c * W
  <2> HIDE DEF n, u, W, c
  <2> QED BY <1>3, <1>5
<1>7. Words(b) = c \/ Words(b) = u
  BY DEF Words
<1>8. u <= u
  <2> HIDE DEF u
  <2> QED BY <1>2
<1> QED BY <1>2, <1>3, <1>4, <1>6, <1>7, <1>8

(* The words in use lie in the block and hold its tuples.                  *)
LEMMA UnitsInBlock ==
  ASSUME NEW b \in BlockId
  PROVE  /\ UnitPositions(BlockNum(b)) \subseteq Position
         /\ 0 .. BlockNum(b) - 1 \subseteq UnitPositions(BlockNum(b))
<1> DEFINE u == NumWordUnits(BlockNum(b)) * kNumWordBits
<1>1. BlockNum(b) \in 1 .. kNumTuplesPerBlock /\ kNumTuplesPerBlock \in Nat
  BY BlockSizes, Sizes
<1>2. u \in Nat /\ BlockNum(b) <= u /\ u <= kNumTuplesPerBlock
  BY <1>1, UnitsCover, Sizes
<1>3. UnitPositions(BlockNum(b)) = 0 .. u - 1
  BY DEF UnitPositions
<1> HIDE DEF u
<1> QED BY <1>1, <1>2, <1>3 DEF Position

LEMMA TuplesInBlock ==
  ASSUME NEW b \in BlockId, NEW p \in 0 .. BlockNum(b) - 1
  PROVE  p \in Position /\ p \in Nat /\ p < BlockNum(b)
<1>1. BlockNum(b) \in 1 .. kNumTuplesPerBlock /\ kNumTuplesPerBlock \in Nat
  BY BlockSizes, Sizes
<1> QED BY <1>1 DEF Position

(* What a thread's next step finds where it works.                         *)
LEMMA AtWork ==
  ASSUME VectorInv, NEW w \in Worker, Working(w)
  PROVE  /\ call # NoCall
         /\ block[w] \in BlockId /\ block[w] < next_block
         /\ word_id[w] \in Nat
         /\ Words(block[w]) \in Nat
         /\ \A v \in Worker : Working(v) /\ block[v] = block[w] => v = w
<1> USE DEF VectorInv
<1>1. call # NoCall
  BY DEF LoopOK, Working
<1>2. block[w] \in BlockId /\ word_id[w] \in Nat
  BY DEF TypeOK
<1>3. Words(block[w]) \in Nat
  BY <1>1, <1>2, WordsCover
<1> QED BY <1>1, <1>2, <1>3 DEF BlocksOwned, Started

-----------------------------------------------------------------------------
(* The steps.                                                              *)

(* CountOnes under way goes on with the shares it has while no tuple       *)
(* starts or stops counting and no thread leaves.                          *)
LEMMA SharesKept ==
  ASSUME CountOK, Counted' = Counted, Left' = Left,
         UNCHANGED <<call, partial, count>>
  PROVE  CountOK'
<1> SUFFICES ASSUME call # NoCall, call.op = "CountOnes"
             PROVE  \E part \in [Worker -> SUBSET Tuple] : Shares(part)'
  BY DEF CountOK
<1>1. PICK part \in [Worker -> SUBSET Tuple] : Shares(part)
  BY DEF CountOK
<1>2. Shares(part)'
  BY <1>1 DEF Shares
<1> QED BY <1>2

(* What an operation asks of a block does not change under way.            *)
LEMMA AfterStays ==
  ASSUME UNCHANGED <<call, old>>
  PROVE  \A b \in BlockId : \A p \in Position : After(b, p)' = After(b, p)
  BY DEF After, NewBit

LEMMA InitVector ==
  ASSUME Init
  PROVE  VectorInv
<1>1. ASSUME NEW b \in BlockId
      PROVE  /\ blocks_[b] = 0 .. BlockNum(b) - 1
             /\ blocks_[b] \subseteq Position
  <2>1. BlockNum(b) \in 1 .. kNumTuplesPerBlock
    BY BlockSizes
  <2>2. ClearTail(UnitPositions(BlockNum(b)), BlockNum(b))
          = UnitPositions(BlockNum(b)) \cap (0 .. BlockNum(b) - 1)
    BY <2>1, ClearTailExact
  <2> QED BY <2>2, UnitsInBlock DEF Init, SetOnes
<1>2. TypeOK
  <2>1. blocks_ \in [BlockId -> SUBSET Position]
    BY <1>1 DEF Init
  <2>2. 0 \in BlockId /\ 0 \in 0 .. NumBlocks
    BY VectorSizes DEF BlockId
  <2> QED BY <2>1, <2>2 DEF Init, TypeOK
<1>3. LoopOK
  BY DEF Init, LoopOK
<1>4. StorageOK /\ CountOK /\ BlocksOnce
  BY DEF Init, StorageOK, CountOK, BlocksOnce
<1>5. TailsClean
  BY <1>1 DEF TailsClean
<1>6. BlocksOwned
  BY DEF Init, BlocksOwned, Working
<1> QED BY <1>2, <1>3, <1>4, <1>5, <1>6 DEF VectorInv

LEMMA BeginInv ==
  ASSUME VectorInv, Begin
  PROVE  VectorInv'
<1> USE DEF VectorInv, Begin
<1>1. call' # NoCall
  BY CallAssumption
<1>2. TypeOK'
  BY DEF TypeOK
<1>3. next_block' = 0 /\ count' = 0 /\ \A w \in Worker : partial'[w] = 0 /\ pc'[w] = "claim"
  BY DEF LoopOK
<1>4. LoopOK'
  BY <1>1, <1>3 DEF LoopOK
<1>5. StorageOK'
  <2>1. \A b \in BlockId : blocks_[b] \subseteq UnitPositions(BlockNum(b))
    BY UnitsInBlock DEF TailsClean
  <2>2. Clean(blocks_)
    BY DEF TailsClean, Clean
  <2> QED BY <2>1, <2>2 DEF StorageOK, Clean
<1>6. \A b \in BlockId : ~Started(b)'
  BY <1>3, BlockSizes DEF Started
<1>7. \A w \in Worker : ~Working(w)'
  BY <1>3 DEF Working
<1>8. CountOK'
  <2> DEFINE part == [w \in Worker |-> {}]
  <2>1. part \in [Worker -> SUBSET Tuple]
    OBVIOUS
  <2>2. Counted' = {}
    <3> SUFFICES ASSUME NEW t \in Ids(old)', ReadTuple(t)'
                 PROVE  FALSE
      BY DEF Counted
    <3>1. t \div kNumTuplesPerBlock \in BlockId
      BY TuplePlace DEF Ids, Tuple
    <3> QED BY <3>1, <1>6 DEF ReadTuple
  <2>3. Cardinality({}) = 0
    BY FS_EmptySet
  <2>4. /\ UNION {part[w] : w \in Worker} = {}
        /\ UNION {part[w] : w \in Left'} = {}
    BY DEF Left
  <2>5. \A v, w \in Worker : v # w => part[v] \cap part[w] = {}
    OBVIOUS
  <2>6. \A w \in Worker : partial'[w] = Cardinality(part[w])
    BY <2>3, <1>3
  <2> HIDE DEF part
  <2>7. Shares(part)'
    BY <2>2, <2>3, <2>4, <2>5, <2>6, <1>3 DEF Shares
  <2> QED BY <2>1, <2>7 DEF CountOK
<1>9. TailsClean'
  BY <1>1 DEF TailsClean
<1>10. BlocksOnce'
  BY <1>6, <1>7 DEF BlocksOnce, Finished
<1>11. BlocksOwned'
  BY <1>7 DEF BlocksOwned
<1> QED BY <1>2, <1>4, <1>5, <1>8, <1>9, <1>10, <1>11

LEMMA ClaimInv ==
  ASSUME VectorInv, NEW w \in Worker, Claim(w)
  PROVE  VectorInv'
<1> USE DEF VectorInv, Claim
<1>1. next_block \in BlockId /\ next_block < NumBlocks /\ next_block \in Nat
      /\ NumBlocks \in Nat /\ next_block' = next_block + 1
  BY VectorSizes DEF TypeOK, BlocksLeft, BlockId, Taken
<1>2. call # NoCall
  BY DEF LoopOK
<1>3. /\ block'[w] = next_block /\ word_id'[w] = 0 /\ pc'[w] = "load"
      /\ \A v \in Worker : v # w => /\ pc'[v] = pc[v] /\ block'[v] = block[v]
                                    /\ word_id'[v] = word_id[v]
  BY DEF TypeOK
<1>4. ~Working(w) /\ Working(w)' /\ ~Started(next_block)
      /\ \A v \in Worker : v # w => (Working(v)' <=> Working(v))
  BY <1>1, <1>3 DEF Working, Started
<1>5. \A b \in BlockId : Started(b)' <=> Started(b) \/ b = next_block
  BY <1>1, BlockSizes DEF Started
<1>6. \A v \in Worker : Working(v) => block[v] \in BlockId /\ block[v] # next_block
  BY <1>1, AtWork
<1>7. TypeOK'
  BY <1>1 DEF TypeOK
<1>8. LoopOK'
  <2>1. 0 <= Words(next_block)
    BY <1>1, <1>2, WordsCover
  <2>2. \A v \in Worker : pc[v] # "barrier"
    BY <1>1 DEF LoopOK
  <2>3. \A v \in Worker : Words(block[v])' = Words(block'[v])
    BY DEF Words
  <2>4. ASSUME NEW v \in Worker
        PROVE  /\ pc'[v] # "barrier" /\ pc'[v] # "out"
               /\ pc'[v] = "load" => word_id'[v] <= Words(block[v])'
               /\ pc'[v] = "store" => word_id'[v] < Words(block[v])'
    <3>1. CASE v = w
      BY <3>1, <1>1, <1>3, <2>1, <2>3
    <3>2. CASE v # w
      BY <3>2, <1>2, <1>3, <2>2, <2>3 DEF LoopOK, TypeOK
    <3> QED BY <3>1, <3>2
  <2> QED BY <1>2, <2>4 DEF LoopOK
<1>9. StorageOK'
  BY DEF StorageOK, Clean
<1>10. CountOK'
  <2>1. ASSUME NEW t \in Tuple
        PROVE  ReadTuple(t)' <=> ReadTuple(t)
    <3> DEFINE b == t \div kNumTuplesPerBlock
               d == (t % kNumTuplesPerBlock) \div kNumWordBits
    <3>1. b \in BlockId /\ d \in Nat
      <4>1. t % kNumTuplesPerBlock \in Nat
        BY VectorSizes DEF Tuple
      <4> QED BY <4>1, TuplePlace, WordPlace
    <3> HIDE DEF b, d
    <3>2. ReadTuple(t)' <=> Started(b)' /\ \A v \in Worker : Working(v)' /\ block'[v] = b => d < word_id'[v]
      BY DEF ReadTuple, b, d
    <3>3. ReadTuple(t) <=> Started(b) /\ \A v \in Worker : Working(v) /\ block[v] = b => d < word_id[v]
      BY DEF ReadTuple, b, d
    <3>4. CASE b = next_block
      BY <3>1, <3>2, <3>3, <3>4, <1>3, <1>4
    <3>5. CASE b # next_block
      BY <3>1, <3>2, <3>3, <3>5, <1>3, <1>4, <1>5
    <3> QED BY <3>4, <3>5
  <2>2. Ids(old)' = Ids(old) /\ Ids(old) \subseteq Tuple
    BY DEF Ids, Tuple
  <2>3. Counted' = Counted
    BY <2>1, <2>2 DEF Counted
  <2>4. Left' = Left
    BY <1>3 DEF Left
  <2> QED BY <2>3, <2>4, SharesKept
<1>11. TailsClean'
  BY <1>2 DEF TailsClean
<1>12. BlocksOnce'
  <2> SUFFICES ASSUME NEW b \in BlockId
               PROVE  /\ ~Started(b)' => blocks_[b] = old[b]
                      /\ Finished(b)' => blocks_[b] = {p \in Position : After(b, p)}
                      /\ \A v \in Worker : Working(v)' /\ block'[v] = b =>
                           \A p \in 0 .. BlockNum(b) - 1 :
                             p \in blocks_[b] <=> IF p \div kNumWordBits < word_id'[v]
                                                  THEN After(b, p) ELSE p \in old[b]
    BY AfterStays, TuplesInBlock DEF BlocksOnce
  <2>1. ~Started(b)' => blocks_[b] = old[b]
    BY <1>2, <1>5 DEF BlocksOnce
  <2>2. ASSUME Finished(b)'
        PROVE  blocks_[b] = {p \in Position : After(b, p)}
    <3>1. b # next_block
      BY <2>2, <1>3, <1>4 DEF Finished
    <3>2. Finished(b)
      BY <2>2, <3>1, <1>3, <1>4, <1>5 DEF Finished
    <3> QED BY <3>2, <1>2 DEF BlocksOnce
  <2>3. ASSUME NEW v \in Worker, Working(v)', block'[v] = b, NEW p \in 0 .. BlockNum(b) - 1
        PROVE  p \in blocks_[b] <=> IF p \div kNumWordBits < word_id'[v]
                                    THEN After(b, p) ELSE p \in old[b]
    <3>1. CASE v = w
      <4>1. blocks_[b] = old[b]
        BY <2>3, <3>1, <1>2, <1>3, <1>4 DEF BlocksOnce
      <4>2. ~(p \div kNumWordBits < 0)
        BY TuplesInBlock, WordPlace
      <4> QED BY <3>1, <4>1, <4>2, <1>3
    <3>2. CASE v # w
      BY <2>3, <3>2, <1>2, <1>3, <1>4 DEF BlocksOnce
    <3> QED BY <3>1, <3>2
  <2> QED BY <2>1, <2>2, <2>3
<1>13. BlocksOwned'
  <2> SUFFICES ASSUME NEW v \in Worker, Working(v)'
               PROVE  /\ Started(block[v])'
                      /\ \A u \in Worker : Working(u)' /\ block'[u] = block'[v] => u = v
                      /\ pc'[v] = "store" =>
                           word'[v] = GetWordUnit(blocks_[block'[v]], word_id'[v])
    BY DEF BlocksOwned
  <2>1. CASE v = w
    BY <2>1, <1>1, <1>3, <1>4, <1>5, <1>6
  <2>2. CASE v # w
    <3>1. Working(v) /\ block'[v] = block[v] /\ word_id'[v] = word_id[v] /\ pc'[v] = pc[v]
      BY <2>2, <1>3, <1>4
    <3>2. block[v] \in BlockId /\ block[v] # next_block /\ block[v] < next_block
      BY <3>1, <1>6, AtWork
    <3>3. Started(block[v])'
      <4>1. block[v] \in Nat
        BY <3>2, BlockSizes
      <4> QED BY <3>1, <3>2, <4>1, <1>1 DEF Started
    <3>4. \A u \in Worker : Working(u)' /\ block'[u] = block'[v] => u = v
      BY <3>1, <3>2, <1>3, <1>4 DEF BlocksOwned
    <3> QED BY <3>1, <3>3, <3>4 DEF BlocksOwned
  <2> QED BY <2>1, <2>2
<1> QED BY <1>7, <1>8, <1>9, <1>10, <1>11, <1>12, <1>13

LEMMA LeaveInv ==
  ASSUME VectorInv, NEW w \in Worker, Leave(w)
  PROVE  VectorInv'
<1> USE DEF VectorInv, Leave
<1>1. /\ call # NoCall /\ next_block = NumBlocks /\ ~Working(w) /\ w \notin Left
      /\ pc'[w] = "barrier" /\ \A v \in Worker : v # w => pc'[v] = pc[v]
      /\ count' = count + partial[w]
  BY VectorSizes DEF LoopOK, TypeOK, BlocksLeft, Working, Left, Reduced
<1>2. \A v \in Worker : Working(v)' <=> Working(v)
  BY <1>1 DEF Working
<1>3. TypeOK'
  BY <1>1 DEF TypeOK
<1>4. LoopOK'
  <2>1. \A v \in Worker : Words(block[v])' = Words(block[v])
    BY DEF Words
  <2>2. ASSUME NEW v \in Worker
        PROVE  /\ pc'[v] # "out"
               /\ pc'[v] = "load" => word_id'[v] <= Words(block[v])'
               /\ pc'[v] = "store" => word_id'[v] < Words(block[v])'
    BY <1>1, <2>1 DEF LoopOK
  <2> QED BY <1>1, <2>2 DEF LoopOK
<1>5. StorageOK'
  BY DEF StorageOK, Clean
<1>6. CountOK'
  <2> SUFFICES ASSUME call.op = "CountOnes"
               PROVE  \E part \in [Worker -> SUBSET Tuple] : Shares(part)'
    BY DEF CountOK
  <2>1. PICK part \in [Worker -> SUBSET Tuple] : Shares(part)
    BY <1>1 DEF CountOK
  <2>2. Counted' = Counted
    <3>1. \A t \in Tuple : ReadTuple(t)' <=> ReadTuple(t)
      BY <1>2 DEF ReadTuple, Started
    <3>2. Ids(old)' = Ids(old) /\ Ids(old) \subseteq Tuple
      BY DEF Ids, Tuple
    <3> QED BY <3>1, <3>2 DEF Counted
  <2> DEFINE before == UNION {part[v] : v \in Left}
  <2>3. UNION {part[v] : v \in Left'} = before \cup part[w]
    <3>1. Left' = Left \cup {w}
      BY <1>1 DEF Left
    <3> QED BY <3>1
  <2>4. before \cap part[w] = {}
    <3>1. \A v \in Left : v \in Worker /\ v # w
      BY <1>1 DEF Left
    <3> QED BY <3>1, <2>1 DEF Shares
  <2>5. IsFiniteSet(before) /\ IsFiniteSet(part[w])
    <3>1. before \subseteq Tuple /\ part[w] \subseteq Tuple
      BY DEF Left
    <3> QED BY <3>1, TuplesFinite, FS_Subset
  <2>6. Cardinality(before \cup part[w]) = Cardinality(before) + Cardinality(part[w])
    <3>1. Cardinality(before \cap part[w]) = 0
      BY <2>4, FS_EmptySet
    <3>2. Cardinality(before) \in Nat /\ Cardinality(part[w]) \in Nat
      BY <2>5, FS_CardinalityType
    <3>3. Cardinality(before \cup part[w])
            = Cardinality(before) + Cardinality(part[w]) - Cardinality(before \cap part[w])
      BY <2>5, FS_Union
    <3> QED BY <3>1, <3>2, <3>3
  <2>7. count = Cardinality(before) /\ partial[w] = Cardinality(part[w])
    BY <2>1 DEF Shares
  <2>8. count' = Cardinality(UNION {part[v] : v \in Left'})
    BY <1>1, <2>3, <2>6, <2>7
  <2>9. Shares(part)'
    BY <2>1, <2>2, <2>8 DEF Shares
  <2> QED BY <2>9
<1>7. TailsClean'
  BY <1>1 DEF TailsClean
<1>8. BlocksOnce'
  BY <1>1, <1>2, AfterStays, TuplesInBlock DEF BlocksOnce, Finished, Started
<1>9. BlocksOwned'
  BY <1>1, <1>2 DEF BlocksOwned, Started, Working
<1> QED BY <1>3, <1>4, <1>5, <1>6, <1>7, <1>8, <1>9

LEMMA LoadWordInv ==
  ASSUME VectorInv, NEW w \in Worker, LoadWord(w)
  PROVE  VectorInv'
<1> USE DEF VectorInv, LoadWord
<1>1. /\ pc'[w] = "store" /\ word'[w] = GetWordUnit(blocks_[block[w]], word_id[w])
      /\ \A v \in Worker : v # w => pc'[v] = pc[v] /\ word'[v] = word[v]
  BY DEF TypeOK
<1>2. Working(w) /\ \A v \in Worker : Working(v)' <=> Working(v)
  BY <1>1 DEF Working
<1>3. call # NoCall
  BY <1>2, AtWork
<1>4. TypeOK'
  BY DEF TypeOK, GetWordUnit
<1>5. LoopOK'
  <2>1. \A v \in Worker : Words(block[v])' = Words(block[v])
    BY DEF Words
  <2>2. ASSUME NEW v \in Worker
        PROVE  /\ pc'[v] # "out"
               /\ pc'[v] = "barrier" => next_block = NumBlocks
               /\ pc'[v] = "load" => word_id[v] <= Words(block[v])'
               /\ pc'[v] = "store" => word_id[v] < Words(block[v])'
    BY <1>1, <1>3, <2>1 DEF LoopOK
  <2> QED BY <1>3, <2>2 DEF LoopOK
<1>6. StorageOK'
  BY DEF StorageOK, Clean
<1>7. CountOK'
  <2>1. \A t \in Tuple : ReadTuple(t)' <=> ReadTuple(t)
    BY <1>2 DEF ReadTuple, Started
  <2>2. Ids(old)' = Ids(old) /\ Ids(old) \subseteq Tuple
    BY DEF Ids, Tuple
  <2>3. Counted' = Counted
    BY <2>1, <2>2 DEF Counted
  <2>4. Left' = Left
    BY <1>1 DEF Left
  <2> QED BY <2>3, <2>4, SharesKept
<1>8. TailsClean'
  BY <1>3 DEF TailsClean
<1>9. BlocksOnce'
  BY <1>2, <1>3, AfterStays, TuplesInBlock DEF BlocksOnce, Finished, Started
<1>10. BlocksOwned'
  <2> SUFFICES ASSUME NEW v \in Worker, Working(v)
               PROVE  /\ Started(block[v])'
                      /\ \A u \in Worker : Working(u) /\ block[u] = block[v] => u = v
                      /\ pc'[v] = "store" =>
                           word'[v] = GetWordUnit(blocks_[block[v]], word_id[v])
    BY <1>2 DEF BlocksOwned
  <2> QED BY <1>1 DEF BlocksOwned, Started
<1> QED BY <1>4, <1>5, <1>6, <1>7, <1>8, <1>9, <1>10

(* A word stored: its tuples get the operation's bits, the others keep     *)
(* theirs, and nothing goes past the words in use.                         *)
LEMMA StoreBits ==
  ASSUME VectorInv, NEW w \in Worker, StoreWord(w), call.op # "CountOnes"
  PROVE  LET b == block[w] IN
         /\ \A c \in BlockId : c # b => blocks_'[c] = blocks_[c]
         /\ blocks_'[b] \subseteq UnitPositions(BlockNum(b))
         /\ call.op = "SetZeros" => blocks_'[b] \subseteq blocks_[b]
         /\ \A p \in 0 .. BlockNum(b) - 1 :
              p \in blocks_'[b] <=> IF p \div kNumWordBits < word_id[w] + 1
                                    THEN After(b, p) ELSE p \in old[b]
<1> DEFINE b == block[w]
           id == word_id[w]
           W == kNumWordBits
           arg == GetWordUnit(call.arg[b], id)
           new == NewWord(word[w], arg)
<1>1. Working(w)
  BY DEF StoreWord, Working
<1>2. call # NoCall /\ b \in BlockId /\ id \in Nat
  BY <1>1, AtWork
<1>3. /\ blocks_ \in [BlockId -> SUBSET Position]
      /\ blocks_' = [blocks_ EXCEPT ![b] = SetWordUnit(blocks_[b], new, id)]
  BY DEF VectorInv, TypeOK, StoreWord
<1>4. blocks_'[b] = SetWordUnit(blocks_[b], new, id)
      /\ \A c \in BlockId : c # b => blocks_'[c] = blocks_[c]
  BY <1>2, <1>3
<1>5. new \subseteq WordBit
  BY DEF NewWord
<1>6. ASSUME NEW p \in Nat
      PROVE  p \in blocks_'[b] <=> IF p - id * W \in WordBit THEN p - id * W \in new
                                   ELSE p \in blocks_[b]
  <2> HIDE DEF new
  <2> QED BY <1>2, <1>4, <1>5, StoreOnly
<1>7. ASSUME NEW p \in 0 .. BlockNum(b) - 1
      PROVE  p \in blocks_'[b] <=> IF p \div W < id + 1 THEN After(b, p) ELSE p \in old[b]
  <2>1. p \in Nat /\ p < BlockNum(b)
    BY <1>2, TuplesInBlock
  <2>2. p \in blocks_[b] <=> IF p \div W < id THEN After(b, p) ELSE p \in old[b]
    BY <1>1, <1>2 DEF VectorInv, BlocksOnce
  <2>3. p \div W \in Nat /\ (p - id * W \in WordBit <=> p \div W = id)
    BY <1>2, <2>1, WordPlace
  <2>4. CASE p \div W = id
    <3> DEFINE c == p - id * W
    <3>1. c \in WordBit /\ id * W + c = p
      <4>1. id * W \in Nat
        BY <1>2, <2>1, WordPlace
      <4> DEFINE m == id * W
      <4>2. m \in Nat
        BY <4>1
      <4> HIDE DEF m
      <4>3. m + (p - m) = p
        BY <2>1, <4>2
      <4> QED BY <2>3, <2>4, <4>3 DEF m
    <3>2. word[w] = GetWordUnit(blocks_[b], id)
      BY <1>1 DEF VectorInv, BlocksOwned, StoreWord
    <3> HIDE DEF c
    <3>3. c \in word[w] <=> p \in blocks_[b]
      BY <3>1, <3>2 DEF GetWordUnit
    <3>4. c \in arg <=> p \in call.arg[b]
      BY <3>1 DEF GetWordUnit
    <3>5. ~(p \div W < id) /\ p \div W < id + 1
      BY <1>2, <2>3, <2>4
    <3>6. c \in word[w] <=> p \in old[b]
      BY <2>2, <3>3, <3>5
    <3>7. c \in new <=> NewBit(c \in word[w], c \in arg)
      BY <3>1 DEF NewWord
    <3>8. call.op \in {"Scan", "And", "Or", "SetOnes", "SetZeros"} /\ call.opt \in BitwiseOpt
      BY <1>2, CallType DEF VectorInv
    <3>9. c \in new <=> NewBit(p \in old[b], p \in call.arg[b])
      <4> HIDE DEF new, arg, b
      <4> QED BY <3>4, <3>6, <3>7, <3>8 DEF NewBit, Combine, BitwiseOpt
    <3>10. c \in new <=> After(b, p)
      <4> HIDE DEF new, arg, b
      <4> QED BY <2>1, <3>9 DEF After
    <3>11. p \in blocks_'[b] <=> c \in new
      BY <1>6, <2>1, <2>3, <2>4 DEF c
    <3> QED BY <3>5, <3>10, <3>11
  <2>5. CASE p \div W # id
    <3>1. p \div W < id + 1 <=> p \div W < id
      BY <1>2, <2>3, <2>5
    <3>2. p \in blocks_'[b] <=> p \in blocks_[b]
      BY <1>6, <2>1, <2>3, <2>5
    <3> QED BY <2>2, <3>1, <3>2
  <2> QED BY <2>4, <2>5
<1>8. blocks_'[b] \subseteq UnitPositions(BlockNum(b))
  <2> SUFFICES ASSUME NEW p \in blocks_'[b], p \notin blocks_[b]
               PROVE  p \in UnitPositions(BlockNum(b))
    BY <1>2 DEF VectorInv, StorageOK
  <2>1. PICK c \in new : p = id * W + c
    BY <1>4 DEF SetWordUnit
  <2> DEFINE u == NumWordUnits(BlockNum(b))
  <2>2. u \in Nat /\ Words(b) \in Nat /\ Words(b) <= u /\ id < Words(b)
    BY <1>2, WordsCover DEF VectorInv, LoopOK, StoreWord
  <2>3. W \in Nat \ {0} /\ c \in 0 .. W - 1
    BY <1>5, Sizes DEF WordBit
  <2> HIDE DEF u, W, new, id
  <2>4. id + 1 <= u /\ (id + 1) * W <= u * W
    BY <1>2, <2>2, <2>3
  <2>5. p \in 0 .. u * W - 1
    BY <1>2, <2>1, <2>2, <2>3, <2>4
  <2> QED BY <2>5 DEF UnitPositions, u, W
<1>9. call.op = "SetZeros" => blocks_'[b] \subseteq blocks_[b]
  <2>1. call.op = "SetZeros" => new = {}
    BY DEF NewWord, NewBit
  <2> QED BY <1>4, <2>1 DEF SetWordUnit
<1> QED BY <1>4, <1>7, <1>8, <1>9

(* A word counted: the tuples of its bits go to the thread's share, which  *)
(* grows by as many.                                                       *)
LEMMA WordIds ==
  ASSUME VectorInv, NEW w \in Worker, pc[w] = "store", call.op = "CountOnes"
  PROVE  LET ids == {t \in Ids(old) : /\ t \div kNumTuplesPerBlock = block[w]
                                      /\ (t % kNumTuplesPerBlock) \div kNumWordBits = word_id[w]}
         IN  IsFiniteSet(ids) /\ Cardinality(ids) = Cardinality(word[w])
<1> DEFINE b == block[w]
           id == word_id[w]
           W == kNumWordBits
           K == kNumTuplesPerBlock
           ids == {t \in Ids(old) : t \div K = b /\ (t % K) \div W = id}
<1>1. Working(w)
  BY DEF Working
<1>2. call # NoCall /\ b \in BlockId /\ id \in Nat /\ id * W \in Nat /\ b * K \in Nat
  BY <1>1, AtWork, BlockSizes, VectorSizes
<1>3. word[w] = GetWordUnit(old[b], id) /\ old[b] \subseteq 0 .. BlockNum(b) - 1
  BY <1>1, <1>2 DEF VectorInv, BlocksOwned, StorageOK, Clean
<1>4. IsFiniteSet(ids) /\ IsFiniteSet(word[w]) /\ ids \subseteq Tuple
  <2>1. ids \subseteq Tuple
    BY DEF Ids, Tuple
  <2>2. word[w] \subseteq WordBit
    BY <1>3 DEF GetWordUnit
  <2> QED BY <2>1, <2>2, TuplesFinite, FS_Subset
<1> DEFINE place[c \in word[w]] == b * K + (id * W + c)
<1>5. ASSUME NEW c \in word[w]
      PROVE  /\ place[c] = b * K + (id * W + c) /\ place[c] \in ids /\ c \in Nat
  <2>1. c \in WordBit /\ id * W + c \in old[b] /\ c \in Nat
    BY <1>3 DEF GetWordUnit, WordBit
  <2>2. id * W + c \in 0 .. BlockNum(b) - 1 /\ id * W + c \in Nat
    BY <1>2, <1>3, <2>1
  <2> DEFINE t == b * K + (id * W + c)
  <2>3. t \in Tuple /\ t \div K = b /\ t % K = id * W + c
    BY <1>2, <2>2, PlaceTuple
  <2>4. (id * W + c) \div W = id
    <3> DEFINE m == id * W
    <3>1. m \in Nat
      BY <1>2
    <3> HIDE DEF m
    <3>2. (m + c) - m = c
      BY <2>1, <3>1
    <3> QED BY <1>2, <2>1, <2>2, <3>2, WordPlace DEF m
  <2>5. t \in ids
    BY <2>1, <2>3, <2>4 DEF Ids, Tuple
  <2> QED BY <2>1, <2>5
<1>6. \A c, d \in word[w] : place[c] = place[d] => c = d
  <2> SUFFICES ASSUME NEW c \in word[w], NEW d \in word[w], place[c] = place[d]
               PROVE  c = d
    OBVIOUS
  <2> DEFINE m == b * K
             n == id * W
  <2>1. m \in Nat /\ n \in Nat /\ c \in Nat /\ d \in Nat /\ m + (n + c) = m + (n + d)
    BY <1>2, <1>5
  <2> HIDE DEF m, n
  <2> QED BY <2>1
<1>7. \A t \in ids : \E c \in word[w] : place[c] = t
  <2> SUFFICES ASSUME NEW t \in ids
               PROVE  \E c \in word[w] : b * K + (id * W + c) = t
    BY <1>5
  <2> DEFINE p == t % K
             c == p - id * W
  <2>1. t \in Tuple /\ p \in old[b] /\ t \div K = b /\ p \div W = id
    BY DEF Ids, Tuple
  <2>2. p \in Nat /\ t = K * b + p
    BY <1>2, <1>3, <2>1, TuplePlace, TuplesInBlock
  <2>3. c \in WordBit
    BY <1>2, <2>1, <2>2, WordPlace
  <2>4. id * W + c = p /\ b * K = K * b /\ b \in Nat /\ K \in Nat
    <3> DEFINE m == id * W
    <3>1. m \in Nat /\ b \in Nat /\ K \in Nat
      BY <1>2, BlockSizes, VectorSizes
    <3> HIDE DEF m, p, b, K
    <3>2. m + (p - m) = p /\ b * K = K * b
      BY <2>2, <3>1
    <3> QED BY <3>1, <3>2 DEF m
  <2>5. c \in word[w]
    BY <1>3, <2>1, <2>3, <2>4 DEF GetWordUnit
  <2>6. b * K + (id * W + c) = t
    <3> HIDE DEF b, K, p, c, W, id
    <3> QED BY <2>2, <2>4
  <2> QED BY <2>5, <2>6
<1>8. place \in Bijection(word[w], ids)
  <2>1. place \in [word[w] -> ids]
    BY <1>5
  <2> HIDE DEF place, ids
  <2> QED BY <2>1, <1>6, <1>7 DEF Bijection, Injection, Surjection, IsInjective
<1>9. Cardinality(word[w]) = Cardinality(ids)
  <2>1. ExistsBijection(word[w], ids)
    BY <1>8 DEF ExistsBijection
  <2> HIDE DEF ids, place
  <2> QED BY <2>1, <1>4, FS_Bijection
<1> QED BY <1>4, <1>9

LEMMA DisjointUnion ==
  ASSUME NEW S, NEW T, IsFiniteSet(S), IsFiniteSet(T), S \cap T = {}
  PROVE  Cardinality(S \cup T) = Cardinality(S) + Cardinality(T)
<1>1. Cardinality(S \cap T) = 0
  BY FS_EmptySet
<1>2. Cardinality(S) \in Nat /\ Cardinality(T) \in Nat
  BY FS_CardinalityType
<1>3. Cardinality(S \cup T) = Cardinality(S) + Cardinality(T) - Cardinality(S \cap T)
  BY FS_Union
<1> QED BY <1>1, <1>2, <1>3

LEMMA StoreShares ==
  ASSUME VectorInv, NEW w \in Worker, StoreWord(w), call.op = "CountOnes"
  PROVE  CountOK'
<1> DEFINE K == kNumTuplesPerBlock
           W == kNumWordBits
           id == word_id[w]
           ids == {t \in Ids(old) : t \div K = block[w] /\ (t % K) \div W = id}
<1>1. Working(w) /\ w \notin Left
  BY DEF StoreWord, Working, Left
<1>2. call # NoCall /\ id \in Nat /\ block[w] < next_block
      /\ \A v \in Worker : Working(v) /\ block[v] = block[w] => v = w
  BY <1>1, AtWork
<1>3. /\ UNCHANGED <<call, old, next_block, block, count>>
      /\ pc' = [pc EXCEPT ![w] = "load"] /\ pc'[w] = "load"
      /\ word_id'[w] = id + 1 /\ \A v \in Worker : v # w => word_id'[v] = word_id[v]
      /\ partial'[w] = partial[w] + Cardinality(word[w])
      /\ \A v \in Worker : v # w => partial'[v] = partial[v] /\ pc'[v] = pc[v]
  BY DEF StoreWord, VectorInv, TypeOK
<1>4. \A v \in Worker : Working(v)' <=> Working(v)
  BY <1>1, <1>3 DEF Working
<1>5. IsFiniteSet(ids) /\ Cardinality(ids) = Cardinality(word[w])
  BY WordIds DEF StoreWord
<1>6. ids \subseteq Tuple /\ Ids(old)' = Ids(old) /\ Ids(old) \subseteq Tuple
  BY <1>3 DEF Ids, Tuple
<1>7. ASSUME NEW t \in Tuple
      PROVE  /\ ReadTuple(t)' <=> ReadTuple(t) \/ (t \div K = block[w] /\ (t % K) \div W = id)
             /\ ReadTuple(t) => ~(t \div K = block[w] /\ (t % K) \div W = id)
  <2> DEFINE b == t \div K
             d == (t % K) \div W
  <2>1. b \in BlockId /\ d \in Nat
    <3>1. t % K \in Nat
      BY VectorSizes DEF Tuple
    <3> QED BY <3>1, TuplePlace, WordPlace
  <2> HIDE DEF b, d
  <2>2. ReadTuple(t)' <=> b < next_block /\ \A v \in Worker : Working(v) /\ block[v] = b => d < word_id'[v]
    BY <1>3, <1>4 DEF ReadTuple, Started, b, d
  <2>3. ReadTuple(t) <=> b < next_block /\ \A v \in Worker : Working(v) /\ block[v] = b => d < word_id[v]
    BY DEF ReadTuple, Started, b, d
  <2>4. CASE b = block[w]
    <3>1. ReadTuple(t) <=> d < id
      BY <1>1, <1>2, <2>3, <2>4
    <3>2. ReadTuple(t)' <=> d < id + 1
      BY <1>1, <1>2, <1>3, <2>2, <2>4
    <3> HIDE DEF id
    <3> QED BY <1>2, <2>1, <2>4, <3>1, <3>2 DEF b, d
  <2>5. CASE b # block[w]
    BY <1>3, <2>2, <2>3, <2>5 DEF b
  <2> QED BY <2>4, <2>5
<1> HIDE DEF ids
<1>8. Counted' = Counted \cup ids /\ ids \cap Counted = {}
  BY <1>6, <1>7 DEF Counted, ids
<1>9. PICK part \in [Worker -> SUBSET Tuple] : Shares(part)
  BY <1>2 DEF VectorInv, CountOK
<1>10. PICK share \in [Worker -> SUBSET Tuple] :
         /\ share[w] = part[w] \cup ids
         /\ \A v \in Worker : v # w => share[v] = part[v]
  <2> DEFINE share == [part EXCEPT ![w] = part[w] \cup ids]
  <2>1. /\ share \in [Worker -> SUBSET Tuple]
        /\ share[w] = part[w] \cup ids
        /\ \A v \in Worker : v # w => share[v] = part[v]
    BY <1>6
  <2> HIDE DEF share
  <2> QED BY <2>1
<1>11. \A v \in Worker : part[v] \subseteq Counted /\ ids \cap part[v] = {}
  BY <1>8, <1>9 DEF Shares
<1>12. \A u, v \in Worker : u # v => share[u] \cap share[v] = {}
  BY <1>9, <1>10, <1>11 DEF Shares
<1>13. UNION {share[v] : v \in Worker} = Counted'
  <2>1. UNION {share[v] : v \in Worker} = (UNION {part[v] : v \in Worker}) \cup ids
    BY <1>10
  <2> QED BY <2>1, <1>8, <1>9 DEF Shares
<1>14. \A v \in Worker : partial'[v] = Cardinality(share[v])
  <2>1. IsFiniteSet(part[w])
    BY TuplesFinite, FS_Subset
  <2>2. part[w] \cap ids = {}
    BY <1>11
  <2>3. Cardinality(part[w] \cup ids) = Cardinality(part[w]) + Cardinality(ids)
    BY <1>5, <2>1, <2>2, DisjointUnion
  <2> QED BY <1>3, <1>5, <1>9, <1>10, <2>3 DEF Shares
<1>15. count' = Cardinality(UNION {share[v] : v \in Left'})
  <2>1. Left' = Left
    BY <1>1, <1>3 DEF Left
  <2>2. \A v \in Left : share[v] = part[v]
    BY <1>1, <1>10 DEF Left
  <2>3. {share[v] : v \in Left} = {part[v] : v \in Left}
    BY <2>2
  <2> QED BY <1>3, <1>9, <2>1, <2>3 DEF Shares
<1>16. Shares(share)'
  BY <1>12, <1>13, <1>14, <1>15 DEF Shares
<1> QED BY <1>10, <1>16 DEF CountOK

LEMMA StoreWordInv ==
  ASSUME VectorInv, NEW w \in Worker, StoreWord(w)
  PROVE  VectorInv'
<1> USE DEF VectorInv
<1> DEFINE b == block[w]
           id == word_id[w]
<1>1. Working(w) /\ pc[w] = "store"
  BY DEF StoreWord, Working
<1>2. call # NoCall /\ b \in BlockId /\ id \in Nat /\ b < next_block
      /\ \A v \in Worker : Working(v) /\ block[v] = b => v = w
  BY <1>1, AtWork
<1>3. /\ UNCHANGED <<call, old, next_block, block, word, count, result>>
      /\ pc'[w] = "load" /\ word_id'[w] = id + 1
      /\ \A v \in Worker : v # w => word_id'[v] = word_id[v] /\ pc'[v] = pc[v]
  BY DEF StoreWord, TypeOK
<1>4. \A v \in Worker : Working(v)' <=> Working(v)
  BY <1>1, <1>3 DEF Working
<1>5. /\ \A c \in BlockId : c # b => blocks_'[c] = blocks_[c]
      /\ blocks_'[b] \subseteq UnitPositions(BlockNum(b))
      /\ call.op = "SetZeros" => blocks_'[b] \subseteq blocks_[b]
      /\ \A p \in 0 .. BlockNum(b) - 1 :
           p \in blocks_'[b] <=> IF p \div kNumWordBits < id + 1
                                 THEN After(b, p) ELSE p \in old[b]
  <2>1. CASE call.op # "CountOnes"
    BY <2>1, StoreBits
  <2>2. CASE call.op = "CountOnes"
    <3>1. blocks_' = blocks_
      BY <2>2 DEF StoreWord
    <3>2. \A p \in 0 .. BlockNum(b) - 1 : After(b, p) <=> p \in old[b]
      BY <2>2 DEF After
    <3>3. blocks_ = old
      BY <1>2, <2>2 DEF StorageOK
    <3> QED BY <1>2, <2>2, <3>1, <3>2, <3>3 DEF StorageOK
  <2> QED BY <2>1, <2>2
<1>6. TypeOK'
  <2>1. blocks_' \in [BlockId -> SUBSET Position]
    <3>1. blocks_'[b] \subseteq Position
      BY <1>2, <1>5, UnitsInBlock
    <3>2. blocks_' = [c \in BlockId |-> blocks_'[c]]
      BY DEF StoreWord, TypeOK
    <3>3. \A c \in BlockId : blocks_'[c] \subseteq Position
      BY <1>5, <3>1 DEF TypeOK
    <3> QED BY <3>2, <3>3
  <2>2. Cardinality(word[w]) \in Nat
    BY TuplesFinite, FS_Subset, FS_CardinalityType DEF TypeOK
  <2>3. partial' \in [Worker -> Nat] /\ word_id' \in [Worker -> Nat]
        /\ pc' \in [Worker -> {"out", "claim", "load", "store", "barrier"}]
    BY <2>2 DEF StoreWord, TypeOK
  <2> QED BY <1>3, <2>1, <2>3 DEF TypeOK
<1>7. LoopOK'
  <2>1. \A v \in Worker : Words(block[v])' = Words(block[v])
    BY <1>3 DEF Words
  <2>2. id + 1 <= Words(b)
    <3>1. id < Words(b) /\ Words(b) \in Nat
      BY <1>1, <1>2, WordsCover DEF LoopOK
    <3> HIDE DEF id
    <3> QED BY <1>2, <3>1
  <2>3. ASSUME NEW v \in Worker
        PROVE  /\ pc'[v] # "out"
               /\ pc'[v] = "barrier" => next_block' = NumBlocks
               /\ pc'[v] = "load" => word_id'[v] <= Words(block[v])'
               /\ pc'[v] = "store" => word_id'[v] < Words(block[v])'
    <3>1. CASE v = w
      BY <1>3, <2>1, <2>2, <3>1
    <3>2. CASE v # w
      BY <1>2, <1>3, <2>1, <3>2 DEF LoopOK
    <3> QED BY <3>1, <3>2
  <2> QED BY <1>2, <1>3, <2>3 DEF LoopOK
<1>8. StorageOK'
  <2>1. \A c \in BlockId : blocks_'[c] \subseteq UnitPositions(BlockNum(c))
    BY <1>2, <1>5 DEF StorageOK
  <2>2. Clean(old)'
    BY <1>2, <1>3 DEF StorageOK, Clean
  <2>3. call.op = "SetZeros" => Clean(blocks_)'
    BY <1>2, <1>5 DEF StorageOK, Clean
  <2>4. call.op = "CountOnes" => Clean(blocks_)' /\ blocks_' = old
    BY <1>2 DEF StorageOK, Clean, StoreWord
  <2> QED BY <1>3, <2>1, <2>2, <2>3, <2>4 DEF StorageOK
<1>9. CountOK'
  BY <1>3, StoreShares DEF CountOK
<1>10. TailsClean'
  BY <1>2, <1>3 DEF TailsClean
<1>11. BlocksOnce'
  <2> SUFFICES ASSUME NEW c \in BlockId
               PROVE  /\ ~Started(c) => blocks_'[c] = old[c]
                      /\ Finished(c) => blocks_'[c] = {p \in Position : After(c, p)}
                      /\ \A v \in Worker : Working(v) /\ block[v] = c =>
                           \A p \in 0 .. BlockNum(c) - 1 :
                             p \in blocks_'[c] <=> IF p \div kNumWordBits < word_id'[v]
                                                   THEN After(c, p) ELSE p \in old[c]
    BY <1>3, <1>4, AfterStays, TuplesInBlock DEF BlocksOnce, Started, Finished
  <2>1. CASE c = b
    BY <1>1, <1>2, <1>3, <1>5, <2>1 DEF Started, Finished
  <2>2. CASE c # b
    BY <1>2, <1>3, <1>5, <2>2 DEF BlocksOnce
  <2> QED BY <2>1, <2>2
<1>12. BlocksOwned'
  <2> SUFFICES ASSUME NEW v \in Worker, Working(v)
               PROVE  /\ block[v] < next_block
                      /\ \A u \in Worker : Working(u) /\ block[u] = block[v] => u = v
                      /\ pc'[v] = "store" =>
                           word[v] = GetWordUnit(blocks_'[block[v]], word_id'[v])
    BY <1>3, <1>4 DEF BlocksOwned, Started
  <2>1. CASE v = w
    BY <1>2, <1>3, <2>1
  <2>2. CASE v # w
    <3>1. block[v] \in BlockId /\ block[v] # b
      BY <1>2, <2>2, AtWork
    <3>2. blocks_'[block[v]] = blocks_[block[v]]
      BY <1>5, <3>1
    <3> QED BY <1>3, <2>2, <3>2 DEF BlocksOwned, Started
  <2> QED BY <2>1, <2>2
<1> QED BY <1>6, <1>7, <1>8, <1>9, <1>10, <1>11, <1>12

(* A block ended holds what the operation asks of it, whether its tail was *)
(* cleared or never dirty.                                                 *)
LEMMA BlockDone ==
  ASSUME VectorInv, NEW w \in Worker, EndBlock(w)
  PROVE  LET b == block[w] IN
         /\ \A c \in BlockId : c # b => blocks_'[c] = blocks_[c]
         /\ blocks_'[b] = blocks_[b] \cap (0 .. BlockNum(b) - 1)
         /\ blocks_'[b] = {p \in Position : After(b, p)}
         /\ \A p \in 0 .. BlockNum(b) - 1 : p \div kNumWordBits < word_id[w]
<1> DEFINE b == block[w]
           n == BlockNum(b)
           id == word_id[w]
<1>1. Working(w)
  BY DEF EndBlock, Working
<1>2. call # NoCall /\ b \in BlockId /\ id \in Nat /\ Words(b) \in Nat /\ id >= Words(b)
  BY <1>1, AtWork DEF EndBlock
<1>3. /\ blocks_[b] \subseteq UnitPositions(n)
      /\ old[b] \subseteq 0 .. n - 1
      /\ call.op \in {"SetZeros", "CountOnes"} => blocks_[b] \subseteq 0 .. n - 1
  BY <1>2 DEF VectorInv, StorageOK, Clean
<1>4. /\ \A c \in BlockId : c # b => blocks_'[c] = blocks_[c]
      /\ blocks_'[b] = blocks_[b] \cap (0 .. n - 1)
  <2>1. CASE call.op \in {"Scan", "And", "Or", "SetOnes"}
    <3>1. blocks_' = [blocks_ EXCEPT ![b] = ClearTail(blocks_[b], n)]
      BY <2>1 DEF EndBlock
    <3>2. n \in 1 .. kNumTuplesPerBlock
      BY <1>2, BlockSizes
    <3>3. ClearTail(blocks_[b], n) = blocks_[b] \cap (0 .. n - 1)
      BY <1>3, <3>2, ClearTailExact
    <3> QED BY <1>2, <3>1, <3>3 DEF VectorInv, TypeOK
  <2>2. CASE call.op \notin {"Scan", "And", "Or", "SetOnes"}
    <3>1. blocks_' = blocks_
      BY <2>2 DEF EndBlock
    <3>2. call.op \in {"SetZeros", "CountOnes"}
      BY <1>2, <2>2, CallType DEF VectorInv
    <3> QED BY <1>3, <3>1, <3>2
  <2> QED BY <2>1, <2>2
<1>5. ASSUME NEW p \in 0 .. n - 1
      PROVE  /\ p \div kNumWordBits < id
             /\ p \in blocks_[b] <=> After(b, p)
  <2>1. p \in Nat /\ p < n
    BY <1>2, TuplesInBlock
  <2>2. n <= Words(b) * kNumWordBits /\ n \in Nat
    BY <1>2, WordsCover, BlockSizes DEF VectorInv
  <2>3. Words(b) * kNumWordBits \in Nat
    BY <1>2, Sizes
  <2> DEFINE m == Words(b) * kNumWordBits
  <2>4. p < m
    <3> HIDE DEF m, n
    <3>1. n <= m /\ m \in Nat
      BY <2>2, <2>3 DEF m
    <3> QED BY <2>1, <2>2, <3>1
  <2>5. p \div kNumWordBits \in Nat /\ p \div kNumWordBits < Words(b)
    BY <1>2, <2>1, <2>4, WordPlace
  <2>6. p \div kNumWordBits < id
    <3> HIDE DEF id
    <3> QED BY <1>2, <2>5
  <2> QED BY <1>1, <1>2, <2>6 DEF VectorInv, BlocksOnce
<1>6. \A p \in Position : After(b, p) => p \in 0 .. n - 1
  <2>1. \A p \in Position : p \in Nat
    BY Sizes DEF Position
  <2>2. n \in Nat
    BY <1>2, BlockSizes
  <2> QED BY <1>3, <2>1, <2>2 DEF After
<1>7. 0 .. n - 1 \subseteq Position
  BY <1>2, TuplesInBlock
<1>8. blocks_'[b] = {p \in Position : After(b, p)}
  BY <1>4, <1>5, <1>6, <1>7
<1> QED BY <1>4, <1>5, <1>8

LEMMA EndBlockInv ==
  ASSUME VectorInv, NEW w \in Worker, EndBlock(w)
  PROVE  VectorInv'
<1> USE DEF VectorInv
<1> DEFINE b == block[w]
<1>1. Working(w) /\ pc[w] = "load"
  BY DEF EndBlock, Working
<1>2. call # NoCall /\ b \in BlockId /\ b < next_block
      /\ \A v \in Worker : Working(v) /\ block[v] = b => v = w
  BY <1>1, AtWork
<1>3. /\ UNCHANGED <<call, old, next_block, partial, count, result>>
      /\ pc'[w] = "claim"
      /\ \A v \in Worker : v # w => /\ pc'[v] = pc[v] /\ block'[v] = block[v]
                                    /\ word_id'[v] = word_id[v] /\ word'[v] = word[v]
  BY DEF EndBlock, TypeOK
<1>4. ~Working(w)' /\ \A v \in Worker : v # w => (Working(v)' <=> Working(v))
  BY <1>3 DEF Working
<1>5. /\ \A c \in BlockId : c # b => blocks_'[c] = blocks_[c]
      /\ blocks_'[b] = blocks_[b] \cap (0 .. BlockNum(b) - 1)
      /\ blocks_'[b] = {p \in Position : After(b, p)}
      /\ \A p \in 0 .. BlockNum(b) - 1 : p \div kNumWordBits < word_id[w]
  BY BlockDone
<1>6. TypeOK'
  <2>1. blocks_' \in [BlockId -> SUBSET Position]
    <3>1. blocks_' = [c \in BlockId |-> blocks_'[c]]
      BY DEF EndBlock, TypeOK
    <3>2. \A c \in BlockId : blocks_'[c] \subseteq Position
      BY <1>5 DEF TypeOK
    <3> QED BY <3>1, <3>2
  <2>2. /\ pc' \in [Worker -> {"out", "claim", "load", "store", "barrier"}]
        /\ block' \in [Worker -> BlockId] /\ word_id' \in [Worker -> Nat]
        /\ word' \in [Worker -> SUBSET WordBit]
    <3>1. 0 \in BlockId
      BY VectorSizes DEF BlockId
    <3> QED BY <3>1 DEF EndBlock, TypeOK
  <2> QED BY <1>3, <2>1, <2>2 DEF TypeOK
<1>7. LoopOK'
  <2>1. \A v \in Worker : v # w => Words(block[v])' = Words(block[v])
    BY <1>3 DEF Words
  <2>2. ASSUME NEW v \in Worker
        PROVE  /\ pc'[v] # "out"
               /\ pc'[v] = "barrier" => next_block' = NumBlocks
               /\ pc'[v] = "load" => word_id'[v] <= Words(block[v])'
               /\ pc'[v] = "store" => word_id'[v] < Words(block[v])'
    BY <1>2, <1>3, <2>1 DEF LoopOK
  <2> QED BY <1>2, <1>3, <2>2 DEF LoopOK
<1>8. StorageOK'
  <2>1. \A c \in BlockId : blocks_'[c] \subseteq blocks_[c]
    BY <1>5
  <2>2. call.op = "CountOnes" => blocks_' = blocks_
    BY DEF EndBlock
  <2> QED BY <1>2, <1>3, <2>1, <2>2 DEF StorageOK, Clean
<1>9. CountOK'
  <2>1. ASSUME NEW t \in Tuple
        PROVE  ReadTuple(t)' <=> ReadTuple(t)
    <3> DEFINE c == t \div kNumTuplesPerBlock
               p == t % kNumTuplesPerBlock
    <3>1. p \in 0 .. BlockNum(c) - 1
      BY TuplePlace
    <3>2. c = b => p \div kNumWordBits < word_id[w]
      BY <1>5, <3>1
    <3> HIDE DEF c, p
    <3>3. ReadTuple(t)' <=> c < next_block
             /\ \A v \in Worker : Working(v)' /\ block'[v] = c => p \div kNumWordBits < word_id'[v]
      BY <1>3 DEF ReadTuple, Started, c, p
    <3>4. ReadTuple(t) <=> c < next_block
             /\ \A v \in Worker : Working(v) /\ block[v] = c => p \div kNumWordBits < word_id[v]
      BY DEF ReadTuple, Started, c, p
    <3> QED BY <1>3, <1>4, <3>2, <3>3, <3>4
  <2>2. Ids(old)' = Ids(old) /\ Ids(old) \subseteq Tuple
    BY <1>3 DEF Ids, Tuple
  <2>3. Counted' = Counted
    BY <2>1, <2>2 DEF Counted
  <2>4. Left' = Left
    BY <1>1, <1>3 DEF Left
  <2> QED BY <1>3, <2>3, <2>4, SharesKept
<1>10. TailsClean'
  BY <1>2, <1>3 DEF TailsClean
<1>11. BlocksOnce'
  <2> SUFFICES ASSUME NEW c \in BlockId
               PROVE  /\ ~Started(c) => blocks_'[c] = old[c]
                      /\ Finished(c)' => blocks_'[c] = {p \in Position : After(c, p)}
                      /\ \A v \in Worker : Working(v)' /\ block'[v] = c =>
                           \A p \in 0 .. BlockNum(c) - 1 :
                             p \in blocks_'[c] <=> IF p \div kNumWordBits < word_id'[v]
                                                   THEN After(c, p) ELSE p \in old[c]
    BY <1>3, AfterStays, TuplesInBlock DEF BlocksOnce, Started
  <2>1. CASE c = b
    BY <1>2, <1>3, <1>4, <1>5, <2>1 DEF Started
  <2>2. CASE c # b
    <3>1. Finished(c)' => Finished(c)
      BY <1>3, <1>4, <2>2 DEF Finished, Started
    <3> QED BY <1>2, <1>3, <1>4, <1>5, <2>2, <3>1 DEF BlocksOnce
  <2> QED BY <2>1, <2>2
<1>12. BlocksOwned'
  <2> SUFFICES ASSUME NEW v \in Worker, Working(v)'
               PROVE  /\ block'[v] < next_block
                      /\ \A u \in Worker : Working(u)' /\ block'[u] = block'[v] => u = v
                      /\ pc'[v] = "store" =>
                           word'[v] = GetWordUnit(blocks_'[block'[v]], word_id'[v])
    BY <1>3 DEF BlocksOwned, Started
  <2>1. v # w /\ Working(v) /\ block'[v] = block[v]
    BY <1>3, <1>4
  <2>2. block[v] \in BlockId /\ block[v] # b /\ block[v] < next_block
    BY <1>2, <2>1, AtWork
  <2>3. blocks_'[block[v]] = blocks_[block[v]]
    BY <1>5, <2>2
  <2> QED BY <1>3, <1>4, <2>1, <2>2, <2>3 DEF BlocksOwned
<1> QED BY <1>6, <1>7, <1>8, <1>9, <1>10, <1>11, <1>12

(* At the barrier every block is done, and the shares are all the tuples.  *)
LEMMA AllDone ==
  ASSUME VectorInv, call # NoCall, \A w \in Worker : pc[w] = "barrier"
  PROVE  /\ \A b \in BlockId : blocks_[b] = {p \in Position : After(b, p)}
         /\ \A b \in BlockId : blocks_[b] \subseteq 0 .. BlockNum(b) - 1
         /\ call.op = "CountOnes" => count = Cardinality(Ids(old))
<1> USE DEF VectorInv
<1>1. next_block = NumBlocks /\ \A w \in Worker : ~Working(w)
  BY CallAssumption DEF LoopOK, Working
<1>2. \A b \in BlockId : Started(b)
  BY <1>1, VectorSizes DEF Started, BlockId
<1>3. \A b \in BlockId : blocks_[b] = {p \in Position : After(b, p)}
  BY <1>1, <1>2 DEF BlocksOnce, Finished
<1>4. ASSUME NEW b \in BlockId, NEW p \in blocks_[b]
      PROVE  p \in 0 .. BlockNum(b) - 1
  <2>1. p \in Position /\ After(b, p)
    BY <1>3, <1>4
  <2>2. p \in Nat /\ BlockNum(b) \in Nat
    BY <2>1, BlockSizes, Sizes DEF Position
  <2>3. old[b] \subseteq 0 .. BlockNum(b) - 1
    BY DEF StorageOK, Clean
  <2> QED BY <2>1, <2>2, <2>3 DEF After
<1>5. ASSUME call.op = "CountOnes"
      PROVE  count = Cardinality(Ids(old))
  <2>1. PICK part \in [Worker -> SUBSET Tuple] : Shares(part)
    BY <1>5 DEF CountOK
  <2>2. \A t \in Ids(old) : t \div kNumTuplesPerBlock \in BlockId
    BY TuplePlace DEF Ids, Tuple
  <2>3. Counted = Ids(old)
    BY <1>1, <1>2, <2>2 DEF Counted, ReadTuple
  <2>4. Left = Worker
    BY DEF Left
  <2> QED BY <2>1, <2>3, <2>4 DEF Shares
<1> QED BY <1>3, <1>4, <1>5

LEMMA ReturnInv ==
  ASSUME VectorInv, Return
  PROVE  VectorInv'
<1>1. /\ call # NoCall /\ call' = NoCall /\ blocks_' = blocks_
      /\ \A w \in Worker : pc[w] = "barrier" /\ pc'[w] = "out" /\ partial'[w] = 0
      /\ next_block' = 0 /\ count' = 0
  BY DEF Return
<1>2. TypeOK'
  BY VectorSizes DEF Return, VectorInv, TypeOK
<1>3. LoopOK'
  BY <1>1 DEF LoopOK
<1>4. StorageOK' /\ CountOK' /\ BlocksOnce'
  BY <1>1 DEF StorageOK, CountOK, BlocksOnce
<1>5. TailsClean'
  BY <1>1, AllDone DEF TailsClean
<1>6. BlocksOwned'
  BY <1>1 DEF BlocksOwned, Working
<1> QED BY <1>2, <1>3, <1>4, <1>5, <1>6 DEF VectorInv

(* SetBit and UnsetBit change one bit of one tuple.                        *)
LEMMA ChangeInv ==
  ASSUME VectorInv, NEW pos \in Bits, SetBit(pos) \/ UnsetBit(pos)
  PROVE  VectorInv'
<1> DEFINE b == pos \div kNumTuplesPerBlock
           p == pos % kNumTuplesPerBlock
<1>1. /\ call = NoCall
      /\ UNCHANGED <<call, old, next_block, pc, block, word_id, word, partial, count, result>>
      /\ \/ blocks_' = [blocks_ EXCEPT ![b] = blocks_[b] \cup {p}]
         \/ blocks_' = [blocks_ EXCEPT ![b] = blocks_[b] \ {p}]
  BY DEF SetBit, UnsetBit
<1>2. b \in BlockId /\ p \in 0 .. BlockNum(b) - 1
  <2>1. pos \in Tuple
    BY CallAssumption DEF Tuple
  <2> QED BY <2>1, TuplePlace
<1>3. p \in Position
  BY <1>2, TuplesInBlock
<1> HIDE DEF b, p
<1>4. TypeOK'
  <2>1. blocks_' \in [BlockId -> SUBSET Position]
    BY <1>1, <1>2, <1>3 DEF VectorInv, TypeOK
  <2> QED BY <1>1, <2>1 DEF VectorInv, TypeOK
<1>5. TailsClean'
  <2> SUFFICES ASSUME NEW c \in BlockId
               PROVE  blocks_'[c] \subseteq 0 .. BlockNum(c) - 1
    BY DEF TailsClean
  <2>1. blocks_[c] \subseteq 0 .. BlockNum(c) - 1
    BY <1>1 DEF VectorInv, TailsClean
  <2>2. CASE c = b
    BY <1>1, <1>2, <2>1, <2>2 DEF VectorInv, TypeOK
  <2>3. CASE c # b
    BY <1>1, <2>1, <2>3 DEF VectorInv, TypeOK
  <2> QED BY <2>2, <2>3
<1>6. LoopOK'
  BY <1>1 DEF VectorInv, LoopOK
<1>7. StorageOK' /\ CountOK' /\ BlocksOnce'
  BY <1>1 DEF StorageOK, CountOK, BlocksOnce
<1>8. BlocksOwned'
  BY <1>1 DEF VectorInv, LoopOK, BlocksOwned, Working
<1> QED BY <1>4, <1>5, <1>6, <1>7, <1>8 DEF VectorInv

-----------------------------------------------------------------------------
(* The theorems.                                                           *)

(* The inductive invariant: besides the run's invariants, where the loop   *)
(* and its threads are, what may lie past the tuples meanwhile, and, for   *)
(* CountOnes, that the threads' counts are the sizes of disjoint sets of   *)
(* tuples which make up those whose words have been read.                  *)
THEOREM VectorInvariance == Safety => []VectorInv
<1>1. Init => VectorInv
  BY InitVector
<1>2. VectorInv /\ [Next]_vars => VectorInv'
  <2> SUFFICES ASSUME VectorInv, [Next]_vars
               PROVE  VectorInv'
    OBVIOUS
  <2>1. CASE Begin
    BY <2>1, BeginInv
  <2>2. ASSUME NEW w \in Worker, Work(w)
        PROVE  VectorInv'
    <3>1. CASE Claim(w)
      BY <3>1, ClaimInv
    <3>2. CASE Leave(w)
      BY <3>2, LeaveInv
    <3>3. CASE LoadWord(w)
      BY <3>3, LoadWordInv
    <3>4. CASE StoreWord(w)
      BY <3>4, StoreWordInv
    <3>5. CASE EndBlock(w)
      BY <3>5, EndBlockInv
    <3> QED BY <2>2, <3>1, <3>2, <3>3, <3>4, <3>5 DEF Work
  <2>3. CASE Return
    BY <2>3, ReturnInv
  <2>4. ASSUME NEW pos \in Bits, SetBit(pos) \/ UnsetBit(pos)
        PROVE  VectorInv'
    BY <2>4, ChangeInv
  <2>5. CASE UNCHANGED vars
    <3> USE <2>5 DEF vars, VectorInv
    <3>1. TypeOK' /\ TailsClean'
      BY DEF TypeOK, TailsClean
    <3>2. LoopOK' /\ StorageOK' /\ BlocksOwned'
      BY DEF LoopOK, StorageOK, BlocksOwned, Working, Started, Words, Clean
    <3>3. BlocksOnce'
      BY AfterStays, TuplesInBlock DEF BlocksOnce, Finished, Started, Working
    <3>4. CountOK'
      <4>1. Counted' = Counted /\ Left' = Left
        BY DEF Counted, Ids, ReadTuple, Started, Working, Left
      <4> QED BY <4>1, SharesKept
    <3> QED BY <3>1, <3>2, <3>3, <3>4
  <2> QED BY <2>1, <2>2, <2>3, <2>4, <2>5 DEF Next
<1> QED BY <1>1, <1>2, PTL DEF Safety

(* The threads read and write within the vector's blocks and words.        *)
THEOREM VectorTypeCorrect == Safety => []TypeOK
<1>1. VectorInv => TypeOK
  BY DEF VectorInv
<1> QED BY <1>1, VectorInvariance, PTL

(* Every operation and every interleaving of its threads leaves no bit     *)
(* past the tuples of a block.                                             *)
THEOREM VectorTailsClean == Safety => []TailsClean
<1>1. VectorInv => TailsClean
  BY DEF VectorInv
<1> QED BY <1>1, VectorInvariance, PTL

(* Each block gets the operation once, word after word, and none is left   *)
(* out, however many threads take blocks from the loop.                    *)
THEOREM VectorBlocksOnce == Safety => []BlocksOnce
<1>1. VectorInv => BlocksOnce
  BY DEF VectorInv
<1> QED BY <1>1, VectorInvariance, PTL

(* No two threads work on a block, and no word changes between its load    *)
(* and its store.                                                          *)
THEOREM VectorBlocksOwned == Safety => []BlocksOwned
<1>1. VectorInv => BlocksOwned
  BY DEF VectorInv
<1> QED BY <1>1, VectorInvariance, PTL

-----------------------------------------------------------------------------
(* The vector implements BitVectorSpec.                                    *)

(* The vector and the call as its caller sees them.                        *)
SeenBits == Ids(IF call = NoCall THEN blocks_ ELSE old)
SeenCall == IF call = NoCall THEN NoCall
            ELSE [op |-> call.op, opt |-> call.opt, arg |-> Ids(call.arg)]

(* A call under way shows, with its argument as a set of tuples.           *)
LEMMA CallSeen ==
  ASSUME TypeOK, call # NoCall
  PROVE  /\ SeenCall # NoCall /\ SeenCall \in Abs!CallsOf(Tuple)
         /\ SeenCall.op = call.op /\ SeenCall.opt = call.opt
         /\ SeenCall.arg = Ids(call.arg)
<1>1. /\ call.op \in {"Scan", "And", "Or", "SetOnes", "SetZeros", "CountOnes"}
      /\ call.opt \in BitwiseOpt
  BY CallType
<1>2. Ids(call.arg) \subseteq 0 .. num_ - 1
  BY DEF Ids
<1>3. SeenCall = [op |-> call.op, opt |-> call.opt, arg |-> Ids(call.arg)]
  BY DEF SeenCall
<1>4. SeenCall \in [op : {"Scan", "And", "Or", "SetOnes", "SetZeros", "CountOnes"},
                    opt : BitwiseOpt, arg : SUBSET (0 .. num_ - 1)]
  BY <1>1, <1>2, <1>3
<1>5. SeenCall # NoCall
  BY <1>4, CallAssumption
<1>6. SeenCall \in Abs!CallsOf(Tuple)
  BY <1>4 DEF Abs!CallsOf, Tuple, Abs!BitwiseOpt, BitwiseOpt
<1> QED BY <1>3, <1>5, <1>6

(* What the blocks hold at the barrier is the operation's effect on the    *)
(* tuples.                                                                 *)
LEMMA EffectOnTuples ==
  ASSUME VectorInv, call # NoCall, \A w \in Worker : pc[w] = "barrier"
  PROVE  Ids(blocks_) = Abs!Effect(SeenCall, Ids(old))
<1>1. /\ call.op \in {"Scan", "And", "Or", "SetOnes", "SetZeros", "CountOnes"}
      /\ call.opt \in BitwiseOpt
  BY CallType DEF VectorInv
<1>2. SeenCall.op = call.op /\ SeenCall.opt = call.opt /\ SeenCall.arg = Ids(call.arg)
  BY CallSeen DEF VectorInv
<1>3. /\ Ids(blocks_) \subseteq Tuple /\ Ids(old) \subseteq Tuple /\ Ids(call.arg) \subseteq Tuple
  BY DEF Ids, Tuple
<1>4. ASSUME NEW t \in Tuple
      PROVE  t \in Ids(blocks_) <=> IF call.op = "CountOnes" THEN t \in Ids(old)
                                    ELSE NewBit(t \in Ids(old), t \in Ids(call.arg))
  <2> DEFINE b == t \div kNumTuplesPerBlock
             p == t % kNumTuplesPerBlock
  <2>1. b \in BlockId /\ p \in Position /\ p < BlockNum(b)
    BY TuplePlace, TuplesInBlock
  <2>2. t \in Ids(blocks_) <=> p \in blocks_[b]
    BY DEF Ids, Tuple
  <2>3. t \in Ids(old) <=> p \in old[b]
    BY DEF Ids, Tuple
  <2>4. t \in Ids(call.arg) <=> p \in call.arg[b]
    BY DEF Ids, Tuple
  <2> HIDE DEF b, p
  <2>5. p \in blocks_[b] <=> After(b, p)
    BY <2>1, AllDone
  <2>6. After(b, p) <=> IF call.op = "CountOnes" THEN p \in old[b]
                        ELSE NewBit(p \in old[b], p \in call.arg[b])
    BY <2>1 DEF After
  <2>7. call.op # "CountOnes" =>
          (NewBit(p \in old[b], p \in call.arg[b])
             <=> NewBit(t \in Ids(old), t \in Ids(call.arg)))
    BY <1>1, <2>3, <2>4 DEF NewBit, Combine, BitwiseOpt
  <2> QED BY <2>2, <2>3, <2>5, <2>6, <2>7
<1> DEFINE effect == Abs!Effect(SeenCall, Ids(old))
<1>5. CASE call.op = "Scan"
  <2>1. effect = {t \in Tuple : Abs!Combine(call.opt, t \in Ids(old), t \in Ids(call.arg))}
    BY <1>2, <1>5 DEF Abs!Effect, Tuple
  <2>2. ASSUME NEW t \in Tuple
        PROVE  t \in Ids(blocks_) <=>
                 Abs!Combine(call.opt, t \in Ids(old), t \in Ids(call.arg))
    <3>1. t \in Ids(blocks_) <=> Combine(call.opt, t \in Ids(old), t \in Ids(call.arg))
      BY <1>4, <1>5 DEF NewBit
    <3> QED BY <1>1, <3>1 DEF Combine, Abs!Combine, BitwiseOpt
  <2> HIDE DEF effect
  <2> QED BY <1>3, <2>1, <2>2 DEF effect
<1>6. CASE call.op = "And"
  <2>1. effect = Ids(old) \cap Ids(call.arg)
    BY <1>2, <1>6 DEF Abs!Effect
  <2>2. \A t \in Tuple : t \in Ids(blocks_) <=> t \in Ids(old) /\ t \in Ids(call.arg)
    BY <1>4, <1>6 DEF NewBit
  <2> HIDE DEF effect
  <2> QED BY <1>3, <2>1, <2>2 DEF effect
<1>7. CASE call.op = "Or"
  <2>1. effect = Ids(old) \cup Ids(call.arg)
    BY <1>2, <1>7 DEF Abs!Effect
  <2>2. \A t \in Tuple : t \in Ids(blocks_) <=> t \in Ids(old) \/ t \in Ids(call.arg)
    BY <1>4, <1>7 DEF NewBit
  <2> HIDE DEF effect
  <2> QED BY <1>3, <2>1, <2>2 DEF effect
<1>8. CASE call.op = "SetOnes"
  <2>1. effect = Tuple
    BY <1>2, <1>8 DEF Abs!Effect, Tuple
  <2>2. \A t \in Tuple : t \in Ids(blocks_)
    BY <1>4, <1>8 DEF NewBit
  <2> HIDE DEF effect
  <2> QED BY <1>3, <2>1, <2>2 DEF effect
<1>9. CASE call.op = "SetZeros"
  <2>1. effect = {}
    BY <1>2, <1>9 DEF Abs!Effect
  <2>2. \A t \in Tuple : t \notin Ids(blocks_)
    BY <1>4, <1>9 DEF NewBit
  <2> HIDE DEF effect
  <2> QED BY <1>3, <2>1, <2>2 DEF effect
<1>10. CASE call.op = "CountOnes"
  <2>1. effect = Ids(old)
    BY <1>2, <1>10 DEF Abs!Effect
  <2>2. \A t \in Tuple : t \in Ids(blocks_) <=> t \in Ids(old)
    BY <1>4, <1>10
  <2> HIDE DEF effect
  <2> QED BY <1>3, <2>1, <2>2 DEF effect
<1> QED BY <1>1, <1>5, <1>6, <1>7, <1>8, <1>9, <1>10

(* A bit set or unset is that of its tuple and no other.                   *)
LEMMA ChangeSeen ==
  ASSUME VectorInv, NEW pos \in Tuple
  PROVE  /\ SetBit(pos) => Ids(blocks_)' = Ids(blocks_) \cup {pos}
         /\ UnsetBit(pos) => Ids(blocks_)' = Ids(blocks_) \ {pos}
<1> DEFINE K == kNumTuplesPerBlock
<1>1. pos \div K \in BlockId
  BY TuplePlace
<1>2. ASSUME NEW t \in Tuple
      PROVE  /\ t \div K \in BlockId
             /\ t = pos <=> t \div K = pos \div K /\ t % K = pos % K
  BY TuplePlace
<1>3. ASSUME SetBit(pos), NEW t \in Tuple
      PROVE  t % K \in blocks_'[t \div K] <=> t % K \in blocks_[t \div K] \/ t = pos
  BY <1>1, <1>2, <1>3 DEF SetBit, VectorInv, TypeOK
<1>4. ASSUME UnsetBit(pos), NEW t \in Tuple
      PROVE  t % K \in blocks_'[t \div K] <=> t % K \in blocks_[t \div K] /\ t # pos
  BY <1>1, <1>2, <1>4 DEF UnsetBit, VectorInv, TypeOK
<1>5. /\ Ids(blocks_) = {t \in Tuple : t % K \in blocks_[t \div K]}
      /\ Ids(blocks_)' = {t \in Tuple : t % K \in blocks_'[t \div K]}
  BY DEF Ids, Tuple
<1> HIDE DEF K
<1> QED BY <1>3, <1>4, <1>5

(* Whatever the threads do, the caller sees one set of bits and each       *)
(* operation as a single step, with the count of all the bits that were    *)
(* set: the vector is a BitVectorSpec.                                     *)
THEOREM BitVectorRefinement == Safety => Abs!Safety
<1>1. ASSUME Init
      PROVE  Abs!Init
  <2>1. VectorInv
    BY <1>1, InitVector
  <2>2. ASSUME NEW t \in Tuple
        PROVE  t \in Ids(blocks_)
    <3>1. t \div kNumTuplesPerBlock \in BlockId
          /\ t % kNumTuplesPerBlock \in 0 .. BlockNum(t \div kNumTuplesPerBlock) - 1
      BY TuplePlace
    <3>2. blocks_[t \div kNumTuplesPerBlock] = 0 .. BlockNum(t \div kNumTuplesPerBlock) - 1
      <4> DEFINE b == t \div kNumTuplesPerBlock
      <4>1. BlockNum(b) \in 1 .. kNumTuplesPerBlock /\ b \in BlockId
        BY <3>1, BlockSizes
      <4> HIDE DEF b
      <4>2. SetOnes(BlockNum(b)) = 0 .. BlockNum(b) - 1
        BY <4>1, ClearTailExact, UnitsInBlock DEF SetOnes
      <4>3. blocks_[b] = 0 .. BlockNum(b) - 1
        BY <1>1, <4>1, <4>2 DEF Init
      <4> QED BY <4>3 DEF b
    <3> QED BY <3>1, <3>2 DEF Ids, Tuple
  <2>3. Ids(blocks_) = 0 .. num_ - 1
    BY <2>2 DEF Ids, Tuple
  <2> QED BY <1>1, <2>3 DEF Init, Abs!Init
<1>2. ASSUME VectorInv, VectorInv', [Next]_vars
      PROVE  [Abs!Next]_(Abs!vars)
  <2> USE DEF Abs!vars
  <2>1. ASSUME UNCHANGED <<call, old, result>>, call # NoCall
        PROVE  UNCHANGED Abs!vars
    BY <2>1 DEF Ids
  <2>2. CASE Begin
    <3>1. call = NoCall /\ call' # NoCall /\ old' = blocks_ /\ result' = result
      BY <2>2, CallAssumption DEF Begin
    <3>2. (call # NoCall => SeenCall \in Abs!CallsOf(Tuple))'
      <4>1. SeenCall' = [op |-> call'.op, opt |-> call'.opt, arg |-> Ids(call.arg)']
        BY <3>1 DEF SeenCall
      <4>2. call' \in Calls
        BY <2>2 DEF Begin
      <4>3. /\ call'.op \in {"Scan", "And", "Or", "SetOnes", "SetZeros", "CountOnes"}
            /\ call'.opt \in BitwiseOpt
        BY <4>2, CallAssumption
      <4>4. Ids(call.arg)' \subseteq 0 .. num_ - 1
        BY DEF Ids
      <4>5. SeenCall' \in [op : {"Scan", "And", "Or", "SetOnes", "SetZeros", "CountOnes"},
                           opt : BitwiseOpt, arg : SUBSET (0 .. num_ - 1)]
        BY <4>1, <4>3, <4>4
      <4> QED BY <4>5 DEF Abs!CallsOf, Tuple, Abs!BitwiseOpt, BitwiseOpt
    <3>3. Ids(IF call = NoCall THEN blocks_ ELSE old)' = Ids(IF call = NoCall THEN blocks_ ELSE old)
      BY <3>1 DEF Ids
    <3>4. Abs!Begin
      BY <3>1, <3>2, <3>3 DEF Abs!Begin, SeenCall, Tuple
    <3> QED BY <3>4 DEF Abs!Next
  <2>3. ASSUME NEW w \in Worker, Work(w)
        PROVE  UNCHANGED Abs!vars
    <3>1. call # NoCall
      BY <1>2, <2>3 DEF Work, Claim, Leave, LoadWord, StoreWord, EndBlock, VectorInv, LoopOK
    <3>2. UNCHANGED <<call, old, result>>
      BY <2>3 DEF Work, Claim, Leave, LoadWord, StoreWord, EndBlock
    <3> QED BY <2>1, <3>1, <3>2
  <2>4. CASE Return
    <3>1. /\ call # NoCall /\ call' = NoCall /\ blocks_' = blocks_
          /\ \A w \in Worker : pc[w] = "barrier"
          /\ result' = IF call.op = "CountOnes" THEN count ELSE result
      BY <2>4 DEF Return
    <3>2. Ids(blocks_) = Abs!Effect(SeenCall, Ids(old))
      BY <1>2, <3>1, EffectOnTuples
    <3>3. call.op = "CountOnes" => count = Cardinality(Ids(old))
      BY <1>2, <3>1, AllDone
    <3>4. SeenCall # NoCall /\ SeenCall.op = call.op
      BY <1>2, <3>1, CallSeen DEF VectorInv
    <3>5. SeenBits = Ids(old) /\ SeenBits' = Ids(blocks_)
      BY <3>1 DEF SeenBits, Ids
    <3>6. SeenBits' = Abs!Effect(SeenCall, SeenBits)
      BY <3>2, <3>5
    <3>7. result' = IF SeenCall.op = "CountOnes" THEN Cardinality(SeenBits) ELSE result
      BY <3>1, <3>3, <3>4, <3>5
    <3>8. SeenCall' = NoCall
      BY <3>1 DEF SeenCall
    <3>9. Abs!End
      <4>1. Abs!Cardinality(SeenBits) = Cardinality(SeenBits)
        BY DEF Abs!Cardinality, Cardinality
      <4> QED BY <3>4, <3>6, <3>7, <3>8, <4>1 DEF Abs!End, SeenBits, SeenCall
    <3> QED BY <3>9 DEF Abs!Next
  <2>5. ASSUME NEW pos \in Bits, SetBit(pos) \/ UnsetBit(pos)
        PROVE  Abs!Change
    <3>1. call = NoCall /\ call' = NoCall /\ result' = result
      BY <2>5 DEF SetBit, UnsetBit
    <3>2. pos \in Tuple
      BY CallAssumption DEF Tuple
    <3>3. Ids(blocks_)' \in {Ids(blocks_) \cup {pos}, Ids(blocks_) \ {pos}}
      BY <1>2, <2>5, <3>2, ChangeSeen
    <3>4. SeenBits = Ids(blocks_) /\ SeenBits' = Ids(blocks_)'
      BY <3>1 DEF SeenBits, Ids
    <3> QED BY <3>1, <3>2, <3>3, <3>4 DEF Abs!Change, SeenBits, Tuple
  <2>6. CASE UNCHANGED vars
    BY <2>6 DEF vars, Ids
  <2> QED BY <1>2, <2>2, <2>3, <2>4, <2>5, <2>6 DEF Next, Abs!Next
<1> QED BY <1>1, <1>2, VectorInvariance, PTL DEF Safety, Abs!Safety
=============================================================================

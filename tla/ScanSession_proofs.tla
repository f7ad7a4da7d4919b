------------------------- MODULE ScanSession_proofs --------------------------
(***************************************************************************)
(* ScanSession, proved for every size of word, register and block, any     *)
(* number of tuples, any codes and any sequence of loads, resizings,       *)
(* scans, And and Or: what a scan or a combination does to one block and   *)
(* then to a vector that may fit the column or not, the inductive          *)
(* invariant SessionInv, and from both what a query returns.               *)
(***************************************************************************)
EXTENDS ScanSession, Column_proofs, FiniteSetTheorems, WellFoundedInduction

BVBP == INSTANCE BitVectorBlock_proofs

(* Resize never leaves more blocks than the most tuples ask for.           *)
BlocksBounded == Len(blocks_) <= BlocksFor(MaxTuples)

(* While the sizes have agreed nothing is set past the tuples, and every   *)
(* tuple of the vector has been the column's throughout.                   *)
FitsOK == fits => TailsClean /\ covered = 0 .. num_ - 1 /\ asked \subseteq covered

SessionInv ==
  /\ ColumnInv /\ load = NoLoad /\ BlocksBounded
  /\ SessionTypeOK /\ StaleVectorExact /\ FitsOK

-----------------------------------------------------------------------------
(* Blocks of any kind that are in number and size what num tuples ask for: *)
(* a column's or a vector's.                                               *)

LEMMA Registers ==
  /\ kNumTuplesPerBlock \in Nat \ {0}
  /\ kNumWordBits \in Nat \ {0}
  /\ kNumAvxBits \in Nat \ {0}
  /\ \E k \in 1 .. kNumAvxBits : kNumAvxBits = k * kNumWordBits
  /\ \E k \in 1 .. kNumTuplesPerBlock : kNumTuplesPerBlock = k * kNumAvxBits
  /\ kNumTuplesPerBlock < SizeRange
BY ColumnAssumption, SessionAssumption

LEMMA SizeBounds ==
  ASSUME NEW num \in Nat, NEW b \in 1 .. BlocksFor(num)
  PROVE  SizeAt(num, b) \in 1 .. kNumTuplesPerBlock
<1> DEFINE full == num \div kNumTuplesPerBlock
           rest == num % kNumTuplesPerBlock
<1>1. full \in Nat /\ rest \in 0 .. kNumTuplesPerBlock - 1
  BY BlocksForNat DEF Position
<1>2. b <= full + IF rest > 0 THEN 1 ELSE 0
  BY DEF BlocksFor
<1>3. SizeAt(num, b) = IF b <= full THEN kNumTuplesPerBlock ELSE rest
  BY DEF SizeAt
<1> HIDE DEF full, rest
<1>4. ~(b <= full) => rest > 0
  BY <1>1, <1>2
<1> QED BY <1>1, <1>3, <1>4, Constants

LEMMA SizesOf ==
  ASSUME NEW S, NEW blocks \in Seq(S), NEW num \in Nat,
         Sizes(blocks) = SizesFor(num)
  PROVE  /\ Len(blocks) = BlocksFor(num)
         /\ DOMAIN blocks = 1 .. BlocksFor(num)
         /\ \A b \in DOMAIN blocks :
              /\ blocks[b].num = SizeAt(num, b)
              /\ blocks[b].num \in 1 .. kNumTuplesPerBlock
<1>1. SizesFor(num) = [b \in 1 .. BlocksFor(num) |-> SizeAt(num, b)]
  BY SizesShape
<1>2. Sizes(blocks) = [b \in 1 .. Len(blocks) |-> blocks[b].num]
  BY DEF Sizes
<1>3. Len(blocks) \in Nat /\ DOMAIN blocks = 1 .. Len(blocks)
  OBVIOUS
<1>4. 1 .. Len(blocks) = 1 .. BlocksFor(num)
  <2>1. DOMAIN Sizes(blocks) = 1 .. Len(blocks)
    BY <1>2
  <2>2. DOMAIN SizesFor(num) = 1 .. BlocksFor(num)
    BY <1>1
  <2> QED BY <2>1, <2>2
<1>5. BlocksFor(num) \in Nat
  BY BlocksForNat
<1>6. Len(blocks) = BlocksFor(num)
  BY <1>3, <1>4, <1>5
<1>7. ASSUME NEW b \in DOMAIN blocks
      PROVE  blocks[b].num = SizeAt(num, b)
  <2>1. b \in 1 .. BlocksFor(num)
    BY <1>3, <1>4
  <2>2. Sizes(blocks)[b] = blocks[b].num /\ SizesFor(num)[b] = SizeAt(num, b)
    BY <1>1, <1>2, <1>4, <2>1
  <2> QED BY <2>2
<1>8. ASSUME NEW b \in DOMAIN blocks
      PROVE  blocks[b].num \in 1 .. kNumTuplesPerBlock
  <2>1. b \in 1 .. BlocksFor(num)
    BY <1>3, <1>4
  <2> QED BY <2>1, <1>7, SizeBounds
<1> QED BY <1>3, <1>4, <1>6, <1>7, <1>8

(* A tuple that some block holds has its place there.                      *)
LEMMA HeldPlace ==
  ASSUME NEW S, NEW blocks \in Seq(S), NEW id \in Held(blocks)
  PROVE  /\ id \in Nat /\ BlockOf(id) \in DOMAIN blocks /\ PosOf(id) \in Position
         /\ PosOf(id) < blocks[BlockOf(id)].num
         /\ id < Len(blocks) * kNumTuplesPerBlock
         /\ id = kNumTuplesPerBlock * (BlockOf(id) - 1) + PosOf(id)
<1> DEFINE k == kNumTuplesPerBlock
           n == Len(blocks)
           b == BlockOf(id)
           p == PosOf(id)
<1>1. n \in Nat /\ k \in Nat \ {0} /\ DOMAIN blocks = 1 .. n
  BY Constants
<1>2. id \in 0 .. n * k - 1 /\ p < blocks[b].num
  BY DEF Held
<1>3. id \in Nat /\ id < n * k
  <2>1. n * k \in Nat
    BY <1>1
  <2> HIDE DEF n, k
  <2> QED BY <2>1, <1>2
<1>4. b \in Nat \ {0} /\ p \in Position /\ id = k * (b - 1) + p
  BY <1>3, PlaceOfAny
<1>5. b <= n
  <2>1. p \in 0 .. k - 1
    BY <1>4 DEF Position
  <2> HIDE DEF n, b, p, k
  <2>2. k * (b - 1) < k * n
    BY <1>1, <1>3, <1>4, <2>1
  <2>3. b - 1 < n
    BY <2>2, <1>1, <1>4
  <2> QED BY <2>3, <1>1, <1>4
<1>6. b \in DOMAIN blocks
  <2> HIDE DEF n, b
  <2> QED BY <1>1, <1>4, <1>5
<1> QED BY <1>2, <1>3, <1>4, <1>6

(* Blocks of the sizes that num tuples ask for hold those and no other.    *)
LEMMA HeldExact ==
  ASSUME NEW S, NEW blocks \in Seq(S), NEW num \in Nat,
         Sizes(blocks) = SizesFor(num)
  PROVE  /\ Held(blocks) = 0 .. num - 1
         /\ \A id \in 0 .. num - 1 :
              BlockOf(id) \in DOMAIN blocks /\ PosOf(id) \in 0 .. blocks[BlockOf(id)].num - 1
         /\ \A b \in DOMAIN blocks : \A p \in 0 .. blocks[b].num - 1 :
              kNumTuplesPerBlock * (b - 1) + p \in 0 .. num - 1
<1> DEFINE k == kNumTuplesPerBlock
<1>1. /\ Len(blocks) = BlocksFor(num) /\ DOMAIN blocks = 1 .. BlocksFor(num)
      /\ \A b \in DOMAIN blocks :
           blocks[b].num = SizeAt(num, b) /\ blocks[b].num \in 1 .. k
  BY SizesOf
<1>2. BlocksFor(num) \in Nat /\ k \in Nat \ {0}
  BY BlocksForNat, Constants
<1>3. ASSUME NEW id \in 0 .. num - 1
      PROVE  /\ BlockOf(id) \in DOMAIN blocks
             /\ PosOf(id) \in 0 .. blocks[BlockOf(id)].num - 1
             /\ id \in 0 .. Len(blocks) * k - 1
  <2>1. /\ BlockOf(id) \in 1 .. BlocksFor(num)
        /\ PosOf(id) \in Position /\ PosOf(id) < SizeAt(num, BlockOf(id))
        /\ id = k * (BlockOf(id) - 1) + PosOf(id)
    BY PlaceOf
  <2>2. BlockOf(id) \in DOMAIN blocks /\ PosOf(id) \in 0 .. blocks[BlockOf(id)].num - 1
    BY <2>1, <1>1 DEF Position
  <2>3. id \in 0 .. Len(blocks) * k - 1
    <3> DEFINE b == BlockOf(id)
               p == PosOf(id)
               n == BlocksFor(num)
    <3>1. b \in 1 .. n /\ p \in 0 .. k - 1 /\ id = k * (b - 1) + p /\ n \in Nat
      BY <2>1, <1>2 DEF Position
    <3> HIDE DEF b, p, n, k
    <3>2. k * (b - 1) + k <= k * n /\ k * (b - 1) \in Nat
      BY <3>1, <1>2
    <3>3. id \in 0 .. n * k - 1
      BY <3>1, <3>2, <1>2
    <3> QED BY <3>3, <1>1 DEF n
  <2> QED BY <2>2, <2>3
<1>4. ASSUME NEW b \in DOMAIN blocks, NEW p \in 0 .. blocks[b].num - 1
      PROVE  k * (b - 1) + p \in 0 .. num - 1
  <2> DEFINE full == num \div k
             rest == num % k
  <2>1. full \in Nat /\ rest \in 0 .. k - 1 /\ num = k * full + rest
    BY BlocksForNat DEF Position
  <2>2. b \in 1 .. full + (IF rest > 0 THEN 1 ELSE 0)
    BY <1>1 DEF BlocksFor
  <2>3. p \in 0 .. (IF b <= full THEN k ELSE rest) - 1
    BY <1>1 DEF SizeAt
  <2> HIDE DEF full, rest, k
  <2>4. CASE b <= full
    <3>1. k * (b - 1) + k <= k * full /\ k * (b - 1) \in Nat
      BY <2>1, <2>2, <2>4, <1>2
    <3> QED BY <3>1, <2>1, <2>3, <2>4, <1>2
  <2>5. CASE ~(b <= full)
    <3>1. b - 1 = full
      BY <2>1, <2>2, <2>5
    <3>2. k * (b - 1) = k * full /\ k * full \in Nat
      BY <3>1, <2>1, <1>2
    <3> QED BY <3>2, <2>1, <2>3, <2>5, <1>2
  <2> QED BY <2>4, <2>5
<1>5. Held(blocks) \subseteq 0 .. num - 1
  <2> SUFFICES ASSUME NEW id \in Held(blocks) PROVE id \in 0 .. num - 1
    OBVIOUS
  <2>1. /\ BlockOf(id) \in DOMAIN blocks /\ PosOf(id) \in Position
        /\ PosOf(id) < blocks[BlockOf(id)].num
        /\ id = k * (BlockOf(id) - 1) + PosOf(id)
    BY HeldPlace
  <2>2. PosOf(id) \in 0 .. blocks[BlockOf(id)].num - 1
    BY <2>1, <1>1 DEF Position
  <2> QED BY <2>1, <2>2, <1>4
<1>6. 0 .. num - 1 \subseteq Held(blocks)
  BY <1>1, <1>3 DEF Held
<1> QED BY <1>3, <1>4, <1>5, <1>6

-----------------------------------------------------------------------------
(* What a scan and a combination do to one block of the vector.            *)

LEMMA SamePositions ==
  ASSUME NEW num
  PROVE  /\ BVBP!UnitPositions(num) = BVB!UnitPositions(num)
         /\ \A bits : BVBP!ClearTail(bits, num) = BVB!ClearTail(bits, num)
BY DEF BVBP!UnitPositions, BVB!UnitPositions, BVBP!ClearTail, BVB!ClearTail,
       BVBP!NumWordUnits, BVB!NumWordUnits, BVBP!CEIL, BVB!CEIL

LEMMA Units ==
  ASSUME NEW num \in 1 .. kNumTuplesPerBlock
  PROVE  /\ BVB!UnitPositions(num) \subseteq Position
         /\ 0 .. num - 1 \subseteq BVB!UnitPositions(num)
<1> DEFINE u == BVBP!NumWordUnits(num)
           w == u * kNumWordBits
<1>1. u \in Nat /\ num <= w /\ w <= kNumTuplesPerBlock
  BY Registers, SizeRangeAssumption, BVBP!UnitsCover
<1>2. w \in Nat
  <2> HIDE DEF u
  <2> QED BY <1>1, Registers
<1>3. BVB!UnitPositions(num) = 0 .. w - 1
  BY SamePositions DEF BVBP!UnitPositions
<1> HIDE DEF w
<1> QED BY <1>1, <1>2, <1>3, Registers DEF Position

LEMMA Cleared ==
  ASSUME NEW num \in 1 .. kNumTuplesPerBlock,
         NEW bits \in SUBSET BVB!UnitPositions(num)
  PROVE  BVB!ClearTail(bits, num) = bits \cap (0 .. num - 1)
<1>1. bits \in SUBSET BVBP!UnitPositions(num)
  BY SamePositions
<1>2. BVBP!ClearTail(bits, num) = bits \cap (0 .. num - 1)
  BY <1>1, Registers, SizeRangeAssumption, BVBP!ClearTailExact
<1> QED BY <1>2, SamePositions

(* The words visited cover the tuples of the block.                        *)
LEMMA VisitedCovers ==
  ASSUME NEW num \in 0 .. kNumTuplesPerBlock, NEW p \in Nat, p < num
  PROVE  p < Visited(num)
<1> DEFINE c == CEIL(num, kNumWordBits)
<1>1. num \in 1 .. SizeRange - 1 /\ num \in Nat /\ kNumWordBits \in Nat \ {0}
  BY Constants
<1>2. c \in Nat /\ num <= kNumWordBits * c
  BY <1>1, CeilExact
<1>3. Visited(num) = c * kNumWordBits
  BY DEF Visited
<1> HIDE DEF c
<1>4. kNumWordBits * c = c * kNumWordBits /\ c * kNumWordBits \in Nat
  BY <1>1, <1>2
<1>5. p < c * kNumWordBits
  BY <1>1, <1>2, <1>4
<1> QED BY <1>3, <1>5

LEMMA VectorBlockType ==
  ASSUME NEW vblock \in VectorBlocks
  PROVE  /\ vblock.num \in 1 .. kNumTuplesPerBlock /\ vblock.num \in Nat
         /\ \A bits \in SUBSET Position :
              /\ [vblock EXCEPT !.bits = bits] \in VectorBlocks
              /\ [vblock EXCEPT !.bits = bits].num = vblock.num
              /\ [vblock EXCEPT !.bits = bits].bits = bits
BY Constants DEF VectorBlocks

(* A scan leaves a block of the vector its size.                           *)
Kept(after, vblock) ==
  /\ after \in VectorBlocks /\ after.num = vblock.num
  /\ after.bits \subseteq BVB!UnitPositions(vblock.num)

(* A tuple of the vector that the words visited hold gets what bit_opt     *)
(* makes of its bit, and no other tuple's bit changes.                     *)
HitAt(block, cmp, operand, p) ==
  /\ Compare(cmp, block.data[p], operand[p])
  /\ type_ = "kNaive" => p < block.num

Answers(after, block, vblock, cmp, operand, opt) ==
  \A p \in 0 .. vblock.num - 1 :
    p \in after.bits <=>
      IF p < Visited(block.num)
      THEN Combine(opt, p \in vblock.bits, HitAt(block, cmp, operand, p))
      ELSE p \in vblock.bits

(* Past the tuples of the vector ByteSlice leaves nothing, and Naive what  *)
(* it found or what it answered for the tuples of the column.              *)
PastTuples(after, block, vblock) ==
  /\ type_ = "kByteSlicePadRight" => after.bits \subseteq 0 .. vblock.num - 1
  /\ type_ = "kNaive" =>
       \A p \in after.bits : p \in vblock.bits \/ p < block.num

LEMMA BlockAnswered ==
  ASSUME NEW block \in Blocks,
         NEW vblock \in VectorBlocks,
         vblock.bits \subseteq BVB!UnitPositions(vblock.num),
         type_ \in {"kNaive", "kByteSlicePadRight"},
         NEW cmp, NEW operand, NEW opt \in BitwiseOpt
  PROVE  /\ Kept(BlockScanned(block, vblock, cmp, operand, opt), vblock)
         /\ Answers(BlockScanned(block, vblock, cmp, operand, opt),
                    block, vblock, cmp, operand, opt)
         /\ PastTuples(BlockScanned(block, vblock, cmp, operand, opt), block, vblock)
<1> DEFINE units == BVB!UnitPositions(vblock.num)
           Hit(p) == /\ Compare(cmp, block.data[p], operand[p])
                     /\ type_ = "kNaive" => p < block.num
           words == {p \in units :
                       IF p < Visited(block.num)
                       THEN Combine(opt, p \in vblock.bits, Hit(p))
                       ELSE p \in vblock.bits}
           left == IF type_ = "kNaive" THEN words ELSE BVB!ClearTail(words, vblock.num)
           after == BlockScanned(block, vblock, cmp, operand, opt)
<1>1. after = [vblock EXCEPT !.bits = left]
  BY DEF BlockScanned
<1>2. /\ vblock.num \in 1 .. kNumTuplesPerBlock
      /\ units \subseteq Position /\ 0 .. vblock.num - 1 \subseteq units
      /\ words \subseteq units
  <2>1. vblock.num \in 1 .. kNumTuplesPerBlock
    BY VectorBlockType
  <2> QED BY <2>1, Units
<1>3. type_ # "kNaive" => left = words \cap (0 .. vblock.num - 1)
  <2> HIDE DEF words
  <2>1. words \in SUBSET BVB!UnitPositions(vblock.num)
    BY <1>2
  <2> QED BY <2>1, <1>2, Cleared
<1>4. left \subseteq units
      /\ \A p \in 0 .. vblock.num - 1 : p \in left <=> p \in words
  <2> HIDE DEF words, units
  <2> QED BY <1>2, <1>3
<1>5. after \in VectorBlocks /\ after.num = vblock.num /\ after.bits = left
  <2>1. left \in SUBSET Position
    <3> HIDE DEF left
    <3> QED BY <1>2, <1>4
  <2> HIDE DEF left, after
  <2> QED BY <1>1, <2>1, VectorBlockType
<1>6. \A p \in 0 .. vblock.num - 1 :
        p \in words <=>
          IF p < Visited(block.num) THEN Combine(opt, p \in vblock.bits, Hit(p))
          ELSE p \in vblock.bits
  <2> HIDE DEF Hit, units
  <2> QED BY <1>2
<1>7. type_ = "kNaive" => \A p \in words : p \in vblock.bits \/ p < block.num
  <2> SUFFICES ASSUME type_ = "kNaive", NEW p \in words, p \notin vblock.bits
               PROVE  p < block.num
    OBVIOUS
  <2>1. Combine(opt, p \in vblock.bits, Hit(p))
    OBVIOUS
  <2>2. Hit(p)
    <3> HIDE DEF Hit
    <3> QED BY <2>1 DEF Combine, BitwiseOpt
  <2> QED BY <2>2
<1>8. type_ = "kByteSlicePadRight" => left \subseteq 0 .. vblock.num - 1
  <2> HIDE DEF words
  <2> QED BY <1>3
<1>9. type_ = "kNaive" => \A p \in left : p \in vblock.bits \/ p < block.num
  <2> HIDE DEF words
  <2> QED BY <1>7
<1>10. after.bits \subseteq units
  <2> HIDE DEF after, left
  <2> QED BY <1>4, <1>5
<1>11. \A p \in 0 .. vblock.num - 1 :
        p \in after.bits <=>
          IF p < Visited(block.num) THEN Combine(opt, p \in vblock.bits, Hit(p))
          ELSE p \in vblock.bits
  <2> HIDE DEF after, left, words, Hit
  <2> QED BY <1>4, <1>5, <1>6
<1>12. /\ type_ = "kByteSlicePadRight" => after.bits \subseteq 0 .. vblock.num - 1
       /\ type_ = "kNaive" => \A p \in after.bits : p \in vblock.bits \/ p < block.num
  <2> HIDE DEF after, left
  <2> QED BY <1>5, <1>8, <1>9
<1>13. Kept(after, vblock)
  <2> HIDE DEF after, left
  <2> QED BY <1>5, <1>10 DEF Kept
<1>14. Answers(after, block, vblock, cmp, operand, opt)
  <2> HIDE DEF after
  <2> QED BY <1>11 DEF Answers, HitAt
<1>15. PastTuples(after, block, vblock)
  <2> HIDE DEF after
  <2> QED BY <1>12 DEF PastTuples
<1> QED BY <1>13, <1>14, <1>15

(* And and Or leave no bit past the tuples of the vector, and the bits     *)
(* of those that both blocks have do not depend on what is in the words    *)
(* the other has not written.                                              *)
LEMMA BlocksCombined ==
  ASSUME NEW vblock \in VectorBlocks, NEW oblock,
         oblock.num \in 1 .. kNumTuplesPerBlock,
         vblock.bits \subseteq BVB!UnitPositions(vblock.num),
         NEW rest, NEW opt \in {"kAnd", "kOr"}
  PROVE  LET after == BlockCombined(vblock, oblock, rest, opt)
         IN  /\ after \in VectorBlocks /\ after.num = vblock.num
             /\ after.bits \subseteq 0 .. vblock.num - 1
             /\ \A p \in 0 .. vblock.num - 1 : p < oblock.num =>
                  (p \in after.bits <=>
                     Combine(opt, p \in vblock.bits, p \in oblock.bits))
<1> DEFINE units == BVB!UnitPositions(vblock.num)
           tuples == 0 .. vblock.num - 1
           word == oblock.bits \cup (rest \cap Unwritten(oblock.num))
           both == vblock.bits \cap word
           either == vblock.bits \cup (word \cap units)
           left == IF opt = "kAnd" THEN BVB!ClearTail(both, vblock.num)
                   ELSE BVB!ClearTail(either, vblock.num)
           after == BlockCombined(vblock, oblock, rest, opt)
<1>1. after = [vblock EXCEPT !.bits = left]
  BY DEF BlockCombined, BVB!And, BVB!Or
<1>2. /\ vblock.num \in 1 .. kNumTuplesPerBlock
      /\ units \subseteq Position /\ tuples \subseteq units
      /\ vblock.bits \subseteq units
  <2>1. vblock.num \in 1 .. kNumTuplesPerBlock
    BY VectorBlockType
  <2> QED BY <2>1, Units
<1>3. left = IF opt = "kAnd" THEN both \cap tuples ELSE either \cap tuples
  <2>1. both \in SUBSET units /\ either \in SUBSET units
    <3> HIDE DEF units, word
    <3> QED BY <1>2
  <2> HIDE DEF both, either
  <2> QED BY <2>1, <1>2, Cleared
<1>4. left \in SUBSET Position /\ left \subseteq tuples
  <2> HIDE DEF left, both, either, units, tuples
  <2> QED BY <1>2, <1>3
<1>5. after \in VectorBlocks /\ after.num = vblock.num /\ after.bits = left
  <2> HIDE DEF left, after
  <2> QED BY <1>1, <1>4, VectorBlockType
<1>6. ASSUME NEW p \in tuples, p < oblock.num
      PROVE  p \in left <=> Combine(opt, p \in vblock.bits, p \in oblock.bits)
  <2>1. p \in 0 .. oblock.num - 1
    BY <1>6
  <2>2. p \notin Unwritten(oblock.num)
    BY <2>1, Units DEF Unwritten
  <2>3. p \in word <=> p \in oblock.bits
    BY <2>2
  <2>4. p \in units
    BY <1>2
  <2> HIDE DEF left, word, units, tuples
  <2>5. CASE opt = "kAnd"
    <3>1. p \in left <=> p \in vblock.bits /\ p \in oblock.bits
      BY <1>3, <2>3, <2>5, <1>6
    <3> QED BY <3>1, <2>5 DEF Combine
  <2>6. CASE opt = "kOr"
    <3>1. p \in left <=> p \in vblock.bits \/ p \in oblock.bits
      BY <1>3, <2>3, <2>4, <2>6, <1>6
    <3> QED BY <3>1, <2>6 DEF Combine
  <2> QED BY <2>5, <2>6
<1> HIDE DEF left
<1> QED BY <1>4, <1>5, <1>6

(* A new vector has a block of the size of each of the column's, all of    *)
(* whose tuples are set.                                                   *)
LEMMA NewVectorShape ==
  ASSUME NEW num \in Nat
  PROVE  /\ NewVector(num) \in Seq(VectorBlocks)
         /\ Sizes(NewVector(num)) = SizesFor(num)
         /\ \A b \in DOMAIN NewVector(num) :
              NewVector(num)[b].bits = 0 .. NewVector(num)[b].num - 1
<1> DEFINE n == BlocksFor(num)
           after == NewVector(num)
<1>1. SizesFor(num) = [b \in 1 .. n |-> SizeAt(num, b)] /\ n \in Nat
  BY SizesShape, BlocksForNat
<1>2. after = [b \in 1 .. n |->
                 [num |-> SizeAt(num, b), bits |-> BVB!SetOnes(SizeAt(num, b))]]
  <2> HIDE DEF n
  <2> QED BY <1>1 DEF NewVector
<1>3. ASSUME NEW b \in 1 .. n
      PROVE  /\ after[b] \in VectorBlocks /\ after[b].num = SizeAt(num, b)
             /\ after[b].bits = 0 .. after[b].num - 1
  <2> DEFINE size == SizeAt(num, b)
             ones == BVB!SetOnes(size)
  <2>1. size \in 1 .. kNumTuplesPerBlock
    BY SizeBounds
  <2>2. 0 .. size - 1 \subseteq Position
    BY <2>1, Constants DEF Position
  <2>3. ones = 0 .. size - 1
    <3> HIDE DEF size
    <3>1. BVB!UnitPositions(size) \cap (0 .. size - 1) = 0 .. size - 1
      BY <2>1, Units
    <3>2. BVB!UnitPositions(size) \in SUBSET BVB!UnitPositions(size)
      OBVIOUS
    <3> QED BY <2>1, <3>1, <3>2, Cleared DEF BVB!SetOnes
  <2>4. after[b] = [num |-> size, bits |-> ones]
    <3> HIDE DEF after, n
    <3> QED BY <1>2
  <2> HIDE DEF after, size, ones
  <2>5. after[b].num = size /\ after[b].bits = ones
    BY <2>4
  <2>6. after[b] \in VectorBlocks
    BY <2>1, <2>2, <2>3, <2>4 DEF VectorBlocks
  <2> QED BY <2>3, <2>5, <2>6 DEF size
<1>4. after \in Seq(VectorBlocks) /\ Len(after) = n /\ DOMAIN after = 1 .. n
  <2>1. after \in [1 .. n -> VectorBlocks]
    <3>1. \A b \in 1 .. n : after[b] \in VectorBlocks
      BY <1>3
    <3> HIDE DEF n
    <3> QED BY <1>2, <3>1
  <2> HIDE DEF after, n
  <2> QED BY <2>1, <1>1, AsSequence
<1>5. Sizes(after) = SizesFor(num)
  <2>1. Sizes(after) = [b \in 1 .. n |-> after[b].num]
    <3> HIDE DEF after
    <3> QED BY <1>4 DEF Sizes
  <2> HIDE DEF after, n
  <2> QED BY <2>1, <1>1, <1>3
<1> QED BY <1>3, <1>4, <1>5

-----------------------------------------------------------------------------
(* What a scan does to the vector, whatever sizes it and the column have.  *)

LEMMA SessionFacts ==
  ASSUME SessionTypeOK
  PROVE  /\ blocks_ \in Seq(Blocks) /\ num_tuples_ \in Nat /\ num_ \in Nat
         /\ num_tuples_ \in 0 .. MaxTuples /\ num_ \in 0 .. MaxTuples
         /\ vector \in Seq(VectorBlocks) /\ Sizes(vector) = SizesFor(num_)
         /\ \A b \in DOMAIN vector :
              vector[b] \in VectorBlocks
              /\ vector[b].bits \subseteq BVB!UnitPositions(vector[b].num)
         /\ \A b \in DOMAIN blocks_ :
              blocks_[b] \in Blocks /\ blocks_[b].num \in 0 .. kNumTuplesPerBlock
         /\ type_ \in {"kNaive", "kByteSlicePadRight"}
         /\ other \in Seq(Blocks)
         /\ \E num \in 0 .. MaxTuples : Sizes(other) = SizesFor(num)
<1>1. /\ blocks_ \in Seq(Blocks) /\ num_tuples_ \in 0 .. MaxTuples
      /\ num_ \in 0 .. MaxTuples /\ vector \in Seq(VectorBlocks)
      /\ Sizes(vector) = SizesFor(num_)
      /\ \A b \in DOMAIN vector : vector[b].bits \subseteq BVB!UnitPositions(vector[b].num)
  BY DEF SessionTypeOK, TypeOK
<1>2. /\ \A b \in DOMAIN vector : vector[b] \in VectorBlocks
      /\ \A b \in DOMAIN blocks_ : blocks_[b] \in Blocks
  BY <1>1
<1>3. \A b \in DOMAIN blocks_ : blocks_[b].num \in 0 .. kNumTuplesPerBlock
  BY <1>2 DEF Blocks
<1>4. /\ type_ \in {"kNaive", "kByteSlicePadRight"} /\ other \in Seq(Blocks)
      /\ \E num \in 0 .. MaxTuples : Sizes(other) = SizesFor(num)
  BY SessionAssumption DEF SessionTypeOK
<1>5. num_tuples_ \in Nat /\ num_ \in Nat
  BY <1>1, Constants
<1> QED BY <1>1, <1>2, <1>3, <1>4, <1>5

(* A vector changed block by block, none of which changes its size.        *)
LEMMA VectorChanged ==
  ASSUME vector \in Seq(VectorBlocks), NEW after,
         after = [b \in DOMAIN vector |-> after[b]],
         \A b \in DOMAIN vector :
           after[b] \in VectorBlocks /\ after[b].num = vector[b].num
  PROVE  /\ after \in Seq(VectorBlocks) /\ DOMAIN after = DOMAIN vector
         /\ Sizes(after) = Sizes(vector)
<1> DEFINE n == Len(vector)
<1>1. n \in Nat /\ DOMAIN vector = 1 .. n
  OBVIOUS
<1>2. after \in [1 .. n -> VectorBlocks]
  <2> HIDE DEF n
  <2> QED BY <1>1
<1>3. after \in Seq(VectorBlocks) /\ DOMAIN after = 1 .. n
  <2> HIDE DEF n
  <2> QED BY <1>1, <1>2, AsSequence
<1>4. Sizes(after) = Sizes(vector)
  <2>1. Sizes(after) = [b \in 1 .. n |-> after[b].num]
    BY <1>3 DEF Sizes
  <2>2. Sizes(vector) = [b \in 1 .. n |-> vector[b].num]
    BY <1>1 DEF Sizes
  <2> HIDE DEF n
  <2> QED BY <2>1, <2>2, <1>1
<1> QED BY <1>1, <1>3, <1>4

(* A scan that finds a block of the vector and an operand for each of the  *)
(* column's; any other ends the program.                                   *)
Paired(operands) == DOMAIN blocks_ \subseteq DOMAIN vector \cap DOMAIN operands

LEMMA VectorScanned ==
  ASSUME SessionTypeOK, NEW cmp, NEW operands, NEW opt \in BitwiseOpt,
         ScanInto(cmp, operands, opt), Paired(operands)
  PROVE  /\ vector' \in Seq(VectorBlocks) /\ DOMAIN vector' = DOMAIN vector
         /\ Sizes(vector') = Sizes(vector)
         /\ \A b \in DOMAIN vector :
              /\ vector'[b].num = vector[b].num
              /\ vector'[b].bits \subseteq BVB!UnitPositions(vector[b].num)
         /\ \A b \in DOMAIN vector : b \notin DOMAIN blocks_ => vector'[b] = vector[b]
         /\ \A b \in DOMAIN blocks_ :
              vector'[b] = BlockScanned(blocks_[b], vector[b], cmp, operands[b], opt)
<1>1. vector' = [b \in DOMAIN vector |->
                   IF b \in DOMAIN blocks_
                   THEN BlockScanned(blocks_[b], vector[b], cmp, operands[b], opt)
                   ELSE vector[b]]
  BY DEF ScanInto, Paired
<1>2. /\ \A b \in DOMAIN vector : b \notin DOMAIN blocks_ => vector'[b] = vector[b]
      /\ \A b \in DOMAIN blocks_ :
           vector'[b] = BlockScanned(blocks_[b], vector[b], cmp, operands[b], opt)
  BY <1>1 DEF Paired
<1>3. ASSUME NEW b \in DOMAIN vector
      PROVE  /\ vector'[b] \in VectorBlocks /\ vector'[b].num = vector[b].num
             /\ vector'[b].bits \subseteq BVB!UnitPositions(vector[b].num)
  <2>1. CASE b \in DOMAIN blocks_
    <3>1. /\ blocks_[b] \in Blocks /\ vector[b] \in VectorBlocks
          /\ vector[b].bits \subseteq BVB!UnitPositions(vector[b].num)
          /\ type_ \in {"kNaive", "kByteSlicePadRight"}
      BY <2>1, SessionFacts
    <3> DEFINE after == BlockScanned(blocks_[b], vector[b], cmp, operands[b], opt)
    <3>2. /\ after \in VectorBlocks /\ after.num = vector[b].num
          /\ after.bits \subseteq BVB!UnitPositions(vector[b].num)
      BY <3>1, BlockAnswered DEF Kept
    <3> QED BY <3>2, <2>1, <1>2
  <2>2. CASE b \notin DOMAIN blocks_
    BY <2>2, <1>2, SessionFacts
  <2> QED BY <2>1, <2>2
<1>4. vector' = [b \in DOMAIN vector |-> vector'[b]] /\ vector \in Seq(VectorBlocks)
  BY <1>1, SessionFacts
<1>5. /\ vector' \in Seq(VectorBlocks) /\ DOMAIN vector' = DOMAIN vector
      /\ Sizes(vector') = Sizes(vector)
  BY <1>3, <1>4, VectorChanged
<1> QED BY <1>2, <1>3, <1>5

(* A tuple that the column and the vector have is answered for.            *)
LEMMA TupleScanned ==
  ASSUME SessionTypeOK, NEW cmp, NEW operands, NEW opt \in BitwiseOpt,
         ScanInto(cmp, operands, opt), Paired(operands),
         NEW id \in 0 .. num_ - 1, id \in Held(blocks_)
  PROVE  VectorBit(id)' <=>
           Combine(opt, VectorBit(id),
                   Compare(cmp, GetTuple(id), operands[BlockOf(id)][PosOf(id)]))
<1> DEFINE b == BlockOf(id)
           p == PosOf(id)
<1>1. /\ b \in DOMAIN blocks_ /\ p \in Position /\ p < blocks_[b].num
      /\ blocks_[b].num \in 0 .. kNumTuplesPerBlock
  <2>1. blocks_ \in Seq(Blocks)
    BY SessionFacts
  <2>2. b \in DOMAIN blocks_ /\ p \in Position /\ p < blocks_[b].num
    BY <2>1, HeldPlace
  <2> QED BY <2>2, SessionFacts
<1>2. b \in DOMAIN vector /\ p \in 0 .. vector[b].num - 1
  <2>1. vector \in Seq(VectorBlocks) /\ num_ \in Nat /\ Sizes(vector) = SizesFor(num_)
    BY SessionFacts
  <2> QED BY <2>1, HeldExact
<1>3. p < Visited(blocks_[b].num)
  <2>1. p \in Nat
    BY <1>1 DEF Position
  <2> QED BY <2>1, <1>1, VisitedCovers
<1>4. vector'[b] = BlockScanned(blocks_[b], vector[b], cmp, operands[b], opt)
  BY <1>1, VectorScanned
<1>5. p \in vector'[b].bits <=>
        Combine(opt, p \in vector[b].bits,
                /\ Compare(cmp, blocks_[b].data[p], operands[b][p])
                /\ type_ = "kNaive" => p < blocks_[b].num)
  <2>1. /\ blocks_[b] \in Blocks /\ vector[b] \in VectorBlocks
        /\ vector[b].bits \subseteq BVB!UnitPositions(vector[b].num)
        /\ type_ \in {"kNaive", "kByteSlicePadRight"}
    BY <1>1, <1>2, SessionFacts
  <2> HIDE DEF b, p
  <2>2. Answers(vector'[b], blocks_[b], vector[b], cmp, operands[b], opt)
    BY <2>1, <1>4, BlockAnswered
  <2> QED BY <2>2, <1>2, <1>3 DEF Answers, HitAt
<1>6. VectorBit(id) <=> p \in vector[b].bits
  BY DEF VectorBit
<1>7. VectorBit(id)' <=> p \in vector'[b].bits
  BY DEF VectorBit
<1>8. GetTuple(id) = blocks_[b].data[p]
  BY DEF GetTuple
<1> HIDE DEF b, p
<1>9. Combine(opt, p \in vector[b].bits,
              /\ Compare(cmp, blocks_[b].data[p], operands[b][p])
              /\ type_ = "kNaive" => p < blocks_[b].num)
      <=> Combine(opt, VectorBit(id), Compare(cmp, blocks_[b].data[p], operands[b][p]))
  BY <1>1, <1>6 DEF Combine, BitwiseOpt
<1> QED BY <1>5, <1>7, <1>8, <1>9 DEF b, p

(* A tuple that the column has lost is given a bit by ByteSlice alone, in  *)
(* the last word it visits.                                                *)
LEMMA LostTupleScanned ==
  ASSUME SessionTypeOK, NEW cmp, NEW operands, NEW opt \in BitwiseOpt,
         ScanInto(cmp, operands, opt), Paired(operands),
         NEW id \in 0 .. num_ - 1, id \notin Held(blocks_),
         ~VectorBit(id), VectorBit(id)'
  PROVE  /\ type_ = "kByteSlicePadRight"
         /\ PosOf(id) < Visited(blocks_[BlockOf(id)].num)
<1> DEFINE b == BlockOf(id)
           p == PosOf(id)
<1>1. b \in DOMAIN vector /\ p \in 0 .. vector[b].num - 1
  <2>1. vector \in Seq(VectorBlocks) /\ num_ \in Nat /\ Sizes(vector) = SizesFor(num_)
    BY SessionFacts
  <2> QED BY <2>1, HeldExact
<1>2. p \notin vector[b].bits /\ p \in vector'[b].bits
  BY DEF VectorBit
<1>3. b \in DOMAIN blocks_
  BY <1>1, <1>2, VectorScanned
<1>4. ~(p < blocks_[b].num)
  <2>1. Len(blocks_) \in Nat /\ DOMAIN blocks_ = 1 .. Len(blocks_)
    BY SessionFacts
  <2>2. id \in Nat /\ p \in 0 .. kNumTuplesPerBlock - 1 /\ kNumTuplesPerBlock \in Nat
        /\ id = kNumTuplesPerBlock * (b - 1) + p
    <3>1. id \in Nat
      BY SessionFacts
    <3> QED BY <3>1, PlaceOfAny, Constants DEF Position
  <2>3. id \in 0 .. Len(blocks_) * kNumTuplesPerBlock - 1
    <3> DEFINE n == Len(blocks_)
    <3>1. n \in Nat /\ b \in 1 .. n
      BY <1>3, <2>1
    <3> HIDE DEF n, b, p
    <3>2. kNumTuplesPerBlock * (b - 1) + kNumTuplesPerBlock <= n * kNumTuplesPerBlock
      BY <2>2, <3>1
    <3>3. id \in 0 .. n * kNumTuplesPerBlock - 1
      BY <2>2, <3>1, <3>2
    <3> QED BY <3>3 DEF n
  <2> QED BY <2>3 DEF Held
<1>5. Answers(vector'[b], blocks_[b], vector[b], cmp, operands[b], opt)
  <2>1. /\ blocks_[b] \in Blocks /\ vector[b] \in VectorBlocks
        /\ vector[b].bits \subseteq BVB!UnitPositions(vector[b].num)
        /\ type_ \in {"kNaive", "kByteSlicePadRight"}
    BY <1>1, <1>3, SessionFacts
  <2>2. vector'[b] = BlockScanned(blocks_[b], vector[b], cmp, operands[b], opt)
    BY <1>3, VectorScanned
  <2> HIDE DEF b, p
  <2> QED BY <2>1, <2>2, BlockAnswered
<1>6. p < Visited(blocks_[b].num)
      /\ Combine(opt, p \in vector[b].bits, HitAt(blocks_[b], cmp, operands[b], p))
  <2> HIDE DEF b, p
  <2> QED BY <1>1, <1>2, <1>5 DEF Answers
<1>7. HitAt(blocks_[b], cmp, operands[b], p)
  <2> HIDE DEF b, p
  <2> QED BY <1>2, <1>6 DEF Combine, BitwiseOpt
<1>8. type_ # "kNaive"
  BY <1>4, <1>7 DEF HitAt
<1> QED BY <1>6, <1>8, SessionFacts

(* A scan of a column that no block of the vector is smaller than keeps    *)
(* the tails clean; of ByteSlice any does.                                 *)
LEMMA TailsScanned ==
  ASSUME SessionTypeOK, NEW cmp, NEW operands, NEW opt \in BitwiseOpt,
         ScanInto(cmp, operands, opt), Paired(operands), TailsClean,
         type_ = "kNaive" => \A b \in DOMAIN blocks_ : ~(blocks_[b].num > vector[b].num)
  PROVE  TailsClean'
<1> SUFFICES ASSUME NEW b \in DOMAIN vector
             PROVE  vector'[b].bits \subseteq 0 .. vector[b].num - 1
  BY VectorScanned DEF TailsClean
<1>1. vector[b].bits \subseteq 0 .. vector[b].num - 1
  BY DEF TailsClean
<1>2. CASE b \notin DOMAIN blocks_
  BY <1>1, <1>2, VectorScanned
<1>3. CASE b \in DOMAIN blocks_
  <2>1. /\ blocks_[b] \in Blocks /\ vector[b] \in VectorBlocks
        /\ vector[b].bits \subseteq BVB!UnitPositions(vector[b].num)
        /\ type_ \in {"kNaive", "kByteSlicePadRight"}
        /\ blocks_[b].num \in 0 .. kNumTuplesPerBlock
    BY <1>3, SessionFacts
  <2>2. vector'[b] = BlockScanned(blocks_[b], vector[b], cmp, operands[b], opt)
    BY <1>3, VectorScanned
  <2>3. PastTuples(vector'[b], blocks_[b], vector[b])
        /\ Kept(vector'[b], vector[b])
    BY <2>1, <2>2, BlockAnswered
  <2>4. CASE type_ = "kNaive"
    <3> SUFFICES ASSUME NEW p \in vector'[b].bits
                 PROVE  p \in 0 .. vector[b].num - 1
      OBVIOUS
    <3>1. p \in vector[b].bits \/ p < blocks_[b].num
      BY <2>3, <2>4 DEF PastTuples
    <3>2. vector[b].num \in 1 .. kNumTuplesPerBlock
      BY <2>1, VectorBlockType
    <3>3. p \in Position
      BY <2>3, <3>2, Units DEF Kept
    <3>4. ~(blocks_[b].num > vector[b].num)
      BY <1>3, <2>4
    <3> QED BY <1>1, <2>1, <3>1, <3>2, <3>3, <3>4, Constants DEF Position
  <2>5. CASE type_ = "kByteSlicePadRight"
    BY <2>3, <2>5 DEF PastTuples
  <2> QED BY <2>1, <2>4, <2>5
<1> QED BY <1>2, <1>3

(* No tuple the blocks hold is beyond the last that any column may have.   *)
LEMMA HeldBounded ==
  ASSUME SessionTypeOK, BlocksBounded
  PROVE  Held(blocks_) \subseteq 0 .. MaxTuples + kNumTuplesPerBlock - 1
<1> DEFINE k == kNumTuplesPerBlock
           n == Len(blocks_)
           full == MaxTuples \div k
           rest == MaxTuples % k
<1> SUFFICES ASSUME NEW id \in Held(blocks_)
             PROVE  id \in 0 .. MaxTuples + kNumTuplesPerBlock - 1
  OBVIOUS
<1>1. MaxTuples \in Nat /\ k \in Nat \ {0}
  BY Constants
<1>2. full \in Nat /\ rest \in 0 .. k - 1 /\ MaxTuples = k * full + rest
  BY <1>1, BlocksForNat DEF Position
<1>3. n \in Nat /\ n <= full + (IF rest > 0 THEN 1 ELSE 0)
  BY SessionFacts DEF BlocksBounded, BlocksFor
<1>4. id \in Nat /\ id < n * k
  <2>1. blocks_ \in Seq(Blocks)
    BY SessionFacts
  <2> QED BY <2>1, HeldPlace
<1> HIDE DEF full, rest, n, k
<1>5. n * k <= MaxTuples + k - 1
  <2>1. CASE rest > 0
    <3>1. n * k <= (full + 1) * k /\ (full + 1) * k = k * full + k
      BY <2>1, <1>1, <1>2, <1>3
    <3> QED BY <3>1, <2>1, <1>1, <1>2, <1>3
  <2>2. CASE rest = 0
    <3>1. n * k <= full * k /\ full * k = k * full
      BY <2>2, <1>1, <1>2, <1>3
    <3> QED BY <3>1, <2>2, <1>1, <1>2, <1>3
  <2> QED BY <2>1, <2>2, <1>2
<1> QED BY <1>1, <1>3, <1>4, <1>5 DEF k

-----------------------------------------------------------------------------
(* What And and Or do to the vector.                                       *)

OtherBlocks == [num : 0 .. kNumTuplesPerBlock, bits : SUBSET Nat]

LEMMA OtherShape ==
  ASSUME SessionTypeOK, NEW cmp, NEW literal
  PROVE  /\ OtherVector(cmp, literal) \in Seq(OtherBlocks)
         /\ Sizes(OtherVector(cmp, literal)) = Sizes(other)
<1> DEFINE n == Len(other)
           with == OtherVector(cmp, literal)
<1>1. other \in Seq(Blocks) /\ n \in Nat /\ DOMAIN other = 1 .. n
  BY SessionFacts
<1>2. ASSUME NEW b \in 1 .. n
      PROVE  with[b] \in OtherBlocks /\ with[b].num = other[b].num
  <2> DEFINE bits == {p \in 0 .. other[b].num - 1 : Compare(cmp, other[b].data[p], literal)}
  <2>1. with[b] = [num |-> other[b].num, bits |-> bits]
    <3> HIDE DEF n
    <3> QED BY <1>1 DEF OtherVector
  <2>2. other[b].num \in 0 .. kNumTuplesPerBlock
    <3>1. other[b] \in Blocks
      BY <1>1
    <3> QED BY <3>1 DEF Blocks
  <2>3. bits \in SUBSET Nat
    <3>1. 0 .. other[b].num - 1 \subseteq Nat
      BY <2>2, Constants
    <3> QED BY <3>1
  <2> HIDE DEF bits, with, n
  <2> QED BY <2>1, <2>2, <2>3 DEF OtherBlocks
<1>3. with \in [1 .. n -> OtherBlocks]
  <2>1. DOMAIN with = 1 .. n /\ with = [b \in 1 .. n |-> with[b]]
    <3> HIDE DEF n
    <3> QED BY <1>1 DEF OtherVector
  <2> HIDE DEF with, n
  <2> QED BY <1>2, <2>1
<1>4. with \in Seq(OtherBlocks) /\ DOMAIN with = 1 .. n
  <2> HIDE DEF with, n
  <2> QED BY <1>1, <1>3, AsSequence
<1>5. Sizes(with) = Sizes(other)
  <2>1. Sizes(with) = [b \in 1 .. n |-> with[b].num]
    <3> HIDE DEF with, n
    <3> QED BY <1>4 DEF Sizes
  <2>2. Sizes(other) = [b \in 1 .. n |-> other[b].num]
    <3> HIDE DEF n
    <3> QED BY <1>1 DEF Sizes
  <2> HIDE DEF with, n
  <2> QED BY <1>2, <2>1, <2>2
<1> QED BY <1>4, <1>5

LEMMA VectorCombined ==
  ASSUME SessionTypeOK, NEW with \in Seq(OtherBlocks), NEW num \in Nat,
         Sizes(with) = SizesFor(num), NEW rest, NEW opt \in {"kAnd", "kOr"},
         DOMAIN vector \subseteq DOMAIN with,
         vector' = [b \in DOMAIN vector |-> BlockCombined(vector[b], with[b], rest, opt)]
  PROVE  /\ vector' \in Seq(VectorBlocks) /\ DOMAIN vector' = DOMAIN vector
         /\ Sizes(vector') = Sizes(vector)
         /\ \A b \in DOMAIN vector :
              /\ vector'[b].num = vector[b].num
              /\ vector'[b].bits \subseteq 0 .. vector[b].num - 1
         /\ \A id \in 0 .. num_ - 1 : id \in Held(with) =>
              (VectorBit(id)' <=>
                 Combine(opt, VectorBit(id), PosOf(id) \in with[BlockOf(id)].bits))
<1>1. \A b \in DOMAIN with : with[b].num \in 1 .. kNumTuplesPerBlock
  BY SizesOf
<1>2. ASSUME NEW b \in DOMAIN vector
      PROVE  /\ vector'[b] \in VectorBlocks /\ vector'[b].num = vector[b].num
             /\ vector'[b].bits \subseteq 0 .. vector[b].num - 1
             /\ \A p \in 0 .. vector[b].num - 1 : p < with[b].num =>
                  (p \in vector'[b].bits <=>
                     Combine(opt, p \in vector[b].bits, p \in with[b].bits))
  <2>1. /\ vector[b] \in VectorBlocks /\ with[b].num \in 1 .. kNumTuplesPerBlock
        /\ vector[b].bits \subseteq BVB!UnitPositions(vector[b].num)
    BY <1>1, SessionFacts
  <2>2. vector'[b] = BlockCombined(vector[b], with[b], rest, opt)
    OBVIOUS
  <2> QED BY <2>1, <2>2, BlocksCombined
<1>3. vector' = [b \in DOMAIN vector |-> vector'[b]] /\ vector \in Seq(VectorBlocks)
  BY SessionFacts
<1>4. /\ vector' \in Seq(VectorBlocks) /\ DOMAIN vector' = DOMAIN vector
      /\ Sizes(vector') = Sizes(vector)
  BY <1>2, <1>3, VectorChanged
<1>5. ASSUME NEW id \in 0 .. num_ - 1, id \in Held(with)
      PROVE  VectorBit(id)' <=>
               Combine(opt, VectorBit(id), PosOf(id) \in with[BlockOf(id)].bits)
  <2> DEFINE b == BlockOf(id)
             p == PosOf(id)
  <2>1. b \in DOMAIN vector /\ p \in 0 .. vector[b].num - 1
    <3>1. vector \in Seq(VectorBlocks) /\ num_ \in Nat /\ Sizes(vector) = SizesFor(num_)
      BY SessionFacts
    <3> QED BY <3>1, HeldExact
  <2>2. p < with[b].num
    BY <1>5, HeldPlace
  <2>3. /\ VectorBit(id) <=> p \in vector[b].bits
        /\ VectorBit(id)' <=> p \in vector'[b].bits
    BY DEF VectorBit
  <2> HIDE DEF b, p
  <2>4. p \in vector'[b].bits <=>
          Combine(opt, p \in vector[b].bits, p \in with[b].bits)
    BY <1>2, <2>1, <2>2
  <2>5. Combine(opt, p \in vector[b].bits, p \in with[b].bits)
          <=> Combine(opt, VectorBit(id), p \in with[b].bits)
    BY <2>3 DEF Combine
  <2> QED BY <2>3, <2>4, <2>5 DEF b, p
<1> QED BY <1>2, <1>4, <1>5

-----------------------------------------------------------------------------
(* The invariant.                                                          *)

(* A scan, an And or an Or leaves the column, or ends the program.         *)
LEMMA ColumnStill ==
  ASSUME ColumnInv, load = NoLoad, BlocksBounded,
         UNCHANGED <<num_tuples_, blocks_, file, load, scanned>>,
         status' = status \/ status' = "undefined"
  PROVE  (ColumnInv /\ load = NoLoad /\ BlocksBounded)'
<1>1. TypeOK'
  BY DEF ColumnInv, TypeOK
<1>2. EnoughBlocks'
  BY DEF ColumnInv, EnoughBlocks
<1> QED BY <1>1, <1>2 DEF ColumnInv, LoadOK, BlocksBounded

(* A step that leaves the vector and its history.                          *)
LEMMA VectorStill ==
  ASSUME SessionInv, UNCHANGED session_vars, TypeOK'
  PROVE  (SessionTypeOK /\ StaleVectorExact /\ FitsOK)'
<1>1. SessionTypeOK'
  BY DEF SessionInv, SessionTypeOK, session_vars
<1>2. StaleVectorExact'
  BY DEF SessionInv, StaleVectorExact, VectorBit, session_vars
<1>3. FitsOK'
  BY DEF SessionInv, FitsOK, TailsClean, session_vars
<1> QED BY <1>1, <1>2, <1>3

LEMMA ScanInv ==
  ASSUME SessionInv, NEW cmp, NEW operands, NEW opt \in BitwiseOpt,
         ScanInto(cmp, operands, opt)
  PROVE  SessionInv'
<1>1. /\ SessionTypeOK /\ StaleVectorExact /\ FitsOK /\ BlocksBounded
      /\ UNCHANGED <<num_tuples_, blocks_, file, load, scanned, type_, other, num_>>
  BY DEF SessionInv, ScanInto
<1>2. status' = status \/ status' = "undefined"
  BY DEF ScanInto
<1>3. (ColumnInv /\ load = NoLoad /\ BlocksBounded)'
  BY <1>1, <1>2, ColumnStill DEF SessionInv
<1>4. TypeOK'
  BY <1>3 DEF ColumnInv
<1>5. CASE ~Paired(operands)
  <2>1. UNCHANGED session_vars
    BY <1>1, <1>5 DEF ScanInto, Paired, session_vars
  <2> QED BY <2>1, <1>3, <1>4, VectorStill DEF SessionInv
<1>6. CASE Paired(operands)
  <2>1. /\ asked' = {id \in Held(blocks_) : Combine(opt, id \in asked,
             Compare(cmp, GetTuple(id), operands[BlockOf(id)][PosOf(id)]))}
        /\ covered' = covered \cap Held(blocks_)
        /\ fits' = (fits /\ Layout /\ num_tuples_ = num_)
    BY <1>6 DEF ScanInto, Paired
  <2>2. covered \subseteq 0 .. num_ - 1 /\ fits \in BOOLEAN
    BY <1>1 DEF SessionTypeOK
  <2>3. SessionTypeOK'
    <3>1. type_ \in ColumnTypes /\ other \in Others /\ num_ \in 0 .. MaxTuples
      BY <1>1 DEF SessionTypeOK
    <3>2. /\ vector' \in Seq(VectorBlocks) /\ Sizes(vector') = SizesFor(num_)
          /\ \A b \in DOMAIN vector' :
               vector'[b].bits \subseteq BVB!UnitPositions(vector'[b].num)
      BY <1>1, <1>6, VectorScanned, SessionFacts
    <3>3. asked' \subseteq 0 .. MaxTuples + kNumTuplesPerBlock - 1
      BY <1>1, <2>1, HeldBounded
    <3>4. covered' \subseteq 0 .. num_ - 1 /\ fits' \in BOOLEAN
      BY <2>1, <2>2
    <3> QED BY <1>1, <1>4, <3>1, <3>2, <3>3, <3>4 DEF SessionTypeOK
  <2>4. StaleVectorExact'
    <3> SUFFICES ASSUME NEW id \in covered' PROVE VectorBit(id)' <=> id \in asked'
      BY DEF StaleVectorExact
    <3>1. id \in covered /\ id \in Held(blocks_) /\ id \in 0 .. num_ - 1
      BY <2>1, <2>2
    <3> DEFINE hit == Compare(cmp, GetTuple(id), operands[BlockOf(id)][PosOf(id)])
    <3>2. VectorBit(id)' <=> Combine(opt, VectorBit(id), hit)
      BY <1>1, <1>6, <3>1, TupleScanned
    <3>3. id \in asked' <=> Combine(opt, id \in asked, hit)
      BY <2>1, <3>1
    <3>4. VectorBit(id) <=> id \in asked
      BY <1>1, <3>1 DEF StaleVectorExact
    <3> HIDE DEF hit
    <3> QED BY <3>2, <3>3, <3>4 DEF Combine, BitwiseOpt
  <2>5. FitsOK'
    <3> SUFFICES ASSUME fits'
                 PROVE  /\ TailsClean' /\ covered' = 0 .. num_ - 1
                        /\ asked' \subseteq covered'
      BY <1>1 DEF FitsOK
    <3>1. fits /\ Layout /\ num_tuples_ = num_
      BY <2>1
    <3>2. TailsClean /\ covered = 0 .. num_ - 1
      BY <1>1, <3>1 DEF FitsOK
    <3>3. /\ blocks_ \in Seq(Blocks) /\ vector \in Seq(VectorBlocks) /\ num_ \in Nat
          /\ Sizes(blocks_) = SizesFor(num_) /\ Sizes(vector) = SizesFor(num_)
      BY <1>1, <3>1, SessionFacts DEF Layout
    <3>4. Held(blocks_) = 0 .. num_ - 1
      BY <3>3, HeldExact
    <3>5. covered' = 0 .. num_ - 1 /\ asked' \subseteq covered'
      BY <2>1, <3>2, <3>4
    <3>6. ASSUME NEW b \in DOMAIN blocks_ PROVE ~(blocks_[b].num > vector[b].num)
      <4>1. b \in DOMAIN vector
        BY <1>6 DEF Paired
      <4>2. blocks_[b].num = SizeAt(num_, b) /\ blocks_[b].num \in 1 .. kNumTuplesPerBlock
        BY <3>3, SizesOf
      <4>3. vector[b].num = SizeAt(num_, b)
        BY <3>3, <4>1, SizesOf
      <4> QED BY <4>2, <4>3, Constants
    <3>7. TailsClean'
      BY <1>1, <1>6, <3>2, <3>6, TailsScanned
    <3> QED BY <3>5, <3>7
  <2> QED BY <1>3, <2>3, <2>4, <2>5 DEF SessionInv
<1> QED BY <1>5, <1>6

LEMMA AndOrInv ==
  ASSUME SessionInv, AndOr
  PROVE  SessionInv'
<1>1. /\ SessionTypeOK /\ StaleVectorExact /\ FitsOK /\ BlocksBounded
      /\ UNCHANGED <<num_tuples_, blocks_, file, load, scanned, type_, other, num_>>
  BY DEF SessionInv, AndOr
<1>2. PICK cmp \in Comparators, literal \in Literals, opt \in {"kAnd", "kOr"} :
        IF DOMAIN vector \subseteq DOMAIN OtherVector(cmp, literal)
        THEN /\ \E rest \in SUBSET Unwritten(
                    OtherVector(cmp, literal)[Len(OtherVector(cmp, literal))].num) :
                  vector' = [b \in DOMAIN vector |->
                    BlockCombined(vector[b], OtherVector(cmp, literal)[b], rest, opt)]
             /\ covered' = covered \cap Held(OtherVector(cmp, literal))
             /\ asked' = {id \in Held(OtherVector(cmp, literal)) :
                  Combine(opt, id \in asked,
                          PosOf(id) \in OtherVector(cmp, literal)[BlockOf(id)].bits)}
             /\ fits' = (fits /\ Cardinality(Held(OtherVector(cmp, literal))) = num_)
             /\ UNCHANGED status
        ELSE status' = "undefined" /\ UNCHANGED <<vector, asked, covered, fits>>
  BY DEF AndOr
<1> DEFINE with == OtherVector(cmp, literal)
<1>3. status' = status \/ status' = "undefined"
  BY <1>2
<1>4. (ColumnInv /\ load = NoLoad /\ BlocksBounded)'
  BY <1>1, <1>3, ColumnStill DEF SessionInv
<1>5. TypeOK'
  BY <1>4 DEF ColumnInv
<1>6. CASE ~(DOMAIN vector \subseteq DOMAIN with)
  <2>1. UNCHANGED session_vars
    BY <1>1, <1>2, <1>6 DEF session_vars
  <2> QED BY <2>1, <1>4, <1>5, VectorStill DEF SessionInv
<1>7. CASE DOMAIN vector \subseteq DOMAIN with
  <2>1. PICK rest : vector' = [b \in DOMAIN vector |->
                                 BlockCombined(vector[b], with[b], rest, opt)]
    BY <1>2, <1>7
  <2>2. /\ covered' = covered \cap Held(with)
        /\ asked' = {id \in Held(with) :
             Combine(opt, id \in asked, PosOf(id) \in with[BlockOf(id)].bits)}
        /\ fits' = (fits /\ Cardinality(Held(with)) = num_)
    BY <1>2, <1>7
  <2>3. PICK num \in 0 .. MaxTuples : Sizes(other) = SizesFor(num)
    BY <1>1, SessionFacts
  <2>4. with \in Seq(OtherBlocks) /\ Sizes(with) = SizesFor(num) /\ num \in Nat
    BY <1>1, <2>3, OtherShape, Constants
  <2> HIDE DEF with
  <2>5. Held(with) = 0 .. num - 1
    BY <2>4, HeldExact
  <2>6. covered \subseteq 0 .. num_ - 1 /\ fits \in BOOLEAN
    BY <1>1 DEF SessionTypeOK
  <2>7. /\ vector' \in Seq(VectorBlocks) /\ DOMAIN vector' = DOMAIN vector
        /\ Sizes(vector') = Sizes(vector)
        /\ \A b \in DOMAIN vector :
             /\ vector'[b].num = vector[b].num
             /\ vector'[b].bits \subseteq 0 .. vector[b].num - 1
        /\ \A id \in 0 .. num_ - 1 : id \in Held(with) =>
             (VectorBit(id)' <=>
                Combine(opt, VectorBit(id), PosOf(id) \in with[BlockOf(id)].bits))
    BY <1>1, <1>7, <2>1, <2>4, VectorCombined
  <2>8. SessionTypeOK'
    <3>1. type_ \in ColumnTypes /\ other \in Others /\ num_ \in 0 .. MaxTuples
      BY <1>1 DEF SessionTypeOK
    <3>2. Sizes(vector') = SizesFor(num_)
      BY <1>1, <2>7, SessionFacts
    <3>3. ASSUME NEW b \in DOMAIN vector'
          PROVE  vector'[b].bits \subseteq BVB!UnitPositions(vector'[b].num)
      <4>1. b \in DOMAIN vector /\ vector[b].num \in 1 .. kNumTuplesPerBlock
        BY <1>1, <2>7, SessionFacts, VectorBlockType
      <4>2. 0 .. vector[b].num - 1 \subseteq BVB!UnitPositions(vector[b].num)
        BY <4>1, Units
      <4> QED BY <2>7, <4>1, <4>2
    <3>4. asked' \subseteq 0 .. MaxTuples + kNumTuplesPerBlock - 1
      <4>1. 0 .. num - 1 \subseteq 0 .. MaxTuples + kNumTuplesPerBlock - 1
        BY <2>3, Constants
      <4> QED BY <2>2, <2>5, <4>1
    <3>5. covered' \subseteq 0 .. num_ - 1 /\ fits' \in BOOLEAN
      BY <2>2, <2>6
    <3> QED BY <1>1, <1>5, <2>7, <3>1, <3>2, <3>3, <3>4, <3>5 DEF SessionTypeOK
  <2>9. StaleVectorExact'
    <3> SUFFICES ASSUME NEW id \in covered' PROVE VectorBit(id)' <=> id \in asked'
      BY DEF StaleVectorExact
    <3>1. id \in covered /\ id \in Held(with) /\ id \in 0 .. num_ - 1
      BY <2>2, <2>6
    <3> DEFINE hit == PosOf(id) \in with[BlockOf(id)].bits
    <3>2. VectorBit(id)' <=> Combine(opt, VectorBit(id), hit)
      BY <2>7, <3>1
    <3>3. id \in asked' <=> Combine(opt, id \in asked, hit)
      BY <2>2, <3>1
    <3>4. VectorBit(id) <=> id \in asked
      BY <1>1, <3>1 DEF StaleVectorExact
    <3> HIDE DEF hit
    <3> QED BY <3>2, <3>3, <3>4 DEF Combine
  <2>10. FitsOK'
    <3> SUFFICES ASSUME fits'
                 PROVE  /\ TailsClean' /\ covered' = 0 .. num_ - 1
                        /\ asked' \subseteq covered'
      BY <1>1 DEF FitsOK
    <3>1. fits /\ Cardinality(Held(with)) = num_
      BY <2>2
    <3>2. covered = 0 .. num_ - 1
      BY <1>1, <3>1 DEF FitsOK
    <3>3. num_ = num
      <4>1. Cardinality(0 .. num - 1) = IF 0 > num - 1 THEN 0 ELSE num - 1 - 0 + 1
        BY <2>4, FS_Interval
      <4> QED BY <2>4, <2>5, <3>1, <4>1
    <3>4. TailsClean'
      BY <2>7 DEF TailsClean
    <3> QED BY <2>2, <2>5, <3>2, <3>3, <3>4
  <2> QED BY <1>4, <2>8, <2>9, <2>10 DEF SessionInv
<1> QED BY <1>6, <1>7

(* The vector is one just made for the column.                             *)
VectorMade ==
  /\ TypeOK /\ type_ \in ColumnTypes /\ other \in Others
  /\ num_ = num_tuples_ /\ vector = NewVector(num_tuples_) /\ fits = TRUE
  /\ asked = 0 .. num_tuples_ - 1 /\ covered = 0 .. num_tuples_ - 1

LEMMA NewVectorOK == VectorMade => SessionTypeOK /\ StaleVectorExact /\ FitsOK
<1> SUFFICES ASSUME VectorMade PROVE SessionTypeOK /\ StaleVectorExact /\ FitsOK
  OBVIOUS
<1> USE DEF VectorMade
<1>1. num_ \in Nat /\ num_ \in 0 .. MaxTuples
  BY Constants DEF TypeOK
<1>2. /\ vector \in Seq(VectorBlocks) /\ Sizes(vector) = SizesFor(num_)
      /\ \A b \in DOMAIN vector : vector[b].bits = 0 .. vector[b].num - 1
  BY <1>1, NewVectorShape
<1>3. \A b \in DOMAIN vector : vector[b].bits \subseteq BVB!UnitPositions(vector[b].num)
  <2> SUFFICES ASSUME NEW b \in DOMAIN vector
               PROVE  vector[b].bits \subseteq BVB!UnitPositions(vector[b].num)
    OBVIOUS
  <2>1. vector[b].num \in 1 .. kNumTuplesPerBlock
    BY <1>2, VectorBlockType
  <2> QED BY <1>2, <2>1, Units
<1>4. SessionTypeOK
  <2>1. asked \subseteq 0 .. MaxTuples + kNumTuplesPerBlock - 1
    BY <1>1, Constants
  <2> QED BY <1>1, <1>2, <1>3, <2>1 DEF SessionTypeOK
<1>5. StaleVectorExact
  BY <1>1, <1>2, HeldExact DEF StaleVectorExact, VectorBit
<1>6. FitsOK
  BY <1>2 DEF FitsOK, TailsClean
<1> QED BY <1>4, <1>5, <1>6

(* More tuples ask for no fewer blocks.                                    *)
LEMMA MoreBlocks ==
  ASSUME NEW num \in 1 .. MaxTuples
  PROVE  /\ BlocksFor(num) <= BlocksFor(MaxTuples)
         /\ BlocksFor(num) \in Nat /\ BlocksFor(MaxTuples) \in Nat
<1> DEFINE n == BlocksFor(num)
           m == BlocksFor(MaxTuples)
<1>1. MaxTuples \in Nat /\ num \in Nat /\ num - 1 \in 0 .. MaxTuples - 1
  BY Constants
<1>2. n \in Nat /\ m \in Nat
  BY <1>1, BlocksForNat
<1>3. MaxTuples \in 1 .. SizeRange - 1 /\ num \in 1 .. SizeRange - 1
      /\ MaxTuples \in 1 .. MaxTuples
  BY <1>1, Constants
<1>4. kNumTuplesPerBlock * (n - 1) < num /\ MaxTuples <= kNumTuplesPerBlock * m
  BY <1>3, Constants, BlocksAskedFor, CeilExact
<1> HIDE DEF n, m
<1>5. kNumTuplesPerBlock * (n - 1) < kNumTuplesPerBlock * m
  BY <1>1, <1>2, <1>4, Constants
<1>6. n - 1 < m
  BY <1>2, <1>5, Constants
<1>7. n <= m
  BY <1>2, <1>6
<1> QED BY <1>2, <1>7 DEF n, m

LEMMA MakeVectorInv ==
  ASSUME SessionInv, MakeVector
  PROVE  SessionInv'
<1>1. /\ UNCHANGED <<num_tuples_, blocks_, status, file, load, scanned, type_, other>>
      /\ num_' = num_tuples_ /\ vector' = NewVector(num_tuples_) /\ fits' = TRUE
      /\ asked' = 0 .. num_tuples_ - 1 /\ covered' = 0 .. num_tuples_ - 1
  BY DEF MakeVector, vars
<1>2. (ColumnInv /\ load = NoLoad /\ BlocksBounded)'
  BY <1>1, ColumnStill DEF SessionInv
<1>3. VectorMade'
  <2>1. type_ \in ColumnTypes /\ other \in Others
    BY DEF SessionInv, SessionTypeOK
  <2>2. NewVector(num_tuples_)' = NewVector(num_tuples_)
    BY <1>1 DEF NewVector
  <2> QED BY <1>1, <1>2, <2>1, <2>2 DEF VectorMade, ColumnInv
<1>4. VectorMade' => (SessionTypeOK /\ StaleVectorExact /\ FitsOK)'
  BY NewVectorOK, PTL
<1> QED BY <1>2, <1>3, <1>4 DEF SessionInv

(* Of the column's own calls the session makes two.                        *)
LEMMA ColumnCallInv ==
  ASSUME SessionInv, LoadTextFile \/ Resize, UNCHANGED session_vars
  PROVE  SessionInv'
<1>1. ColumnInv /\ BlocksBounded /\ load = NoLoad /\ TypeOK /\ blocks_ \in Seq(Blocks)
  BY DEF SessionInv, ColumnInv, TypeOK
<1>2. ColumnInv' /\ load' = NoLoad
  <2>1. Next
    BY DEF Next
  <2> QED BY <1>1, <2>1, NextColumnInv DEF LoadTextFile, Resize
<1>3. BlocksBounded'
  <2>1. CASE LoadTextFile
    BY <1>1, <2>1, LoadTextFileStep DEF BlocksBounded
  <2>2. CASE Resize
    <3>1. CASE UNCHANGED blocks_
      BY <1>1, <3>1 DEF BlocksBounded
    <3>2. CASE /\ num_tuples_' \in 1 .. MaxTuples /\ Len(blocks_) > 0
               /\ blocks_' = Resized(blocks_, num_tuples_')
      <4>1. Len(blocks_') = LeftBlocks(BlocksFor(num_tuples_'), Len(blocks_))
        BY <1>1, <3>2, ResizedShape
      <4>2. /\ BlocksFor(num_tuples_') <= BlocksFor(MaxTuples)
            /\ BlocksFor(num_tuples_') \in Nat /\ BlocksFor(MaxTuples) \in Nat
        BY <3>2, MoreBlocks
      <4>3. Len(blocks_) \in Nat /\ Len(blocks_) <= BlocksFor(MaxTuples)
        BY <1>1 DEF BlocksBounded
      <4> QED BY <4>1, <4>2, <4>3 DEF LeftBlocks, BlocksBounded
    <3> QED BY <1>1, <2>2, <3>1, <3>2, ResizeStep
  <2> QED BY <2>1, <2>2
<1>4. (SessionTypeOK /\ StaleVectorExact /\ FitsOK)'
  BY <1>2, VectorStill DEF ColumnInv
<1> QED BY <1>2, <1>3, <1>4 DEF SessionInv

LEMMA InitSession == SessionInit => SessionInv
<1> SUFFICES ASSUME SessionInit PROVE SessionInv
  OBVIOUS
<1>1. ColumnInv /\ load = NoLoad
  BY NewColumn DEF SessionInit, Init
<1>2. BlocksBounded
  <2>1. num_tuples_ \in 0 .. MaxTuples
    BY DEF SessionInit, Init
  <2>2. Len(blocks_) = BlocksFor(num_tuples_)
    <3> DEFINE n == BlocksFor(num_tuples_)
    <3>1. num_tuples_ \in Nat
      BY <2>1, Constants
    <3>2. n \in Nat /\ DOMAIN SizesFor(num_tuples_) = 1 .. n
      BY <3>1, BlocksForNat, SizesShape
    <3>3. DOMAIN blocks_ = 1 .. n
      <4> HIDE DEF n
      <4> QED BY <3>2 DEF SessionInit, Init
    <3>4. blocks_ \in Seq(Blocks)
      BY <1>1 DEF ColumnInv, TypeOK
    <3> HIDE DEF n
    <3>5. Len(blocks_) = n
      BY <3>2, <3>3, <3>4
    <3> QED BY <3>5 DEF n
  <2>3. CASE num_tuples_ = 0
    BY <2>2, <2>3, NoBlocks, BlocksForNat, Constants DEF BlocksBounded
  <2>4. CASE num_tuples_ # 0
    <3>1. num_tuples_ \in 1 .. MaxTuples
      BY <2>1, <2>4, Constants
    <3> QED BY <2>2, <3>1, MoreBlocks DEF BlocksBounded
  <2> QED BY <2>3, <2>4
<1>3. VectorMade
  BY <1>1 DEF SessionInit, VectorMade, ColumnInv
<1> QED BY <1>1, <1>2, <1>3, NewVectorOK DEF SessionInv

LEMMA NextSessionInv ==
  SessionInv /\ [SessionNext]_<<vars, session_vars>> => SessionInv'
<1> SUFFICES ASSUME SessionInv, [SessionNext]_<<vars, session_vars>>
             PROVE  SessionInv'
  OBVIOUS
<1>1. CASE (LoadTextFile \/ Resize) /\ UNCHANGED session_vars
  BY <1>1, ColumnCallInv
<1>2. CASE MakeVector
  BY <1>2, MakeVectorInv
<1>3. CASE ScanLiteral
  <2>1. PICK cmp \in Comparators, literal \in Literals, opt \in BitwiseOpt :
          ScanInto(cmp, [b \in DOMAIN blocks_ |-> [p \in Position |-> literal]], opt)
    BY <1>3 DEF ScanLiteral
  <2> QED BY <2>1, ScanInv
<1>4. CASE ScanColumn
  <2>1. PICK cmp \in Comparators, opt \in BitwiseOpt :
          ScanInto(cmp, [b \in DOMAIN other |-> other[b].data], opt)
    BY <1>4 DEF ScanColumn
  <2> QED BY <2>1, ScanInv
<1>5. CASE AndOr
  BY <1>5, AndOrInv
<1>6. CASE UNCHANGED <<vars, session_vars>>
  <2>1. /\ UNCHANGED <<num_tuples_, blocks_, file, load, scanned>>
        /\ status' = status /\ UNCHANGED session_vars
    BY <1>6 DEF vars
  <2>2. (ColumnInv /\ load = NoLoad /\ BlocksBounded)'
    BY <2>1, ColumnStill DEF SessionInv
  <2>3. (SessionTypeOK /\ StaleVectorExact /\ FitsOK)'
    BY <2>1, <2>2, VectorStill DEF ColumnInv
  <2> QED BY <2>2, <2>3 DEF SessionInv
<1> QED BY <1>1, <1>2, <1>3, <1>4, <1>5, <1>6 DEF SessionNext

(* Whatever the column has been resized to since the vector was made, the  *)
(* two are of the sizes and kinds the invariant says, and the vector is    *)
(* exact as far as it covers the column.                                   *)
THEOREM SessionInvariance == SessionSpec => []SessionInv
<1>1. SessionInit => SessionInv
  BY InitSession
<1> QED BY <1>1, NextSessionInv, PTL DEF SessionSpec

(* Every scan, And, Or and resizing leaves the vector its sizes, and no    *)
(* bit outside the words it has in use.                                    *)
THEOREM SessionTypeCorrect == SessionSpec => []SessionTypeOK
<1>1. SessionInv => SessionTypeOK
  BY DEF SessionInv
<1> QED BY <1>1, SessionInvariance, PTL

(* A vector of any other size than the column's is exact for every tuple   *)
(* both have had since it was made, whatever resizings, scans, And and Or  *)
(* came between.                                                           *)
THEOREM SessionStaleVectorExact == SessionSpec => []StaleVectorExact
<1>1. SessionInv => StaleVectorExact
  BY DEF SessionInv
<1> QED BY <1>1, SessionInvariance, PTL

-----------------------------------------------------------------------------
(* What one step may do to the vector.                                     *)

(* Either Column::Scan is a scan into the vector.                          *)
LEMMA ScanMade ==
  ASSUME ScanLiteral \/ ScanColumn
  PROVE  \E cmp, operands, opt : opt \in BitwiseOpt /\ ScanInto(cmp, operands, opt)
<1>1. CASE ScanLiteral
  BY <1>1 DEF ScanLiteral
<1>2. CASE ScanColumn
  BY <1>2 DEF ScanColumn
<1> QED BY <1>1, <1>2

LEMMA AndOrTails ==
  ASSUME SessionTypeOK, AndOr
  PROVE  vector' = vector \/ TailsClean'
<1>1. PICK cmp \in Comparators, literal \in Literals, opt \in {"kAnd", "kOr"} :
        IF DOMAIN vector \subseteq DOMAIN OtherVector(cmp, literal)
        THEN \E rest \in SUBSET Unwritten(
                  OtherVector(cmp, literal)[Len(OtherVector(cmp, literal))].num) :
               vector' = [b \in DOMAIN vector |->
                 BlockCombined(vector[b], OtherVector(cmp, literal)[b], rest, opt)]
        ELSE UNCHANGED vector
  BY DEF AndOr
<1> DEFINE with == OtherVector(cmp, literal)
<1>2. CASE DOMAIN vector \subseteq DOMAIN with
  <2>1. PICK rest : vector' = [b \in DOMAIN vector |->
                                 BlockCombined(vector[b], with[b], rest, opt)]
    BY <1>1, <1>2
  <2>2. PICK num \in 0 .. MaxTuples : Sizes(other) = SizesFor(num)
    BY SessionFacts
  <2>3. with \in Seq(OtherBlocks) /\ Sizes(with) = SizesFor(num) /\ num \in Nat
    BY <2>2, OtherShape, Constants
  <2> HIDE DEF with
  <2>4. /\ DOMAIN vector' = DOMAIN vector
        /\ \A b \in DOMAIN vector :
             /\ vector'[b].num = vector[b].num
             /\ vector'[b].bits \subseteq 0 .. vector[b].num - 1
    BY <1>2, <2>1, <2>3, VectorCombined
  <2> QED BY <2>4 DEF TailsClean
<1>3. CASE ~(DOMAIN vector \subseteq DOMAIN with)
  BY <1>1, <1>3
<1> QED BY <1>2, <1>3

LEMMA TailsStep ==
  ASSUME SessionInv, [SessionNext]_<<vars, session_vars>>, TailsClean, ~TailsClean'
  PROVE  /\ type_ = "kNaive"
         /\ \E b \in DOMAIN blocks_ : blocks_[b].num > vector[b].num
<1>1. SessionTypeOK
  BY DEF SessionInv
<1>2. vector' # vector
  BY DEF TailsClean
<1>3. ~UNCHANGED session_vars
  BY <1>2 DEF session_vars
<1>4. CASE MakeVector
  <2>1. vector' = NewVector(num_tuples_) /\ num_tuples_ \in Nat
    BY <1>1, <1>4, SessionFacts DEF MakeVector
  <2>2. TailsClean'
    BY <2>1, NewVectorShape DEF TailsClean
  <2> QED BY <2>2
<1>5. CASE ScanLiteral \/ ScanColumn
  <2>1. PICK cmp, operands, opt : opt \in BitwiseOpt /\ ScanInto(cmp, operands, opt)
    BY <1>5, ScanMade
  <2>2. Paired(operands)
    BY <1>2, <2>1 DEF ScanInto, Paired
  <2>3. ~(type_ = "kNaive" => \A b \in DOMAIN blocks_ : ~(blocks_[b].num > vector[b].num))
    BY <1>1, <2>1, <2>2, TailsScanned
  <2> QED BY <2>3
<1>6. CASE AndOr
  BY <1>1, <1>2, <1>6, AndOrTails
<1> QED BY <1>3, <1>4, <1>5, <1>6 DEF SessionNext

(* The tail of a vector, once clean, is dirtied by nothing but a naive     *)
(* scan of a column that has outgrown the vector: no ByteSlice scan, And   *)
(* or Or does it, whatever the sizes.                                      *)
THEOREM SessionTailsDirtied == SessionSpec => TailsDirtied
<1>1. ASSUME SessionInv, [SessionNext]_<<vars, session_vars>>
      PROVE  [TailsClean /\ ~TailsClean' =>
                /\ type_ = "kNaive"
                /\ \E b \in DOMAIN blocks_ : blocks_[b].num > vector[b].num
             ]_<<vars, session_vars>>
  BY <1>1, TailsStep
<1> QED BY <1>1, SessionInvariance, PTL DEF SessionSpec, TailsDirtied

(* A scan that sets the bit of a tuple the column has lost is ByteSlice's, *)
(* and the tuple is in the last word that it visits.                       *)
THEOREM SessionLostTuplesAnswer == SessionSpec => LostTuplesAnswer
<1> DEFINE Lost == \A id \in 0 .. num_ - 1 :
                     /\ id \notin Held(blocks_) /\ ~VectorBit(id)
                     /\ BlockOf(id) \in DOMAIN vector' /\ VectorBit(id)'
                     /\ ScanLiteral \/ ScanColumn
                     => /\ type_ = "kByteSlicePadRight"
                        /\ PosOf(id) < Visited(blocks_[BlockOf(id)].num)
<1>1. ASSUME SessionInv PROVE Lost
  <2> SUFFICES ASSUME NEW id \in 0 .. num_ - 1, id \notin Held(blocks_),
                      ~VectorBit(id), VectorBit(id)', ScanLiteral \/ ScanColumn
               PROVE  /\ type_ = "kByteSlicePadRight"
                      /\ PosOf(id) < Visited(blocks_[BlockOf(id)].num)
    OBVIOUS
  <2>1. PICK cmp, operands, opt : opt \in BitwiseOpt /\ ScanInto(cmp, operands, opt)
    BY ScanMade
  <2>2. Paired(operands)
    <3>1. vector' # vector
      BY DEF VectorBit
    <3> QED BY <2>1, <3>1 DEF ScanInto, Paired
  <2>3. SessionTypeOK
    BY <1>1 DEF SessionInv
  <2> QED BY <2>1, <2>2, <2>3, LostTupleScanned
<1>2. ASSUME SessionInv, [SessionNext]_<<vars, session_vars>>
      PROVE  [Lost]_<<vars, session_vars>>
  BY <1>1, <1>2
<1> QED BY <1>2, SessionInvariance, PTL DEF SessionSpec, LostTuplesAnswer

-----------------------------------------------------------------------------
(* What is left to be counted: CountOnes adds the bits of the blocks up,   *)
(* and its function of the blocks has the one solution.                    *)

(* Induction, as the least counterexample.                                 *)
LEMMA LeastNatural ==
  ASSUME NEW T \in SUBSET Nat, NEW e \in T
  PROVE  \E m \in T : \A n \in T : m <= n
<1>1. T # {} /\ T \subseteq Nat
  OBVIOUS
<1>2. PICK m \in T : \A n \in T : ~(<<n, m>> \in OpToRel(<, Nat))
  BY <1>1, NatLessThanWellFounded, WFMin, Zenon
<1>3. \A n \in T : ~(n < m)
  BY <1>1, <1>2 DEF OpToRel
<1> QED BY <1>1, <1>3

(* The tuples of the first b blocks whose bit is set, and those of block b.*)
SetBelow(b) == {id \in 0 .. kNumTuplesPerBlock * b - 1 : VectorBit(id)}
SetIn(b) == {kNumTuplesPerBlock * (b - 1) + p : p \in vector[b].bits}

LEMMA BlockCounted ==
  ASSUME vector \in Seq(VectorBlocks), NEW b \in 1 .. Len(vector)
  PROVE  /\ IsFiniteSet(SetIn(b))
         /\ Cardinality(SetIn(b)) = Cardinality(vector[b].bits)
<1> DEFINE k == kNumTuplesPerBlock
           bits == vector[b].bits
           base == k * (b - 1)
           place == [p \in bits |-> base + p]
<1>1. bits \subseteq Position /\ IsFiniteSet(bits)
  <2>1. vector[b] \in VectorBlocks
    OBVIOUS
  <2>2. bits \in SUBSET Position
    BY <2>1 DEF VectorBlocks
  <2>3. IsFiniteSet(Position)
    BY FS_Interval, Constants DEF Position
  <2> HIDE DEF bits
  <2> QED BY <2>2, <2>3, FS_Subset
<1>2. base \in Nat /\ \A p \in bits : p \in Nat
  <2>1. k \in Nat /\ b - 1 \in Nat
    BY Constants
  <2> QED BY <1>1, <2>1 DEF Position
<1>3. SetIn(b) = {base + p : p \in bits}
  BY DEF SetIn
<1> HIDE DEF bits, base
<1>4. place \in [bits -> SetIn(b)]
  BY <1>3
<1>5. \A p, q \in bits : place[p] = place[q] => p = q
  BY <1>2
<1>6. \A id \in SetIn(b) : \E p \in bits : place[p] = id
  BY <1>3
<1> HIDE DEF place
<1>7. place \in Bijection(bits, SetIn(b))
  BY <1>4, <1>5, <1>6 DEF Bijection, Injection, Surjection, IsInjective
<1>8. ExistsBijection(bits, SetIn(b))
  BY <1>7 DEF ExistsBijection
<1>9. IsFiniteSet(SetIn(b)) /\ Cardinality(SetIn(b)) = Cardinality(bits)
  BY <1>1, <1>8, FS_Bijection
<1> QED BY <1>9 DEF bits

LEMMA BlockAdded ==
  ASSUME vector \in Seq(VectorBlocks), NEW b \in 1 .. Len(vector)
  PROVE  /\ SetBelow(b) = SetBelow(b - 1) \cup SetIn(b)
         /\ SetBelow(b - 1) \cap SetIn(b) = {}
<1> DEFINE k == kNumTuplesPerBlock
           base == k * (b - 1)
<1>1. k \in Nat \ {0} /\ b \in Nat \ {0} /\ b - 1 \in Nat /\ Position = 0 .. k - 1
  BY Constants DEF Position
<1>2. base \in Nat /\ k * b - 1 = base + k - 1
  BY <1>1
<1>3. vector[b].bits \subseteq Position
  <2>1. vector[b] \in VectorBlocks
    OBVIOUS
  <2> QED BY <2>1 DEF VectorBlocks
<1>4. ASSUME NEW p \in Position
      PROVE  base + p \in Nat /\ (VectorBit(base + p) <=> p \in vector[b].bits)
  BY <1>1, <1>4, PlaceUnique DEF VectorBit
<1> HIDE DEF base
<1>5. ASSUME NEW id \in SetIn(b)
      PROVE  id \in base .. base + k - 1 /\ VectorBit(id)
  <2>1. PICK p \in vector[b].bits : id = base + p
    BY DEF SetIn, base
  <2> QED BY <1>1, <1>2, <1>3, <1>4, <2>1
<1>6. ASSUME NEW id \in base .. base + k - 1, VectorBit(id)
      PROVE  id \in SetIn(b)
  <2> DEFINE p == id - base
  <2>1. p \in Position /\ id = base + p
    BY <1>1, <1>2
  <2>2. p \in vector[b].bits
    <3> HIDE DEF p
    <3> QED BY <1>4, <1>6, <2>1
  <2> HIDE DEF p
  <2> QED BY <2>1, <2>2 DEF SetIn, base
<1>7. SetBelow(b) = {id \in 0 .. base + k - 1 : VectorBit(id)}
  BY <1>2 DEF SetBelow
<1>8. SetBelow(b - 1) = {id \in 0 .. base - 1 : VectorBit(id)}
  BY DEF SetBelow, base
<1> QED BY <1>1, <1>2, <1>5, <1>6, <1>7, <1>8

LEMMA BelowCounted ==
  ASSUME vector \in Seq(VectorBlocks)
  PROVE  /\ \A b \in 0 .. Len(vector) : Cardinality(SetBelow(b)) \in Nat
         /\ Cardinality(SetBelow(0)) = 0
         /\ \A b \in 1 .. Len(vector) :
              Cardinality(SetBelow(b))
                = Cardinality(SetBelow(b - 1)) + Cardinality(vector[b].bits)
<1>1. ASSUME NEW b \in 0 .. Len(vector) PROVE IsFiniteSet(SetBelow(b))
  <2> DEFINE last == kNumTuplesPerBlock * b - 1
  <2>1. last \in Int
    BY Constants
  <2>2. IsFiniteSet(0 .. last)
    <3> HIDE DEF last
    <3> QED BY <2>1, FS_Interval
  <2>3. SetBelow(b) \in SUBSET (0 .. last)
    BY DEF SetBelow
  <2> HIDE DEF last
  <2> QED BY <2>2, <2>3, FS_Subset
<1>2. SetBelow(0) = {}
  BY Constants DEF SetBelow
<1>3. ASSUME NEW b \in 1 .. Len(vector)
      PROVE  Cardinality(SetBelow(b))
               = Cardinality(SetBelow(b - 1)) + Cardinality(vector[b].bits)
  <2> DEFINE S == SetBelow(b - 1)
             T == SetIn(b)
  <2>1. SetBelow(b) = S \cup T /\ S \cap T = {}
    BY BlockAdded
  <2>2. IsFiniteSet(T) /\ Cardinality(T) = Cardinality(vector[b].bits)
    BY BlockCounted
  <2>3. IsFiniteSet(S)
    <3>1. b - 1 \in 0 .. Len(vector)
      OBVIOUS
    <3> QED BY <3>1, <1>1
  <2> HIDE DEF S, T
  <2>4. Cardinality(S \cup T) = Cardinality(S) + Cardinality(T) - Cardinality(S \cap T)
    BY <2>2, <2>3, FS_Union
  <2>5. Cardinality(S) \in Nat /\ Cardinality(T) \in Nat
    BY <2>2, <2>3, FS_CardinalityType
  <2>6. Cardinality(S \cup T) = Cardinality(S) + Cardinality(T)
    <3>1. Cardinality(S \cap T) = 0
      BY <2>1, FS_EmptySet
    <3> QED BY <2>4, <2>5, <3>1
  <2> QED BY <2>1, <2>2, <2>6 DEF S
<1>4. Cardinality(SetBelow(0)) = 0
  BY <1>2, FS_EmptySet
<1>5. \A b \in 0 .. Len(vector) : Cardinality(SetBelow(b)) \in Nat
  BY <1>1, FS_CardinalityType
<1> QED BY <1>3, <1>4, <1>5

(* The equation of CountOnes.                                              *)
CountLoop(count) ==
  count = [b \in 0 .. Len(vector) |->
             IF b = 0 THEN 0 ELSE count[b - 1] + Cardinality(vector[b].bits)]

LEMMA CountLoopExact ==
  ASSUME vector \in Seq(VectorBlocks)
  PROVE  /\ \E count : CountLoop(count)
         /\ \A count : CountLoop(count) =>
              count[Len(vector)] = Cardinality(SetBelow(Len(vector)))
<1> DEFINE n == Len(vector)
           below == [b \in 0 .. n |-> Cardinality(SetBelow(b))]
<1>1. n \in Nat
  OBVIOUS
<1>2. CountLoop(below)
  <2>1. ASSUME NEW b \in 0 .. n
        PROVE  Cardinality(SetBelow(b))
                 = IF b = 0 THEN 0 ELSE below[b - 1] + Cardinality(vector[b].bits)
    <3>1. CASE b = 0
      BY <3>1, BelowCounted
    <3>2. CASE b # 0
      <4>1. b \in 1 .. n /\ b - 1 \in 0 .. n
        BY <1>1, <3>2
      <4>2. below[b - 1] = Cardinality(SetBelow(b - 1))
        BY <4>1
      <4> QED BY <3>2, <4>1, <4>2, BelowCounted
    <3> QED BY <3>1, <3>2
  <2>2. below = [b \in 0 .. n |->
                   IF b = 0 THEN 0 ELSE below[b - 1] + Cardinality(vector[b].bits)]
    BY <2>1
  <2> HIDE DEF below
  <2> QED BY <2>2 DEF CountLoop
<1>3. ASSUME NEW count, CountLoop(count)
      PROVE  count[n] = Cardinality(SetBelow(n))
  <2> DEFINE Bad == {b \in 0 .. n : count[b] # Cardinality(SetBelow(b))}
  <2>1. \A b \in 0 .. n :
          count[b] = IF b = 0 THEN 0 ELSE count[b - 1] + Cardinality(vector[b].bits)
    BY <1>3 DEF CountLoop
  <2>2. ASSUME NEW b \in Bad, \A c \in Bad : b <= c
        PROVE  FALSE
    <3>1. b \in 0 .. n /\ count[b] # Cardinality(SetBelow(b))
      OBVIOUS
    <3>2. b # 0
      BY <2>1, <3>1, BelowCounted
    <3>3. b \in 1 .. n /\ b - 1 \in 0 .. n /\ ~(b <= b - 1)
      BY <1>1, <3>1, <3>2
    <3>4. count[b - 1] = Cardinality(SetBelow(b - 1))
      BY <2>2, <3>3
    <3> QED BY <2>1, <3>1, <3>2, <3>3, <3>4, BelowCounted
  <2>3. Bad = {}
    <3>1. Bad \in SUBSET Nat
      BY <1>1
    <3> HIDE DEF Bad
    <3> QED BY <2>2, <3>1, LeastNatural
  <2>4. n \in 0 .. n
    BY <1>1
  <2> HIDE DEF n
  <2> QED BY <2>3, <2>4
<1> QED BY <1>2, <1>3

LEMMA CountOnesExact ==
  ASSUME vector \in Seq(VectorBlocks)
  PROVE  CountOnes = Cardinality(SetBelow(Len(vector)))
<1> DEFINE count == CHOOSE count : CountLoop(count)
<1>1. CountOnes = count[Len(vector)]
  BY DEF CountOnes, CountLoop
<1>2. CountLoop(count)
  BY CountLoopExact
<1> HIDE DEF count
<1> QED BY <1>1, <1>2, CountLoopExact

(* With clean tails the bits set are tuples of the vector.                 *)
LEMMA SetAreTuples ==
  ASSUME SessionTypeOK, TailsClean
  PROVE  SetBelow(Len(vector)) = {id \in 0 .. num_ - 1 : VectorBit(id)}
<1> DEFINE k == kNumTuplesPerBlock
           n == Len(vector)
<1>1. /\ vector \in Seq(VectorBlocks) /\ num_ \in Nat /\ Sizes(vector) = SizesFor(num_)
      /\ \A b \in DOMAIN vector : vector[b] \in VectorBlocks
  BY SessionFacts
<1>2. /\ Held(vector) = 0 .. num_ - 1
      /\ \A id \in 0 .. num_ - 1 :
           BlockOf(id) \in DOMAIN vector /\ PosOf(id) \in 0 .. vector[BlockOf(id)].num - 1
      /\ \A b \in DOMAIN vector : \A p \in 0 .. vector[b].num - 1 :
           k * (b - 1) + p \in 0 .. num_ - 1
  BY <1>1, HeldExact
<1>3. n \in Nat /\ k \in Nat \ {0} /\ DOMAIN vector = 1 .. n
  BY <1>1, Constants
<1>4. ASSUME NEW id \in SetBelow(n) PROVE id \in 0 .. num_ - 1 /\ VectorBit(id)
  <2>1. id \in 0 .. k * n - 1 /\ VectorBit(id)
    BY DEF SetBelow
  <2>2. id \in Nat /\ id < k * n
    <3> DEFINE last == k * n
    <3>1. last \in Nat
      BY <1>3
    <3> HIDE DEF last
    <3> QED BY <2>1, <3>1 DEF last
  <2>3. BlockOf(id) \in Nat \ {0} /\ PosOf(id) \in Position
        /\ id = k * (BlockOf(id) - 1) + PosOf(id)
    BY <2>2, PlaceOfAny
  <2> DEFINE b == BlockOf(id)
             p == PosOf(id)
  <2>4. b \in DOMAIN vector
    <3>1. p \in 0 .. k - 1 /\ b \in Nat \ {0} /\ id = k * (b - 1) + p
      BY <2>3 DEF Position
    <3> HIDE DEF n, b, p, k
    <3>2. k * (b - 1) < k * n
      BY <1>3, <2>2, <3>1
    <3>3. b - 1 < n
      BY <3>2, <1>3, <3>1
    <3> QED BY <3>3, <1>3, <3>1
  <2>5. p \in 0 .. vector[b].num - 1
    BY <2>1, <2>4 DEF VectorBit, TailsClean
  <2> QED BY <2>1, <2>3, <2>4, <2>5, <1>2
<1>5. ASSUME NEW id \in 0 .. num_ - 1 PROVE id \in 0 .. k * n - 1
  <2> DEFINE b == BlockOf(id)
             p == PosOf(id)
  <2>1. id \in Nat
    BY <1>1
  <2>2. p \in Position /\ id = k * (b - 1) + p
    BY <2>1, PlaceOfAny
  <2>3. b \in 1 .. n
    BY <1>2, <1>3
  <2>4. p \in 0 .. k - 1
    BY <2>2 DEF Position
  <2> HIDE DEF b, p, n, k
  <2>5. k * (b - 1) + k <= k * n
    BY <1>3, <2>3
  <2> QED BY <1>3, <2>1, <2>2, <2>3, <2>4, <2>5
<1> QED BY <1>4, <1>5 DEF SetBelow

(* As long as every scan found the column of the size the vector was made  *)
(* for, what is counted is the number of tuples asked for, and these are   *)
(* the ones whose bit is set.                                              *)
THEOREM SessionQueryExact == SessionSpec => []QueryExact
<1>1. SessionInv => QueryExact
  <2> SUFFICES ASSUME SessionInv, fits
               PROVE  CountOnes = Cardinality(asked) /\ asked = {id \in covered : VectorBit(id)}
    BY DEF QueryExact
  <2>1. /\ SessionTypeOK /\ StaleVectorExact
        /\ TailsClean /\ covered = 0 .. num_ - 1 /\ asked \subseteq covered
    BY DEF SessionInv, FitsOK
  <2>2. asked = {id \in covered : VectorBit(id)}
    BY <2>1 DEF StaleVectorExact
  <2>3. SetBelow(Len(vector)) = {id \in covered : VectorBit(id)}
    BY <2>1, SetAreTuples
  <2>4. CountOnes = Cardinality(SetBelow(Len(vector)))
    BY <2>1, CountOnesExact, SessionFacts
  <2> QED BY <2>2, <2>3, <2>4
<1> QED BY <1>1, SessionInvariance, PTL

-----------------------------------------------------------------------------
(* What stands for a block's scan here, one step, is what BlockScan        *)
(* promises and both layouts' scans are shown to keep: with sizes that     *)
(* agree and a clean tail, the bits left are those of the tuples, each     *)
(* what bit_opt makes of its old bit and of the comparison.                *)
THEOREM BlockScannedExact ==
  ASSUME NEW block \in Blocks, NEW vblock \in VectorBlocks,
         vblock.num = block.num, vblock.bits \subseteq 0 .. vblock.num - 1,
         type_ \in {"kNaive", "kByteSlicePadRight"},
         NEW cmp \in Comparator, NEW operand, NEW opt \in BitwiseOpt
  PROVE  BlockScanned(block, vblock, cmp, operand, opt).bits
           = {p \in 0 .. block.num - 1 :
                Combine(opt, p \in vblock.bits, Compare(cmp, block.data[p], operand[p]))}
<1> DEFINE after == BlockScanned(block, vblock, cmp, operand, opt)
           tuples == 0 .. block.num - 1
           Hit(p) == Compare(cmp, block.data[p], operand[p])
<1>1. vblock.num \in 1 .. kNumTuplesPerBlock /\ block.num \in 1 .. kNumTuplesPerBlock
  BY VectorBlockType
<1>2. vblock.bits \subseteq BVB!UnitPositions(vblock.num)
  BY <1>1, Units
<1>3. /\ Kept(after, vblock) /\ Answers(after, block, vblock, cmp, operand, opt)
      /\ PastTuples(after, block, vblock)
  BY <1>2, BlockAnswered
<1> HIDE DEF after
<1>4. after.bits \subseteq tuples
  <2>1. CASE type_ = "kNaive"
    <3> SUFFICES ASSUME NEW p \in after.bits PROVE p \in tuples
      OBVIOUS
    <3>1. p \in vblock.bits \/ p < block.num
      BY <1>3, <2>1 DEF PastTuples
    <3>2. p \in Position
      BY <1>1, <1>3, Units DEF Kept
    <3> QED BY <1>1, <3>1, <3>2, Constants DEF Position
  <2>2. CASE type_ = "kByteSlicePadRight"
    BY <1>3, <2>2 DEF PastTuples
  <2> QED BY <2>1, <2>2
<1>5. ASSUME NEW p \in tuples
      PROVE  p \in after.bits <=> Combine(opt, p \in vblock.bits, Hit(p))
  <2>1. p \in Nat /\ p < block.num /\ block.num \in 0 .. kNumTuplesPerBlock
    BY <1>1
  <2>2. p < Visited(block.num)
    BY <2>1, VisitedCovers
  <2>3. p \in after.bits <=>
          Combine(opt, p \in vblock.bits, HitAt(block, cmp, operand, p))
    BY <1>3, <2>2 DEF Answers
  <2>4. HitAt(block, cmp, operand, p) <=> Hit(p)
    BY <2>1 DEF HitAt
  <2> HIDE DEF Hit
  <2> QED BY <2>3, <2>4 DEF Combine, BitwiseOpt
<1> HIDE DEF tuples
<1> QED BY <1>4, <1>5 DEF after, tuples
=============================================================================

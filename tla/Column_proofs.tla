---------------------------- MODULE Column_proofs ----------------------------
(***************************************************************************)
(* Column, proved for blocks of any size, any number of tuples and any     *)
(* arrays: what each call does to the shape of the blocks, pointwise, the  *)
(* inductive invariant ColumnInv, and from both the run's invariants and   *)
(* action properties.                                                      *)
(***************************************************************************)
EXTENDS Column, SequenceTheorems, TLAPS

(* The blocks num tuples ask for, and the size of the b-th of them.        *)
BlocksFor(num) ==
  num \div kNumTuplesPerBlock + IF num % kNumTuplesPerBlock > 0 THEN 1 ELSE 0
SizeAt(num, b) ==
  IF b <= num \div kNumTuplesPerBlock THEN kNumTuplesPerBlock
  ELSE num % kNumTuplesPerBlock

(* Whatever the sizes of the blocks, a running program's column that has   *)
(* any has all its tuples ask for: Resize is what finds it otherwise.      *)
EnoughBlocks ==
  status = "ok" => blocks_ = <<>> \/ BlocksFor(num_tuples_) <= Len(blocks_)

(* A bulk load has stored what it has done, at its place, and goes on      *)
(* where that ends.                                                        *)
LoadOK ==
  load # NoLoad =>
    /\ load.pos + Len(load.array) <= num_tuples_
    /\ Layout =>
         /\ load.done < Len(load.array) =>
              load.pos + load.done
                = kNumTuplesPerBlock * (load.block_id - 1) + load.pos_in_block
         /\ \A id \in 0 .. num_tuples_ - 1 :
              GetTuple(id) =
                IF load.pos <= id /\ id < load.pos + load.done
                THEN load.array[id - load.pos + 1]
                ELSE load.before[BlockOf(id)].data[PosOf(id)]

ColumnInv == TypeOK /\ EnoughBlocks /\ LoadOK

-----------------------------------------------------------------------------
(* Tuples and blocks.                                                      *)

LEMMA Division ==
  ASSUME NEW a \in Nat, NEW b \in Nat \ {0}
  PROVE  /\ a \div b \in Nat /\ a % b \in 0 .. b - 1
         /\ a = b * (a \div b) + (a % b)
  OBVIOUS

LEMMA DivisionUnique ==
  ASSUME NEW b \in Nat \ {0}, NEW q \in Nat, NEW r \in 0 .. b - 1
  PROVE  (b * q + r) \div b = q /\ (b * q + r) % b = r
  OBVIOUS

LEMMA Constants ==
  /\ kNumTuplesPerBlock \in Nat \ {0} /\ kNumWordBits \in Nat \ {0}
  /\ MaxTuples \in Nat /\ SizeRange \in Nat \ {0}
  /\ MaxTuples + kNumTuplesPerBlock < SizeRange
BY ColumnAssumption, SizeRangeAssumption

(* A function from 1 .. n is a sequence.                                   *)
LEMMA AsSequence ==
  ASSUME NEW S, NEW n \in Nat, NEW s \in [1 .. n -> S]
  PROVE  s \in Seq(S) /\ Len(s) = n /\ DOMAIN s = 1 .. n
OBVIOUS

LEMMA BlocksForNat ==
  ASSUME NEW num \in Nat
  PROVE  /\ BlocksFor(num) \in Nat
         /\ num \div kNumTuplesPerBlock \in Nat
         /\ num % kNumTuplesPerBlock \in Position
         /\ num = kNumTuplesPerBlock * (num \div kNumTuplesPerBlock)
                    + (num % kNumTuplesPerBlock)
<1>1. /\ num \div kNumTuplesPerBlock \in Nat
      /\ num % kNumTuplesPerBlock \in 0 .. kNumTuplesPerBlock - 1
      /\ num = kNumTuplesPerBlock * (num \div kNumTuplesPerBlock)
                 + (num % kNumTuplesPerBlock)
  BY Constants, Division
<1> QED BY <1>1 DEF BlocksFor, Position

(* SizesFor, which concatenates, gives the b-th block SizeAt.              *)
LEMMA SizesShape ==
  ASSUME NEW num \in Nat
  PROVE  SizesFor(num) = [b \in 1 .. BlocksFor(num) |-> SizeAt(num, b)]
<1> DEFINE full == num \div kNumTuplesPerBlock
           rest == num % kNumTuplesPerBlock
           whole == [b \in 1 .. full |-> kNumTuplesPerBlock]
<1>1. full \in Nat /\ rest \in Nat
  BY BlocksForNat DEF Position
<1>2. kNumTuplesPerBlock \in Nat
  BY Constants
<1>3. SizesFor(num) = whole \o (IF rest > 0 THEN <<rest>> ELSE <<>>)
  BY DEF SizesFor
<1>4. BlocksFor(num) = full + (IF rest > 0 THEN 1 ELSE 0)
  BY DEF BlocksFor
<1>5. \A b : SizeAt(num, b) = IF b <= full THEN kNumTuplesPerBlock ELSE rest
  BY DEF SizeAt
<1> HIDE DEF full, rest
<1>6. whole \in Seq(Nat) /\ Len(whole) = full
  <2>1. whole \in [1 .. full -> Nat]
    BY <1>2
  <2> QED BY <2>1, <1>1, AsSequence
<1>7. CASE rest > 0
  <2>1. SizesFor(num) = whole \o <<rest>> /\ BlocksFor(num) = full + 1
    BY <1>3, <1>4, <1>7
  <2>2. whole \o <<rest>> = [b \in 1 .. full + 1 |->
           IF b <= full THEN kNumTuplesPerBlock ELSE rest]
    BY <1>1, <1>6
  <2> QED BY <2>1, <2>2, <1>5
<1>8. CASE ~(rest > 0)
  <2>1. SizesFor(num) = whole \o <<>> /\ BlocksFor(num) = full
    BY <1>1, <1>3, <1>4, <1>8
  <2>2. whole \o <<>> = whole
    BY <1>6
  <2>3. whole = [b \in 1 .. full |-> IF b <= full THEN kNumTuplesPerBlock ELSE rest]
    BY <1>1
  <2> QED BY <2>1, <2>2, <2>3, <1>5
<1> QED BY <1>7, <1>8

(* Blocks fit num tuples when there are as many and each has its size.     *)
LEMMA LayoutShape ==
  ASSUME NEW num \in Nat, NEW blocks \in Seq(Blocks)
  PROVE  Sizes(blocks) = SizesFor(num) <=>
           /\ Len(blocks) = BlocksFor(num)
           /\ \A b \in 1 .. Len(blocks) : blocks[b].num = SizeAt(num, b)
<1>1. SizesFor(num) = [b \in 1 .. BlocksFor(num) |-> SizeAt(num, b)]
  BY SizesShape
<1>2. Sizes(blocks) = [b \in 1 .. Len(blocks) |-> blocks[b].num]
  BY DEF Sizes
<1>3. Len(blocks) \in Nat /\ BlocksFor(num) \in Nat
  <2>1. Len(blocks) \in Nat
    OBVIOUS
  <2> QED BY <2>1, BlocksForNat
<1>4. ASSUME Sizes(blocks) = SizesFor(num)
      PROVE  /\ Len(blocks) = BlocksFor(num)
             /\ \A b \in 1 .. Len(blocks) : blocks[b].num = SizeAt(num, b)
  <2>1. 1 .. Len(blocks) = 1 .. BlocksFor(num)
    BY <1>1, <1>2, <1>4
  <2>2. Len(blocks) = BlocksFor(num)
    BY <2>1, <1>3
  <2>3. ASSUME NEW b \in 1 .. Len(blocks) PROVE blocks[b].num = SizeAt(num, b)
    <3>1. SizesFor(num)[b] = SizeAt(num, b)
      BY <1>1, <2>1
    <3>2. Sizes(blocks)[b] = blocks[b].num
      BY <1>2
    <3> QED BY <3>1, <3>2, <1>4
  <2> QED BY <2>2, <2>3
<1>5. ASSUME Len(blocks) = BlocksFor(num),
             \A b \in 1 .. Len(blocks) : blocks[b].num = SizeAt(num, b)
      PROVE  Sizes(blocks) = SizesFor(num)
  BY <1>1, <1>2, <1>5
<1> QED BY <1>4, <1>5

(* Each tuple has a place in one of the blocks asked for, below its size,  *)
(* and no other tuple has it.                                              *)
LEMMA PlaceOf ==
  ASSUME NEW num \in Nat, NEW id \in 0 .. num - 1
  PROVE  /\ BlockOf(id) \in 1 .. BlocksFor(num)
         /\ PosOf(id) \in Position /\ PosOf(id) < SizeAt(num, BlockOf(id))
         /\ id = kNumTuplesPerBlock * (BlockOf(id) - 1) + PosOf(id)
<1> DEFINE k == kNumTuplesPerBlock
           q == id \div k
           r == id % k
           full == num \div k
           rest == num % k
<1>1. k \in Nat \ {0} /\ id \in Nat
  BY Constants
<1>2. q \in Nat /\ r \in 0 .. k - 1 /\ id = k * q + r
  BY <1>1, Division
<1>3. full \in Nat /\ rest \in 0 .. k - 1 /\ num = k * full + rest
  BY BlocksForNat DEF Position
<1>4. BlockOf(id) = q + 1 /\ PosOf(id) = r
  BY DEF BlockOf, PosOf
<1>5. BlocksFor(num) = full + (IF rest > 0 THEN 1 ELSE 0)
  BY DEF BlocksFor
<1>6. SizeAt(num, q + 1) = IF q + 1 <= full THEN k ELSE rest
  BY DEF SizeAt
<1>7. id < num
  BY <1>1
<1> HIDE DEF k, q, r, full, rest
<1>8. q <= full
  BY <1>1, <1>2, <1>3, <1>7
<1>9. q = full => r < rest
  BY <1>1, <1>2, <1>3, <1>7
<1>10. q + 1 \in 1 .. BlocksFor(num)
  BY <1>2, <1>3, <1>5, <1>8, <1>9
<1>11. r < SizeAt(num, q + 1)
  BY <1>1, <1>2, <1>3, <1>6, <1>8, <1>9
<1>12. r \in Position
  BY <1>2 DEF Position, k
<1>13. BlockOf(id) \in 1 .. BlocksFor(num)
  BY <1>4, <1>10
<1>14. PosOf(id) \in Position /\ PosOf(id) < SizeAt(num, BlockOf(id))
  BY <1>4, <1>11, <1>12
<1>15. id = kNumTuplesPerBlock * (BlockOf(id) - 1) + PosOf(id)
  <2>1. BlockOf(id) - 1 = q
    BY <1>2, <1>4
  <2> QED BY <2>1, <1>2, <1>4 DEF k
<1> QED BY <1>13, <1>14, <1>15

LEMMA PlaceUnique ==
  ASSUME NEW b \in Nat \ {0}, NEW p \in Position
  PROVE  /\ kNumTuplesPerBlock * (b - 1) + p \in Nat
         /\ BlockOf(kNumTuplesPerBlock * (b - 1) + p) = b
         /\ PosOf(kNumTuplesPerBlock * (b - 1) + p) = p
<1>1. b - 1 \in Nat /\ p \in 0 .. kNumTuplesPerBlock - 1
  BY DEF Position
<1> DEFINE c == b - 1
<1>2. c + 1 = b
  OBVIOUS
<1> HIDE DEF c
<1>3. (kNumTuplesPerBlock * c + p) \div kNumTuplesPerBlock = c
      /\ (kNumTuplesPerBlock * c + p) % kNumTuplesPerBlock = p
  BY <1>1, Constants, DivisionUnique DEF c
<1>4. kNumTuplesPerBlock * c + p \in Nat
  BY <1>1, Constants DEF c
<1> QED BY <1>2, <1>3, <1>4 DEF BlockOf, PosOf, c

(* CEIL of a size of 1 or more does not wrap.                              *)
LEMMA CeilExact ==
  ASSUME NEW num \in 1 .. SizeRange - 1, NEW y \in Nat \ {0}
  PROVE  /\ CEIL(num, y) = (num - 1) \div y + 1
         /\ CEIL(num, y) \in Nat \ {0}
         /\ num <= y * CEIL(num, y) /\ y * (CEIL(num, y) - 1) < num
<1> DEFINE q == (num - 1) \div y
<1>1. num - 1 \in 0 .. SizeRange - 1 /\ num \in Nat /\ SizeRange \in Nat \ {0}
  BY Constants
<1>2. (num - 1) % SizeRange = num - 1
  BY <1>1
<1>3. q \in Nat /\ num - 1 = y * q + ((num - 1) % y) /\ (num - 1) % y \in 0 .. y - 1
  <2>1. num - 1 \in Nat
    BY <1>1
  <2> QED BY <2>1, Division
<1> HIDE DEF q
<1>4. y * q >= q /\ y * q \in Nat
  BY <1>3
<1>5. q + 1 \in 0 .. SizeRange - 1
  BY <1>1, <1>3, <1>4
<1>6. (q + 1) % SizeRange = q + 1
  BY <1>1, <1>5
<1>7. CEIL(num, y) = q + 1
  BY <1>2, <1>6 DEF CEIL, q
<1>8. y * (q + 1) = y * q + y /\ q + 1 - 1 = q
  BY <1>3
<1> QED BY <1>1, <1>3, <1>7, <1>8 DEF q

(* What Resize computes is the number of blocks that num tuples ask for,   *)
(* and for no tuple more than can be allocated.                            *)
LEMMA BlocksAskedFor ==
  ASSUME NEW num \in 1 .. MaxTuples
  PROVE  /\ CEIL(num, kNumTuplesPerBlock) = BlocksFor(num)
         /\ BlocksFor(num) \in 1 .. MaxTuples
<1> DEFINE k == kNumTuplesPerBlock
           c == CEIL(num, k)
           full == num \div k
           rest == num % k
<1>1. k \in Nat \ {0} /\ num \in 1 .. SizeRange - 1 /\ num \in Nat
  BY Constants
<1>2. c \in Nat \ {0} /\ num <= k * c /\ k * (c - 1) < num
  BY <1>1, CeilExact
<1>3. full \in Nat /\ rest \in 0 .. k - 1 /\ num = k * full + rest
  BY <1>1, BlocksForNat DEF Position
<1>4. BlocksFor(num) = full + (IF rest > 0 THEN 1 ELSE 0)
  BY DEF BlocksFor
<1>5. c = CEIL(num, kNumTuplesPerBlock) /\ MaxTuples \in Nat
  BY Constants
<1> HIDE DEF k, c, full, rest
<1>6. CASE rest = 0
  <2>1. full <= c /\ c - 1 < full
    BY <1>1, <1>2, <1>3, <1>6
  <2>2. full <= k * full
    BY <1>1, <1>3
  <2>3. BlocksFor(num) = full /\ c = full
    BY <2>1, <1>2, <1>3, <1>4, <1>6
  <2> QED BY <2>2, <2>3, <1>1, <1>2, <1>3, <1>6, <1>5
<1>7. CASE rest > 0
  <2>1. full < c /\ c - 1 < full + 1
    BY <1>1, <1>2, <1>3, <1>7
  <2>2. full <= k * full
    BY <1>1, <1>3
  <2>3. BlocksFor(num) = full + 1 /\ c = full + 1
    BY <2>1, <1>2, <1>3, <1>4, <1>7
  <2>4. full + 1 <= MaxTuples
    BY <2>2, <1>1, <1>3, <1>7, <1>5
  <2> QED BY <2>3, <2>4, <1>3, <1>5
<1> QED BY <1>3, <1>6, <1>7

LEMMA NoBlocks == BlocksFor(0) = 0 /\ SizesFor(0) = <<>>
<1>1. 0 = kNumTuplesPerBlock * 0 + 0 /\ 0 \in 0 .. kNumTuplesPerBlock - 1
  BY Constants
<1>2. 0 \div kNumTuplesPerBlock = 0 /\ 0 % kNumTuplesPerBlock = 0
  BY <1>1, Constants, DivisionUnique
<1>3. BlocksFor(0) = 0
  BY <1>2 DEF BlocksFor
<1>4. SizesFor(0) = [b \in 1 .. 0 |-> SizeAt(0, b)]
  BY <1>3, SizesShape
<1> QED BY <1>3, <1>4

-----------------------------------------------------------------------------
(* Resize.                                                                 *)

LEMMA BlockType ==
  ASSUME NEW block \in Blocks
  PROVE  /\ block.num \in 0 .. kNumTuplesPerBlock /\ block.data \in [Position -> Codes]
         /\ \A num \in 0 .. kNumTuplesPerBlock : Block(num, block.data) \in Blocks
BY DEF Blocks, Block

LEMMA FreshBlock ==
  ASSUME NEW num \in 0 .. kNumTuplesPerBlock
  PROVE  CreateNewBlock(num) \in Blocks /\ CreateNewBlock(num).num = num
BY ColumnAssumption DEF CreateNewBlock, Block, Blocks

(* How many blocks Resize leaves, when it asks for new and finds old: one  *)
(* too many when it deletes any.                                           *)
LeftBlocks(new, old) == IF new < old THEN new + 1 ELSE new

(* The blocks before the size of the last is corrected: those that stay    *)
(* have their data, and their size but for a last one that was filled.     *)
LEMMA MadeRoom ==
  ASSUME NEW blocks \in Seq(Blocks), NEW new \in Nat \ {0}, Len(blocks) > 0
  PROVE  LET made == IF new > Len(blocks) THEN Appended(blocks, new)
                     ELSE IF new < Len(blocks) THEN Removed(blocks, new)
                     ELSE blocks
         IN  /\ made \in Seq(Blocks) /\ Len(made) = LeftBlocks(new, Len(blocks))
             /\ \A b \in 1 .. Len(made) :
                  /\ b <= Len(blocks) => made[b].data = blocks[b].data
                  /\ made[b].num = IF new > Len(blocks) /\ b >= Len(blocks)
                                   THEN kNumTuplesPerBlock ELSE blocks[b].num
<1> DEFINE old == Len(blocks)
           Good(made) ==
             /\ made \in Seq(Blocks) /\ Len(made) = LeftBlocks(new, old)
             /\ \A b \in 1 .. Len(made) :
                  /\ b <= old => made[b].data = blocks[b].data
                  /\ made[b].num = IF new > old /\ b >= old
                                   THEN kNumTuplesPerBlock ELSE blocks[b].num
<1>1. old \in Nat /\ blocks \in [1 .. old -> Blocks]
  OBVIOUS
<1>2. \A b \in 1 .. old : blocks[b] \in Blocks
  BY <1>1
<1>3. kNumTuplesPerBlock \in 0 .. kNumTuplesPerBlock
  BY Constants
<1>4. ASSUME new > old PROVE Good(Appended(blocks, new))
  <2> DEFINE made == Appended(blocks, new)
  <2>1. made = [b \in 1 .. new |->
                  IF b < old THEN blocks[b]
                  ELSE IF b = old THEN Block(kNumTuplesPerBlock, blocks[b].data)
                  ELSE CreateNewBlock(kNumTuplesPerBlock)]
    BY DEF Appended
  <2>2. CreateNewBlock(kNumTuplesPerBlock) \in Blocks
        /\ CreateNewBlock(kNumTuplesPerBlock).num = kNumTuplesPerBlock
    BY <1>3, FreshBlock
  <2>3. \A b \in 1 .. old : Block(kNumTuplesPerBlock, blocks[b].data) \in Blocks
    BY <1>1, <1>3, BlockType
  <2>4. \A b : Block(kNumTuplesPerBlock, blocks[b].data).num = kNumTuplesPerBlock
               /\ Block(kNumTuplesPerBlock, blocks[b].data).data = blocks[b].data
    BY DEF Block
  <2> HIDE DEF made, old
  <2>5. made \in [1 .. new -> Blocks]
    <3>1. ASSUME NEW b \in 1 .. new
          PROVE  (IF b < old THEN blocks[b]
                  ELSE IF b = old THEN Block(kNumTuplesPerBlock, blocks[b].data)
                  ELSE CreateNewBlock(kNumTuplesPerBlock)) \in Blocks
      <4>1. b <= old => b \in 1 .. old
        BY <1>1
      <4> QED BY <4>1, <1>1, <1>2, <2>2, <2>3
    <3> QED BY <3>1, <2>1
  <2>6. made \in Seq(Blocks) /\ Len(made) = new
    BY <2>5, AsSequence
  <2>7. ASSUME NEW b \in 1 .. new
        PROVE  /\ b <= old => made[b].data = blocks[b].data
               /\ made[b].num = IF b >= old THEN kNumTuplesPerBlock ELSE blocks[b].num
    <3>1. made[b] = IF b < old THEN blocks[b]
                    ELSE IF b = old THEN Block(kNumTuplesPerBlock, blocks[b].data)
                    ELSE CreateNewBlock(kNumTuplesPerBlock)
      BY <2>1
    <3> QED BY <1>1, <2>2, <2>4, <3>1
  <2> QED BY <1>1, <1>4, <2>6, <2>7 DEF LeftBlocks, made, old
<1>5. ASSUME new < old PROVE Good(Removed(blocks, new))
  <2> DEFINE made == Removed(blocks, new)
  <2>1. made = [b \in 1 .. new + 1 |-> blocks[b]]
    BY <1>1, <1>5 DEF Removed
  <2>2. made \in [1 .. new + 1 -> Blocks] /\ new + 1 \in Nat
    BY <1>1, <1>5, <2>1
  <2>3. made \in Seq(Blocks) /\ Len(made) = new + 1
    BY <2>2, AsSequence
  <2>4. \A b \in 1 .. new + 1 : made[b] = blocks[b]
    BY <2>1
  <2> HIDE DEF made
  <2> QED BY <1>1, <1>5, <2>3, <2>4 DEF LeftBlocks, made
<1>6. ASSUME new = old PROVE Good(blocks)
  <2> HIDE DEF old
  <2>1. LeftBlocks(new, old) = old /\ ~(new > old)
    <3>1. ~(new > old) /\ ~(new < old)
      BY <1>1, <1>6
    <3> QED BY <3>1, <1>6 DEF LeftBlocks
  <2> QED BY <2>1 DEF old
<1> DEFINE made == IF new > old THEN Appended(blocks, new)
                   ELSE IF new < old THEN Removed(blocks, new) ELSE blocks
<1>7. Good(made)
  <2> HIDE DEF Good, old
  <2>1. CASE new > old
    <3>1. made = Appended(blocks, new)
      BY <2>1
    <3> QED BY <3>1, <2>1, <1>4
  <2>2. CASE new < old
    <3>1. made = Removed(blocks, new)
      BY <2>2, <1>1
    <3> QED BY <3>1, <2>2, <1>5
  <2>3. CASE new = old
    <3>1. made = blocks
      BY <2>3, <1>1
    <3> QED BY <3>1, <2>3, <1>6
  <2> QED BY <2>1, <2>2, <2>3, <1>1
<1> QED BY <1>7

(* What a Resize leaves: the number of blocks, their data, their sizes.    *)
LEMMA ResizedShape ==
  ASSUME NEW blocks \in Seq(Blocks), NEW num \in 1 .. MaxTuples, Len(blocks) > 0
  PROVE  /\ Resized(blocks, num) \in Seq(Blocks)
         /\ Len(Resized(blocks, num)) = LeftBlocks(BlocksFor(num), Len(blocks))
         /\ \A b \in 1 .. Len(Resized(blocks, num)) :
              /\ b <= Len(blocks) => Resized(blocks, num)[b].data = blocks[b].data
              /\ Resized(blocks, num)[b].num =
                   IF b = Len(Resized(blocks, num)) /\ num % kNumTuplesPerBlock > 0
                   THEN num % kNumTuplesPerBlock
                   ELSE IF BlocksFor(num) > Len(blocks) /\ b >= Len(blocks)
                   THEN kNumTuplesPerBlock ELSE blocks[b].num
<1> DEFINE new == BlocksFor(num)
           made == IF new > Len(blocks) THEN Appended(blocks, new)
                   ELSE IF new < Len(blocks) THEN Removed(blocks, new)
                   ELSE blocks
           rest == num % kNumTuplesPerBlock
           after == Resized(blocks, num)
<1>1. new \in Nat \ {0} /\ new = CEIL(num, kNumTuplesPerBlock)
  BY BlocksAskedFor
<1>2. /\ made \in Seq(Blocks) /\ Len(made) = LeftBlocks(new, Len(blocks))
      /\ \A b \in 1 .. Len(made) :
           /\ b <= Len(blocks) => made[b].data = blocks[b].data
           /\ made[b].num = IF new > Len(blocks) /\ b >= Len(blocks)
                            THEN kNumTuplesPerBlock ELSE blocks[b].num
  <2> HIDE DEF new
  <2> QED BY <1>1, MadeRoom
<1>3. after = LastCorrected(made, num)
  BY <1>1 DEF Resized
<1>4. rest \in Position /\ num \in Nat
  BY BlocksForNat
<1>5. LastCorrected(made, num) =
        IF rest > 0 THEN [made EXCEPT ![Len(made)].num = rest] ELSE made
  BY DEF LastCorrected
<1>6. Len(made) \in Nat \ {0} /\ Len(blocks) \in Nat
  <2> HIDE DEF new, made
  <2>1. Len(blocks) \in Nat
    OBVIOUS
  <2> QED BY <1>1, <1>2, <2>1 DEF LeftBlocks
<1> HIDE DEF made, new, rest, after
<1>7. CASE rest > 0
  <2> DEFINE last == Len(made)
  <2>1. after = [made EXCEPT ![last].num = rest]
    BY <1>3, <1>5, <1>7
  <2>2. made \in [1 .. last -> Blocks] /\ last \in 1 .. last
    BY <1>2, <1>6
  <2> HIDE DEF last
  <2>3. after \in [1 .. last -> Blocks]
    <3>1. rest \in 0 .. kNumTuplesPerBlock
      BY <1>4, Constants DEF Position
    <3>2. [made[last] EXCEPT !.num = rest] \in Blocks
      BY <3>1, <2>2 DEF Blocks
    <3>3. after = [made EXCEPT ![last] = [made[last] EXCEPT !.num = rest]]
      BY <2>1, <2>2
    <3> QED BY <3>2, <3>3, <2>2
  <2>4. after \in Seq(Blocks) /\ Len(after) = last
    BY <2>3, <1>6, AsSequence DEF last
  <2>5. ASSUME NEW b \in 1 .. last
        PROVE  /\ after[b].data = made[b].data
               /\ after[b].num = IF b = last THEN rest ELSE made[b].num
    BY <2>1, <2>2 DEF Blocks
  <2>6. last = LeftBlocks(new, Len(blocks))
        /\ \A b \in 1 .. last :
           /\ b <= Len(blocks) => made[b].data = blocks[b].data
           /\ made[b].num = IF new > Len(blocks) /\ b >= Len(blocks)
                            THEN kNumTuplesPerBlock ELSE blocks[b].num
    BY <1>2 DEF last
  <2> QED BY <2>4, <2>5, <2>6, <1>7 DEF new, rest, after
<1>8. CASE ~(rest > 0)
  <2>1. after = made
    BY <1>3, <1>5, <1>8
  <2> QED BY <2>1, <1>2, <1>8 DEF new, rest, after
<1> QED BY <1>7, <1>8

(* A column whose blocks fit keeps that through a Resize but for the two   *)
(* kinds that ResizeMisses names, and those always lose it.                *)
LEMMA ResizeFits ==
  ASSUME NEW blocks \in Seq(Blocks), NEW was \in Nat, NEW num \in 1 .. MaxTuples,
         Len(blocks) > 0, Sizes(blocks) = SizesFor(was)
  PROVE  /\ num = was => Sizes(Resized(blocks, num)) = SizesFor(num)
         /\ num # was =>
              (Sizes(Resized(blocks, num)) = SizesFor(num) <=>
                 ~ \/ BlocksFor(num) < Len(blocks)
                   \/ /\ BlocksFor(num) = Len(blocks)
                      /\ num % kNumTuplesPerBlock = 0)
<1> DEFINE k == kNumTuplesPerBlock
           old == Len(blocks)
           new == BlocksFor(num)
           rest == num % k
           full == num \div k
           restwas == was % k
           fullwas == was \div k
           after == Resized(blocks, num)
<1>1. k \in Nat \ {0} /\ num \in Nat
  BY Constants
<1>2. full \in Nat /\ rest \in 0 .. k - 1 /\ num = k * full + rest
      /\ new = full + (IF rest > 0 THEN 1 ELSE 0)
  BY BlocksForNat DEF Position, BlocksFor
<1>3. fullwas \in Nat /\ restwas \in 0 .. k - 1 /\ was = k * fullwas + restwas
  BY BlocksForNat DEF Position
<1>4. old = fullwas + (IF restwas > 0 THEN 1 ELSE 0)
  BY LayoutShape DEF BlocksFor
<1>5. \A b \in 1 .. old : blocks[b].num = IF b <= fullwas THEN k ELSE restwas
  BY LayoutShape DEF SizeAt
<1>6. /\ after \in Seq(Blocks) /\ Len(after) = LeftBlocks(new, old)
      /\ \A b \in 1 .. Len(after) :
           after[b].num = IF b = Len(after) /\ rest > 0 THEN rest
                          ELSE IF new > old /\ b >= old THEN k ELSE blocks[b].num
  BY ResizedShape
<1>7. Sizes(after) = SizesFor(num) <=>
        /\ Len(after) = new
        /\ \A b \in 1 .. Len(after) : after[b].num = IF b <= full THEN k ELSE rest
  <2>1. \A b : SizeAt(num, b) = IF b <= full THEN k ELSE rest
    BY DEF SizeAt
  <2> HIDE DEF after, new, full, k, rest
  <2>2. Sizes(after) = SizesFor(num) <=>
        /\ Len(after) = BlocksFor(num)
        /\ \A b \in 1 .. Len(after) : after[b].num = SizeAt(num, b)
    BY <1>1, <1>6, LayoutShape
  <2> QED BY <2>1, <2>2 DEF new
<1>8. Len(after) = IF new < old THEN new + 1 ELSE new
  BY <1>6 DEF LeftBlocks
<1>9. old \in Nat /\ old > 0
  OBVIOUS
<1> HIDE DEF k, old, new, rest, full, restwas, fullwas, after
<1>10. CASE new < old
  <2>1. ~(Sizes(after) = SizesFor(num))
    BY <1>2, <1>7, <1>8, <1>10
  <2>2. num # was
    BY <1>1, <1>2, <1>3, <1>4, <1>10 DEF rest, full, restwas, fullwas
  <2> QED BY <2>1, <2>2, <1>10 DEF new, old, after
<1>11. CASE new = old
  <2>1. Len(after) = old /\ old = new
    BY <1>8, <1>9, <1>11
  <2>2. ASSUME NEW b \in 1 .. old
        PROVE  /\ after[b].num = IF b = old /\ rest > 0 THEN rest
                                 ELSE IF b <= fullwas THEN k ELSE restwas
               /\ b < old => b <= fullwas /\ b <= full
               /\ b = old /\ rest > 0 => b > full
    <3>1. after[b].num = IF b = old /\ rest > 0 THEN rest ELSE blocks[b].num
      BY <2>1, <1>6, <1>9
    <3> QED BY <3>1, <1>2, <1>3, <1>4, <1>5, <1>9, <2>1
  <2>3. ASSUME rest > 0 PROVE Sizes(after) = SizesFor(num)
    <3>1. ASSUME NEW b \in 1 .. old
          PROVE  after[b].num = IF b <= full THEN k ELSE rest
      BY <2>2, <2>3, <1>1, <1>2, <1>9
    <3> QED BY <3>1, <1>7, <2>1
  <2>4. ASSUME rest = 0, num = was PROVE Sizes(after) = SizesFor(num)
    <3>1. full = fullwas /\ restwas = 0
      BY <2>4 DEF rest, full, restwas, fullwas
    <3>2. ASSUME NEW b \in 1 .. old
          PROVE  after[b].num = IF b <= full THEN k ELSE rest
      <4>1. b <= full
        BY <3>1, <2>4, <1>2, <1>3, <1>4, <1>9
      <4> QED BY <4>1, <2>2, <2>4, <3>1, <1>2
    <3> QED BY <3>2, <1>7, <2>1
  <2>5. ASSUME rest = 0, num # was PROVE ~(Sizes(after) = SizesFor(num))
    <3>1. old = full /\ old \in 1 .. old
      BY <2>1, <2>5, <1>2, <1>9
    <3>2. SUFFICES ASSUME Sizes(after) = SizesFor(num) PROVE FALSE
      OBVIOUS
    <3>3. after[old].num = k
      BY <3>1, <3>2, <1>7, <1>9, <2>1
    <3>4. after[old].num = IF old <= fullwas THEN k ELSE restwas
      BY <3>1, <2>2, <2>5, <1>2
    <3>5. old <= fullwas
      BY <3>3, <3>4, <1>1, <1>3, <1>9
    <3>6. fullwas = old /\ restwas = 0
      BY <3>5, <1>3, <1>4, <1>9
    <3> QED BY <3>1, <3>6, <2>5, <1>2, <1>3
  <2> QED BY <2>3, <2>4, <2>5, <1>2, <1>11 DEF new, old, rest, after, k
<1>12. CASE new > old
  <2>1. Len(after) = new
    BY <1>2, <1>8, <1>9, <1>12
  <2>2. ASSUME NEW b \in 1 .. new
        PROVE  after[b].num = IF b <= full THEN k ELSE rest
    <3>1. after[b].num = IF b = new /\ rest > 0 THEN rest
                         ELSE IF b >= old THEN k ELSE blocks[b].num
      BY <2>1, <1>6, <1>12
    <3>2. b < old => blocks[b].num = k
      BY <1>3, <1>4, <1>5, <1>9
    <3>3. b <= full <=> ~(b = new /\ rest > 0)
      BY <1>2
    <3> QED BY <3>1, <3>2, <3>3, <1>9, <1>2
  <2>3. Sizes(after) = SizesFor(num)
    BY <2>1, <2>2, <1>7
  <2> QED BY <2>3, <1>2, <1>9, <1>12 DEF new, old, after
<1> QED BY <1>2, <1>9, <1>10, <1>11, <1>12

(* A Resize keeps the codes of every tuple both sizes hold.                *)
LEMMA ResizeKeeps ==
  ASSUME NEW blocks \in Seq(Blocks), NEW was \in Nat, NEW num \in 1 .. MaxTuples,
         Len(blocks) > 0, BlocksFor(was) <= Len(blocks),
         NEW id \in 0 .. was - 1, id < num
  PROVE  Resized(blocks, num)[BlockOf(id)].data = blocks[BlockOf(id)].data
<1>1. BlockOf(id) \in 1 .. BlocksFor(was)
  BY PlaceOf
<1>2. BlockOf(id) \in 1 .. BlocksFor(num)
  <2>1. num \in Nat /\ id \in 0 .. num - 1
    BY Constants
  <2> QED BY <2>1, PlaceOf
<1>3. BlocksFor(was) \in Nat /\ BlocksFor(num) \in Nat /\ Len(blocks) \in Nat
  <2>1. num \in Nat /\ Len(blocks) \in Nat
    BY Constants
  <2> QED BY <2>1, BlocksForNat
<1>4. LeftBlocks(BlocksFor(num), Len(blocks)) \in Nat
      /\ LeftBlocks(BlocksFor(num), Len(blocks)) >= BlocksFor(num)
  BY <1>3 DEF LeftBlocks
<1>5. Len(Resized(blocks, num)) = LeftBlocks(BlocksFor(num), Len(blocks))
      /\ \A b \in 1 .. Len(Resized(blocks, num)) :
           b <= Len(blocks) => Resized(blocks, num)[b].data = blocks[b].data
  BY ResizedShape
<1>6. BlockOf(id) \in 1 .. Len(Resized(blocks, num)) /\ BlockOf(id) <= Len(blocks)
  BY <1>1, <1>2, <1>3, <1>4, <1>5
<1> QED BY <1>5, <1>6

-----------------------------------------------------------------------------
(* The other calls store codes and leave every block its size.             *)

LEMMA SameShape ==
  ASSUME NEW before \in Seq(Blocks), NEW after \in Seq(Blocks),
         Len(after) = Len(before),
         \A b \in 1 .. Len(before) : after[b].num = before[b].num
  PROVE  Sizes(after) = Sizes(before)
<1>1. Sizes(after) = [b \in 1 .. Len(after) |-> after[b].num]
  BY DEF Sizes
<1>2. Sizes(before) = [b \in 1 .. Len(before) |-> before[b].num]
  BY DEF Sizes
<1> QED BY <1>1, <1>2

(* Blocks changed in their data alone.                                     *)
WithData(blocks, data) ==
  [b \in 1 .. Len(blocks) |-> [blocks[b] EXCEPT !.data = data[b]]]

LEMMA DataChanged ==
  ASSUME NEW blocks \in Seq(Blocks),
         NEW data \in [1 .. Len(blocks) -> [Position -> Codes]]
  PROVE  /\ WithData(blocks, data) \in Seq(Blocks)
         /\ Len(WithData(blocks, data)) = Len(blocks)
         /\ Sizes(WithData(blocks, data)) = Sizes(blocks)
         /\ \A b \in 1 .. Len(blocks) : WithData(blocks, data)[b].data = data[b]
<1> DEFINE n == Len(blocks)
           after == WithData(blocks, data)
<1>1. n \in Nat /\ blocks \in [1 .. n -> Blocks]
  OBVIOUS
<1> HIDE DEF n
<1>2. ASSUME NEW b \in 1 .. n
      PROVE  /\ [blocks[b] EXCEPT !.data = data[b]] \in Blocks
             /\ [blocks[b] EXCEPT !.data = data[b]].num = blocks[b].num
             /\ [blocks[b] EXCEPT !.data = data[b]].data = data[b]
  BY <1>1 DEF Blocks, n
<1>3. after \in [1 .. n -> Blocks]
      /\ \A b \in 1 .. n : after[b].num = blocks[b].num /\ after[b].data = data[b]
  BY <1>2 DEF n, WithData
<1> HIDE DEF after
<1>4. after \in Seq(Blocks) /\ Len(after) = n
  BY <1>1, <1>3, AsSequence
<1>5. Sizes(after) = Sizes(blocks)
  BY <1>3, <1>4, SameShape DEF n
<1> QED BY <1>3, <1>4, <1>5 DEF n, after

LEMMA StoredShape ==
  ASSUME NEW blocks \in Seq(Blocks), NEW id \in Nat, NEW code \in Codes,
         BlockOf(id) \in DOMAIN blocks
  PROVE  /\ Stored(blocks, id, code) \in Seq(Blocks)
         /\ Len(Stored(blocks, id, code)) = Len(blocks)
         /\ Sizes(Stored(blocks, id, code)) = Sizes(blocks)
<1> DEFINE at == BlockOf(id)
           p == PosOf(id)
           after == Stored(blocks, id, code)
           data == [b \in 1 .. Len(blocks) |->
                      IF b = at THEN [blocks[b].data EXCEPT ![p] = code] ELSE blocks[b].data]
<1>1. after = [blocks EXCEPT ![at].data[p] = code]
  BY DEF Stored
<1>2. at \in 1 .. Len(blocks) /\ blocks \in [1 .. Len(blocks) -> Blocks]
  OBVIOUS
<1>3. \A b \in 1 .. Len(blocks) :
        blocks[b].data \in [Position -> Codes] /\ blocks[b] \in Blocks
  BY BlockType
<1> HIDE DEF at, p, after
<1>4. data \in [1 .. Len(blocks) -> [Position -> Codes]]
  BY <1>3
<1>5. after = WithData(blocks, data)
  <2>1. after = [b \in 1 .. Len(blocks) |->
                   IF b = at THEN [blocks[b] EXCEPT !.data[p] = code] ELSE blocks[b]]
    BY <1>1, <1>2
  <2>2. ASSUME NEW b \in 1 .. Len(blocks), b = at
        PROVE  [blocks[b] EXCEPT !.data[p] = code] = [blocks[b] EXCEPT !.data = data[b]]
    BY <2>2, <1>3
  <2>3. ASSUME NEW b \in 1 .. Len(blocks), b # at
        PROVE  blocks[b] = [blocks[b] EXCEPT !.data = data[b]]
    BY <2>3, <1>3 DEF Blocks
  <2> HIDE DEF data
  <2> QED BY <2>1, <2>2, <2>3 DEF WithData
<1> HIDE DEF data
<1> QED BY <1>4, <1>5, DataChanged DEF after

LEMMA SetTupleStep ==
  ASSUME TypeOK, SetTuple
  PROVE  /\ blocks_' \in Seq(Blocks) /\ Len(blocks_') = Len(blocks_)
         /\ Sizes(blocks_') = Sizes(blocks_)
<1>1. blocks_ \in Seq(Blocks) /\ num_tuples_ \in Nat
  BY Constants DEF TypeOK
<1>2. CASE blocks_' = blocks_
  BY <1>1, <1>2
<1>3. CASE \E id \in 0 .. num_tuples_ - 1, code \in Codes :
             BlockOf(id) \in DOMAIN blocks_ /\ blocks_' = Stored(blocks_, id, code)
  <2>1. PICK id \in 0 .. num_tuples_ - 1, code \in Codes :
          BlockOf(id) \in DOMAIN blocks_ /\ blocks_' = Stored(blocks_, id, code)
    BY <1>3
  <2>2. id \in Nat
    BY <1>1
  <2> QED BY <2>1, <2>2, <1>1, StoredShape
<1> QED BY <1>2, <1>3 DEF SetTuple

LEMMA LoadTextFileStep ==
  ASSUME TypeOK, LoadTextFile
  PROVE  /\ blocks_' \in Seq(Blocks) /\ Len(blocks_') = Len(blocks_)
         /\ Sizes(blocks_') = Sizes(blocks_)
<1>1. blocks_ \in Seq(Blocks) /\ num_tuples_ \in Nat
  BY Constants DEF TypeOK
<1>2. CASE blocks_' = blocks_
  BY <1>1, <1>2
<1>3. CASE blocks_' # blocks_
  <2>1. PICK lines \in Arrays :
          blocks_' = [b \in DOMAIN blocks_ |->
            [blocks_[b] EXCEPT !.data = [p \in Position |->
               IF (b - 1) * kNumTuplesPerBlock + p
                    < (IF Len(lines) < num_tuples_ THEN Len(lines) ELSE num_tuples_)
               THEN lines[(b - 1) * kNumTuplesPerBlock + p + 1]
               ELSE blocks_[b].data[p]]]]
    BY <1>3 DEF LoadTextFile
  <2> DEFINE n == IF Len(lines) < num_tuples_ THEN Len(lines) ELSE num_tuples_
             data == [b \in 1 .. Len(blocks_) |-> [p \in Position |->
               IF (b - 1) * kNumTuplesPerBlock + p < n
               THEN lines[(b - 1) * kNumTuplesPerBlock + p + 1]
               ELSE blocks_[b].data[p]]]
  <2>2. lines \in Seq(Codes) /\ n \in 0 .. Len(lines)
    BY <1>1, ColumnAssumption
  <2>3. blocks_' = WithData(blocks_, data)
    <3>1. DOMAIN blocks_ = 1 .. Len(blocks_)
      BY <1>1
    <3> QED BY <2>1, <3>1 DEF WithData
  <2> HIDE DEF n
  <2>4. ASSUME NEW b \in 1 .. Len(blocks_), NEW p \in Position
        PROVE  (IF (b - 1) * kNumTuplesPerBlock + p < n
                THEN lines[(b - 1) * kNumTuplesPerBlock + p + 1]
                ELSE blocks_[b].data[p]) \in Codes
    <3>1. b - 1 \in Nat /\ p \in Nat
      BY <1>1 DEF Position
    <3>2. (b - 1) * kNumTuplesPerBlock + p \in Nat
      BY <3>1, Constants
    <3>3. blocks_[b].data[p] \in Codes
      <4>1. blocks_[b] \in Blocks
        BY <1>1
      <4> QED BY <4>1 DEF Blocks
    <3> DEFINE id == (b - 1) * kNumTuplesPerBlock + p
    <3> HIDE DEF id
    <3>4. ASSUME id < n PROVE lines[id + 1] \in Codes
      BY <3>2, <3>4, <2>2 DEF id
    <3> QED BY <3>3, <3>4 DEF id
  <2>5. data \in [1 .. Len(blocks_) -> [Position -> Codes]]
    BY <2>4
  <2> HIDE DEF data
  <2> QED BY <2>3, <2>5, <1>1, DataChanged
<1> QED BY <1>2, <1>3

-----------------------------------------------------------------------------
(* BulkLoadArray.                                                          *)

(* A block with size codes of an array, those after done, from start on.   *)
Filled(blocks, b, start, size, array, done) ==
  [blocks EXCEPT ![b].data = [p \in Position |->
     IF start <= p /\ p < start + size THEN array[done + p - start + 1] ELSE @[p]]]

LEMMA FilledShape ==
  ASSUME NEW blocks \in Seq(Blocks), NEW array \in Seq(Codes), NEW done \in Nat,
         NEW b \in 1 .. Len(blocks), NEW start \in Nat, NEW size \in Nat,
         done + size <= Len(array)
  PROVE  LET after == Filled(blocks, b, start, size, array, done)
         IN  /\ after \in Seq(Blocks) /\ Len(after) = Len(blocks)
             /\ Sizes(after) = Sizes(blocks)
             /\ \A c \in 1 .. Len(blocks), p \in Position :
                  after[c].data[p] =
                    IF c = b /\ start <= p /\ p < start + size
                    THEN array[done + p - start + 1] ELSE blocks[c].data[p]
<1> DEFINE after == Filled(blocks, b, start, size, array, done)
           part == [p \in Position |->
                      IF start <= p /\ p < start + size
                      THEN array[done + p - start + 1] ELSE blocks[b].data[p]]
           data == [c \in 1 .. Len(blocks) |-> IF c = b THEN part ELSE blocks[c].data]
<1>1. /\ blocks \in [1 .. Len(blocks) -> Blocks]
      /\ \A c \in 1 .. Len(blocks) :
           blocks[c].data \in [Position -> Codes] /\ blocks[c] \in Blocks
  BY BlockType
<1>2. ASSUME NEW p \in Position
      PROVE  (IF start <= p /\ p < start + size
              THEN array[done + p - start + 1] ELSE blocks[b].data[p]) \in Codes
  <2>1. p \in Nat
    BY DEF Position
  <2>2. ASSUME start <= p, p < start + size PROVE array[done + p - start + 1] \in Codes
    <3>1. done + p - start + 1 \in 1 .. Len(array)
      BY <2>1, <2>2
    <3> QED BY <3>1
  <2> QED BY <2>2, <1>1
<1>3. part \in [Position -> Codes]
  BY <1>2
<1>4. after = [c \in 1 .. Len(blocks) |->
                 IF c = b THEN [blocks[c] EXCEPT !.data = part] ELSE blocks[c]]
  BY <1>1 DEF Filled
<1> HIDE DEF part, after
<1>5. data \in [1 .. Len(blocks) -> [Position -> Codes]]
  BY <1>1, <1>3
<1>6. after = WithData(blocks, data)
  <2>1. ASSUME NEW c \in 1 .. Len(blocks), c # b
        PROVE  blocks[c] = [blocks[c] EXCEPT !.data = data[c]]
    BY <2>1, <1>1 DEF Blocks
  <2>2. data[b] = part
    OBVIOUS
  <2> HIDE DEF data
  <2> QED BY <1>4, <2>1, <2>2 DEF WithData
<1>7. \A c \in 1 .. Len(blocks), p \in Position :
        data[c][p] = IF c = b /\ start <= p /\ p < start + size
                     THEN array[done + p - start + 1] ELSE blocks[c].data[p]
  BY DEF part
<1> HIDE DEF data
<1>8. /\ after \in Seq(Blocks) /\ Len(after) = Len(blocks)
      /\ Sizes(after) = Sizes(blocks)
      /\ \A c \in 1 .. Len(blocks) : after[c].data = data[c]
  BY <1>5, <1>6, DataChanged
<1>9. \A c \in 1 .. Len(blocks), p \in Position :
        after[c].data[p] = IF c = b /\ start <= p /\ p < start + size
                           THEN array[done + p - start + 1] ELSE blocks[c].data[p]
  BY <1>7, <1>8
<1> QED BY <1>8, <1>9 DEF after

(* The record of a load and how far a turn of its loop moves it.           *)
LEMMA LoadType ==
  ASSUME TypeOK, load # NoLoad
  PROVE  /\ load \in Loads /\ load.array \in Seq(Codes) /\ load.pos \in Nat
         /\ load.done \in Nat /\ load.done <= Len(load.array)
         /\ load.block_id \in Nat \ {0} /\ load.pos_in_block \in Position
BY ColumnAssumption DEF TypeOK, Loads

LEMMA AdvancedType ==
  ASSUME TypeOK, load # NoLoad, NEW size \in Nat
  PROVE  /\ Advanced(size) \in Loads
         /\ Advanced(size).array = load.array /\ Advanced(size).pos = load.pos
         /\ Advanced(size).before = load.before
         /\ Advanced(size).done = load.done + size
         /\ Advanced(size).block_id = load.block_id + 1
         /\ Advanced(size).pos_in_block = 0
<1>1. load \in Loads
  BY LoadType
<1>2. 0 \in Position
  BY Constants DEF Position
<1>3. Advanced(size) =
        [array |-> load.array, pos |-> load.pos, before |-> load.before,
         done |-> load.done + size, block_id |-> load.block_id + 1, pos_in_block |-> 0]
  <2> DEFINE l == load
  <2>1. l = [array |-> l.array, pos |-> l.pos, before |-> l.before, done |-> l.done,
             block_id |-> l.block_id, pos_in_block |-> l.pos_in_block]
    BY <1>1 DEF Loads
  <2>2. Advanced(size) = [l EXCEPT !.done = l.done + size,
                                   !.block_id = l.block_id + 1, !.pos_in_block = 0]
    BY DEF Advanced
  <2> HIDE DEF l
  <2> QED BY <2>1, <2>2 DEF l
<1>4. load.done + size \in Nat /\ load.block_id + 1 \in Nat \ {0}
  BY LoadType
<1>5. load.array \in Arrays /\ load.pos \in 0 .. MaxTuples /\ load.before \in Seq(Blocks)
  BY <1>1 DEF Loads
<1>6. Advanced(size) \in Loads
  BY <1>2, <1>3, <1>4, <1>5 DEF Loads
<1> QED BY <1>3, <1>6

(* How many codes a turn stores: what the block has room for, if it counts *)
(* that as the code does, or what is left.                                 *)
Turn == IF Room(load.block_id, load.pos_in_block) < Len(load.array) - load.done
        THEN Room(load.block_id, load.pos_in_block)
        ELSE Len(load.array) - load.done

LEMMA TurnType ==
  ASSUME TypeOK, load # NoLoad, load.block_id \in DOMAIN blocks_
  PROVE  /\ Turn \in Nat /\ load.done + Turn <= Len(load.array)
         /\ Room(load.block_id, load.pos_in_block) \in Nat
<1> DEFINE room == Room(load.block_id, load.pos_in_block)
<1>1. blocks_ \in Seq(Blocks)
  BY DEF TypeOK
<1>2. blocks_[load.block_id].num \in Nat /\ load.pos_in_block \in Nat
  <2>1. blocks_[load.block_id] \in Blocks
    BY <1>1
  <2> QED BY <2>1, LoadType, Constants DEF Blocks, Position
<1>3. room \in Nat
  BY <1>2, Constants DEF Room
<1> HIDE DEF room
<1>4. load.done \in Nat /\ Len(load.array) \in Nat /\ load.done <= Len(load.array)
  BY LoadType
<1>5. Turn = IF room < Len(load.array) - load.done THEN room
             ELSE Len(load.array) - load.done
  BY DEF Turn, room
<1> QED BY <1>3, <1>4, <1>5 DEF room

(* A turn ends the program or stores its codes.                            *)
LEMMA LoadBlockCases ==
  ASSUME TypeOK, LoadBlock
  PROVE  \/ /\ status' # "ok" /\ UNCHANGED <<blocks_, load>>
            /\ \/ load.block_id \notin DOMAIN blocks_
               \/ load.pos_in_block + Turn > blocks_[load.block_id].num
               \/ load.pos_in_block + Turn > kNumTuplesPerBlock
         \/ /\ load.block_id \in DOMAIN blocks_ /\ UNCHANGED status
            /\ load.pos_in_block + Turn <= kNumTuplesPerBlock
            /\ blocks_' = Filled(blocks_, load.block_id, load.pos_in_block, Turn,
                                 load.array, load.done)
            /\ load' = Advanced(Turn)
<1> DEFINE b == load.block_id
           start == load.pos_in_block
<1>1. IF b \notin DOMAIN blocks_
      THEN status' = "undefined" /\ UNCHANGED <<blocks_, load>>
      ELSE IF ~NDEBUG /\ start + Turn > blocks_[b].num
      THEN status' = "load_assert" /\ UNCHANGED <<blocks_, load>>
      ELSE IF start + Turn > kNumTuplesPerBlock
      THEN status' = "undefined" /\ UNCHANGED <<blocks_, load>>
      ELSE /\ blocks_' = Filled(blocks_, b, start, Turn, load.array, load.done)
           /\ load' = Advanced(Turn)
           /\ UNCHANGED status
  BY DEF LoadBlock, Turn, Filled
<1>2. load # NoLoad
  BY DEF LoadBlock
<1>3. b \in DOMAIN blocks_ =>
        (~(start + Turn > kNumTuplesPerBlock) <=> start + Turn <= kNumTuplesPerBlock)
  BY <1>2, TurnType, LoadType, Constants DEF Position
<1> HIDE DEF b, start
<1> QED BY <1>1, <1>3 DEF b, start

LEMMA LoadBlockStep ==
  ASSUME TypeOK, LoadBlock
  PROVE  /\ blocks_' \in Seq(Blocks) /\ Len(blocks_') = Len(blocks_)
         /\ Sizes(blocks_') = Sizes(blocks_)
         /\ load' # NoLoad /\ load' \in Loads /\ load'.done <= Len(load'.array)
<1>1. load # NoLoad /\ blocks_ \in Seq(Blocks)
  BY DEF LoadBlock, TypeOK
<1>2. CASE UNCHANGED <<blocks_, load>>
  BY <1>1, <1>2, LoadType
<1>3. CASE /\ load.block_id \in DOMAIN blocks_
           /\ blocks_' = Filled(blocks_, load.block_id, load.pos_in_block, Turn,
                                load.array, load.done)
           /\ load' = Advanced(Turn)
  <2>1. Turn \in Nat /\ load.done + Turn <= Len(load.array)
    BY <1>1, <1>3, TurnType
  <2>2. /\ load.array \in Seq(Codes) /\ load.done \in Nat /\ load.pos_in_block \in Nat
    BY <1>1, LoadType DEF Position
  <2>3. load.block_id \in 1 .. Len(blocks_)
    BY <1>1, <1>3
  <2>4. /\ blocks_' \in Seq(Blocks) /\ Len(blocks_') = Len(blocks_)
        /\ Sizes(blocks_') = Sizes(blocks_)
    BY <1>1, <1>3, <2>1, <2>2, <2>3, FilledShape
  <2>5. load' \in Loads /\ load'.done = load.done + Turn /\ load'.array = load.array
    BY <1>1, <1>3, <2>1, AdvancedType
  <2>6. load' # NoLoad
    BY <2>5, ColumnAssumption
  <2> QED BY <2>1, <2>4, <2>5, <2>6
<1> QED BY <1>2, <1>3, LoadBlockCases

(* Where the blocks fit the tuples, a load that is not done has a block to *)
(* go on in, whose size does not wrap when its place is subtracted.        *)
LEMMA LoadPlace ==
  ASSUME TypeOK, LoadOK, Layout, load # NoLoad, load.done < Len(load.array)
  PROVE  /\ load.block_id \in 1 .. Len(blocks_)
         /\ load.pos_in_block < blocks_[load.block_id].num
         /\ blocks_[load.block_id].num <= kNumTuplesPerBlock
         /\ Room(load.block_id, load.pos_in_block)
              = blocks_[load.block_id].num - load.pos_in_block
         /\ \/ blocks_[load.block_id].num = kNumTuplesPerBlock
            \/ num_tuples_ = kNumTuplesPerBlock * (load.block_id - 1)
                               + blocks_[load.block_id].num
<1> DEFINE k == kNumTuplesPerBlock
           b == load.block_id
           start == load.pos_in_block
           at == load.pos + load.done
           n == blocks_[b].num
<1>1. /\ blocks_ \in Seq(Blocks) /\ num_tuples_ \in Nat
      /\ load.pos \in Nat /\ load.done \in Nat /\ Len(load.array) \in Nat
      /\ b \in Nat \ {0} /\ start \in Position
  BY LoadType, Constants DEF TypeOK
<1>2. at = k * (b - 1) + start /\ load.pos + Len(load.array) <= num_tuples_
  BY DEF LoadOK
<1>3. at \in 0 .. num_tuples_ - 1
  BY <1>1, <1>2
<1>4. BlockOf(at) = b /\ PosOf(at) = start
  <2> HIDE DEF at, b, start
  <2> QED BY <1>1, <1>2, PlaceUnique DEF k
<1>5. /\ Len(blocks_) = BlocksFor(num_tuples_)
      /\ \A c \in 1 .. Len(blocks_) : blocks_[c].num = SizeAt(num_tuples_, c)
  BY <1>1, LayoutShape DEF Layout
<1>6. BlockOf(at) \in 1 .. BlocksFor(num_tuples_)
      /\ PosOf(at) < SizeAt(num_tuples_, BlockOf(at))
  <2> HIDE DEF at
  <2> QED BY <1>1, <1>3, PlaceOf
<1>7. b \in 1 .. Len(blocks_) /\ start < n /\ n = SizeAt(num_tuples_, b)
  BY <1>4, <1>5, <1>6
<1>8. /\ num_tuples_ \div k \in Nat /\ num_tuples_ % k \in 0 .. k - 1
      /\ num_tuples_ = k * (num_tuples_ \div k) + (num_tuples_ % k)
      /\ BlocksFor(num_tuples_) =
           (num_tuples_ \div k) + IF num_tuples_ % k > 0 THEN 1 ELSE 0
  BY <1>1, BlocksForNat DEF Position, BlocksFor
<1>9. n = IF b <= num_tuples_ \div k THEN k ELSE num_tuples_ % k
  BY <1>7 DEF SizeAt
<1>10. k \in Nat \ {0} /\ k < SizeRange /\ start \in Nat /\ SizeRange \in Nat
  BY <1>1, Constants DEF Position
<1> DEFINE full == num_tuples_ \div k
           rest == num_tuples_ % k
<1>11. n \in 0 .. k /\ n - start \in 0 .. SizeRange - 1
  <2> HIDE DEF n, k, start, b, full, rest
  <2>1. n \in 0 .. k
    BY <1>8, <1>9, <1>10 DEF full, rest
  <2> QED BY <2>1, <1>7, <1>10
<1>12. Room(b, start) = n - start
  <2>1. Room(b, start) = (n - start) % SizeRange
    BY DEF Room
  <2> HIDE DEF n, k, start, b
  <2> QED BY <2>1, <1>10, <1>11
<1>13. n = k \/ num_tuples_ = k * (b - 1) + n
  <2>1. b <= BlocksFor(num_tuples_)
    BY <1>4, <1>6
  <2> HIDE DEF n, k, start, b
  <2>2. CASE b <= full
    BY <2>2, <1>9
  <2>3. CASE ~(b <= full)
    <3>1. b = full + 1 /\ n = rest
      BY <2>1, <2>3, <1>1, <1>8, <1>9
    <3>2. b - 1 = full
      BY <3>1, <1>8
    <3> QED BY <3>1, <3>2, <1>8
  <2> QED BY <2>2, <2>3
<1> QED BY <1>7, <1>11, <1>12, <1>13

(* The smaller of what is left of a block and what is left of the array.   *)
LEMMA SmallerFits ==
  ASSUME NEW start \in Nat, NEW n \in Nat, NEW k \in Nat, NEW done \in Nat,
         NEW len \in Nat, NEW turn, start < n, n <= k, done < len,
         turn = IF n - start < len - done THEN n - start ELSE len - done
  PROVE  /\ turn \in Nat /\ start + turn <= n /\ start + turn <= k
         /\ done + turn <= len
         /\ done + turn < len => start + turn = n
<1>1. CASE n - start < len - done
  <2>1. turn = n - start
    BY <1>1
  <2> QED BY <2>1, <1>1
<1>2. CASE ~(n - start < len - done)
  <2>1. turn = len - done
    BY <1>2
  <2> QED BY <2>1, <1>2
<1> QED BY <1>1, <1>2

(* A turn of the loop on blocks that fit does not end the program and      *)
(* brings the array forward.                                               *)
LEMMA LoadGoesOn ==
  ASSUME TypeOK, LoadOK, Layout, LoadBlock
  PROVE  status' = status /\ LoadOK'
<1> DEFINE k == kNumTuplesPerBlock
           b == load.block_id
           start == load.pos_in_block
           n == blocks_[b].num
           at == load.pos + load.done
           len == Len(load.array)
<1>1. /\ load # NoLoad /\ load.done < len /\ status = "ok"
      /\ num_tuples_' = num_tuples_
  BY DEF LoadBlock
<1>2. /\ b \in 1 .. Len(blocks_) /\ start < n /\ n <= k
      /\ Room(b, start) = n - start
      /\ n = k \/ num_tuples_ = k * (b - 1) + n
  BY <1>1, LoadPlace
<1>3. /\ blocks_ \in Seq(Blocks) /\ num_tuples_ \in Nat /\ k \in Nat \ {0}
      /\ load.pos \in Nat /\ load.done \in Nat /\ len \in Nat
      /\ b \in Nat \ {0} /\ start \in Nat /\ n \in Nat
      /\ load.array \in Seq(Codes)
  <2>1. blocks_ \in Seq(Blocks) /\ num_tuples_ \in Nat /\ k \in Nat \ {0}
    BY Constants DEF TypeOK
  <2>2. blocks_[b] \in Blocks
    BY <1>2, <2>1
  <2>3. n \in Nat
    BY <2>2, Constants DEF Blocks
  <2> QED BY <1>1, <2>1, <2>3, LoadType DEF Position
<1>4. Turn = IF n - start < len - load.done THEN n - start ELSE len - load.done
  BY <1>2 DEF Turn
<1>5. /\ Turn \in Nat /\ start + Turn <= n /\ start + Turn <= k
      /\ load.done + Turn <= len
      /\ load.done + Turn < len => start + Turn = n
  <2> DEFINE done == load.done
  <2>1. /\ start \in Nat /\ n \in Nat /\ k \in Nat /\ done \in Nat /\ len \in Nat
        /\ start < n /\ n <= k /\ done < len
        /\ Turn = IF n - start < len - done THEN n - start ELSE len - done
    BY <1>1, <1>2, <1>3, <1>4
  <2> HIDE DEF b, n, k, start, len, done
  <2>2. /\ Turn \in Nat /\ start + Turn <= n /\ start + Turn <= k
        /\ done + Turn <= len
        /\ done + Turn < len => start + Turn = n
    BY <2>1, SmallerFits
  <2> QED BY <2>2 DEF done
<1>6. b \in DOMAIN blocks_
  BY <1>2, <1>3
<1>7. /\ UNCHANGED status
      /\ blocks_' = Filled(blocks_, b, start, Turn, load.array, load.done)
      /\ load' = Advanced(Turn)
  <2>1. ~(start + Turn > n) /\ ~(start + Turn > k)
    <3> HIDE DEF b, n, k, start, len
    <3> QED BY <1>3, <1>5
  <2> QED BY <2>1, <1>6, LoadBlockCases
<1>8. /\ load'.array = load.array /\ load'.pos = load.pos
      /\ load'.before = load.before /\ load'.done = load.done + Turn
      /\ load'.block_id = b + 1 /\ load'.pos_in_block = 0
  BY <1>1, <1>5, <1>7, AdvancedType
<1>9. \A c \in 1 .. Len(blocks_), p \in Position :
        blocks_'[c].data[p] =
          IF c = b /\ start <= p /\ p < start + Turn
          THEN load.array[load.done + p - start + 1] ELSE blocks_[c].data[p]
  <2>1. load.done + Turn <= Len(load.array) /\ Turn \in Nat
    BY <1>5
  <2>2. /\ blocks_ \in Seq(Blocks) /\ load.array \in Seq(Codes) /\ load.done \in Nat
        /\ b \in 1 .. Len(blocks_) /\ start \in Nat
    BY <1>2, <1>3
  <2>3. blocks_' = Filled(blocks_, b, start, Turn, load.array, load.done)
    BY <1>7
  <2> HIDE DEF b, start, k, n
  <2> QED BY <2>1, <2>2, <2>3, FilledShape
<1>10. at = k * (b - 1) + start /\ load.pos + len <= num_tuples_
  BY <1>1 DEF LoadOK
<1>11. \A id \in 0 .. num_tuples_ - 1 :
         GetTuple(id) = IF load.pos <= id /\ id < at THEN load.array[id - load.pos + 1]
                        ELSE load.before[BlockOf(id)].data[PosOf(id)]
  BY <1>1 DEF LoadOK
<1>12. ASSUME load.done + Turn < len
       PROVE  at + Turn = k * b
  <2> HIDE DEF b, n, k, start, len
  <2>1. start + Turn = n
    BY <1>5, <1>12
  <2>2. at + Turn < load.pos + len
    BY <1>3, <1>5, <1>12
  <2>3. at + Turn = k * (b - 1) + n
    BY <2>1, <1>3, <1>5, <1>10
  <2>4. n = k
    BY <2>2, <2>3, <1>2, <1>3, <1>5, <1>10
  <2> QED BY <2>3, <2>4, <1>3
<1>13. ASSUME NEW id \in 0 .. num_tuples_ - 1
       PROVE  blocks_'[BlockOf(id)].data[PosOf(id)] =
                IF load.pos <= id /\ id < at + Turn
                THEN load.array[id - load.pos + 1]
                ELSE load.before[BlockOf(id)].data[PosOf(id)]
  <2> DEFINE c == BlockOf(id)
             p == PosOf(id)
  <2>1. c \in 1 .. BlocksFor(num_tuples_) /\ p \in Position /\ id = k * (c - 1) + p
    BY <1>3, PlaceOf
  <2>2. Len(blocks_) = BlocksFor(num_tuples_)
    BY <1>3, LayoutShape DEF Layout
  <2>3. c \in Nat \ {0} /\ p \in 0 .. k - 1 /\ id \in Nat
    <3>1. BlocksFor(num_tuples_) \in Nat
      BY <1>3, BlocksForNat
    <3>2. id \in Nat /\ p \in 0 .. k - 1
      BY <2>1, <1>3 DEF Position
    <3> HIDE DEF c
    <3> QED BY <3>1, <3>2, <2>1
  <2>4. blocks_[c].data[p] = GetTuple(id)
    BY DEF GetTuple
  <2> HIDE DEF b, n, k, start, len, c, p
  <2>5. (c = b /\ start <= p /\ p < start + Turn) <=> (at <= id /\ id < at + Turn)
    <3> DEFINE X == k * (c - 1)
               Y == k * (b - 1)
    <3>1. X \in Nat /\ Y \in Nat
      BY <2>3, <1>3
    <3>2. /\ c = b => X = Y
          /\ c < b => X + k <= Y
          /\ c > b => Y + k <= X
      BY <2>3, <1>3
    <3>3. id = X + p /\ at = Y + start
      BY <2>1, <1>10
    <3>4. p \in Nat /\ p < k /\ start \in Nat /\ Turn \in Nat /\ start + Turn <= k
          /\ k \in Nat /\ c \in Nat /\ b \in Nat
      BY <2>3, <1>3, <1>5
    <3> HIDE DEF X, Y, at
    <3> QED BY <3>1, <3>2, <3>3, <3>4
  <2>6. c = b => load.done + p - start + 1 = id - load.pos + 1
    BY <2>1, <2>3, <1>3, <1>10
  <2>7. blocks_'[c].data[p] =
          IF at <= id /\ id < at + Turn THEN load.array[id - load.pos + 1]
          ELSE GetTuple(id)
    <3>1. blocks_'[c].data[p] =
            IF c = b /\ start <= p /\ p < start + Turn
            THEN load.array[load.done + p - start + 1] ELSE blocks_[c].data[p]
      BY <2>1, <2>2, <1>9
    <3> QED BY <3>1, <2>4, <2>5, <2>6
  <2>8. GetTuple(id) = IF load.pos <= id /\ id < at THEN load.array[id - load.pos + 1]
                       ELSE load.before[c].data[p]
    BY <1>11 DEF c, p
  <2> HIDE DEF at
  <2>9. at \in Nat /\ load.pos <= at
    BY <1>3 DEF at
  <2> QED BY <2>3, <2>7, <2>8, <2>9, <1>3, <1>5 DEF c, p
<1>14. LoadOK'
  <2>1. load'.pos + load'.done = at + Turn
    BY <1>3, <1>5, <1>8
  <2>2. load'.pos + Len(load'.array) <= num_tuples_'
    BY <1>1, <1>8, <1>10
  <2>3. load'.done < Len(load'.array) =>
          load'.pos + load'.done = k * (load'.block_id - 1) + load'.pos_in_block
    <3> HIDE DEF at
    <3>1. load.done + Turn < len => at + Turn = k * b
      BY <1>12
    <3>2. load'.block_id - 1 = b
      BY <1>3, <1>8
    <3>3. k * (load'.block_id - 1) + load'.pos_in_block = k * b
      <4> HIDE DEF b, k
      <4> QED BY <3>2, <1>3, <1>8
    <3> QED BY <3>1, <3>3, <2>1, <1>8
  <2>4. \A id \in 0 .. num_tuples_' - 1 :
          GetTuple(id)' =
            IF load'.pos <= id /\ id < load'.pos + load'.done
            THEN load'.array[id - load'.pos + 1]
            ELSE load'.before[BlockOf(id)].data[PosOf(id)]
    BY <1>1, <1>8, <1>13, <2>1 DEF GetTuple
  <2> QED BY <2>2, <2>3, <2>4 DEF LoadOK
<1> QED BY <1>7, <1>14

-----------------------------------------------------------------------------
(* The invariant.                                                          *)

LEMMA PlaceOfAny ==
  ASSUME NEW pos \in Nat
  PROVE  /\ BlockOf(pos) \in Nat \ {0} /\ PosOf(pos) \in Position
         /\ pos = kNumTuplesPerBlock * (BlockOf(pos) - 1) + PosOf(pos)
<1>1. pos \in 0 .. (pos + 1) - 1 /\ pos + 1 \in Nat
  OBVIOUS
<1>2. BlocksFor(pos + 1) \in Nat
  BY <1>1, BlocksForNat
<1>3. /\ BlockOf(pos) \in 1 .. BlocksFor(pos + 1) /\ PosOf(pos) \in Position
      /\ pos = kNumTuplesPerBlock * (BlockOf(pos) - 1) + PosOf(pos)
  BY <1>1, PlaceOf
<1>4. BlockOf(pos) \in Nat \ {0}
  BY <1>2, <1>3
<1> QED BY <1>3, <1>4

LEMMA NewColumn == Init => ColumnInv
<1> SUFFICES ASSUME Init PROVE ColumnInv
  OBVIOUS
<1> DEFINE n == BlocksFor(num_tuples_)
<1>1. num_tuples_ \in Nat /\ num_tuples_ \in 0 .. MaxTuples
  BY Constants DEF Init
<1>2. n \in Nat /\ num_tuples_ % kNumTuplesPerBlock \in 0 .. kNumTuplesPerBlock
  BY <1>1, BlocksForNat, Constants DEF Position
<1>3. SizesFor(num_tuples_) = [b \in 1 .. n |-> SizeAt(num_tuples_, b)]
  BY <1>1, SizesShape
<1>4. \A b : SizeAt(num_tuples_, b) \in 0 .. kNumTuplesPerBlock
  BY <1>2, Constants DEF SizeAt
<1>5. blocks_ = [b \in 1 .. n |-> CreateNewBlock(SizeAt(num_tuples_, b))]
  <2>1. blocks_ = [b \in DOMAIN SizesFor(num_tuples_) |->
                     CreateNewBlock(SizesFor(num_tuples_)[b])]
    BY DEF Init
  <2> HIDE DEF n
  <2> QED BY <2>1, <1>3
<1> HIDE DEF n
<1>6. blocks_ \in [1 .. n -> Blocks]
  BY <1>4, <1>5, FreshBlock
<1>7. blocks_ \in Seq(Blocks) /\ Len(blocks_) = n
  BY <1>2, <1>6, AsSequence
<1>8. <<>> \in Seq(Blocks) /\ status = "ok" /\ file = <<>> /\ load = NoLoad /\ scanned = {}
  BY DEF Init
<1>9. TypeOK
  BY <1>1, <1>7, <1>8 DEF TypeOK
<1>10. EnoughBlocks
  BY <1>2, <1>7 DEF EnoughBlocks, n
<1> QED BY <1>8, <1>9, <1>10 DEF ColumnInv, LoadOK

(* A call that leaves the number of tuples and of blocks alone.            *)
LEMMA SameNumbers ==
  ASSUME EnoughBlocks, TypeOK, status = "ok", num_tuples_' = num_tuples_,
         blocks_' \in Seq(Blocks), Len(blocks_') = Len(blocks_)
  PROVE  EnoughBlocks'
<1>1. blocks_ = <<>> => blocks_' = <<>>
  BY DEF TypeOK
<1> QED BY <1>1 DEF EnoughBlocks

LEMMA ResizeStep ==
  ASSUME TypeOK, Resize
  PROVE  \/ /\ status' # "ok" /\ UNCHANGED blocks_
            /\ blocks_ = <<>> \/ num_tuples_' = 0
         \/ /\ num_tuples_' \in 1 .. MaxTuples /\ Len(blocks_) > 0
            /\ blocks_' = Resized(blocks_, num_tuples_')
            /\ status' = IF NDEBUG \/ Len(blocks_') = BlocksFor(num_tuples_')
                         THEN "ok" ELSE "resize_assert"
<1>1. blocks_ \in Seq(Blocks)
  BY DEF TypeOK
<1>2. PICK num \in 0 .. MaxTuples :
        /\ num_tuples_' = num
        /\ IF Len(blocks_) = 0
           THEN status' = "undefined" /\ UNCHANGED blocks_
           ELSE IF CEIL(num, kNumTuplesPerBlock) > MaxTuples
           THEN status' = "exhausted" /\ UNCHANGED blocks_
           ELSE /\ blocks_' = Resized(blocks_, num)
                /\ status' = IF NDEBUG \/ Len(blocks_') = CEIL(num, kNumTuplesPerBlock)
                             THEN "ok" ELSE "resize_assert"
  BY DEF Resize
<1>3. CASE Len(blocks_) = 0
  <2>1. blocks_ = <<>>
    BY <1>1, <1>3
  <2> QED BY <2>1, <1>2, <1>3
<1>4. CASE Len(blocks_) # 0 /\ num = 0
  <2>1. CEIL(num, kNumTuplesPerBlock) > MaxTuples
    BY <1>4, ColumnAssumption
  <2> QED BY <2>1, <1>2, <1>4
<1>5. CASE Len(blocks_) # 0 /\ num # 0
  <2>1. num \in 1 .. MaxTuples /\ Len(blocks_) > 0
    BY <1>1, <1>5
  <2>2. /\ CEIL(num, kNumTuplesPerBlock) = BlocksFor(num)
        /\ BlocksFor(num) \in 1 .. MaxTuples
    BY <2>1, BlocksAskedFor
  <2>3. ~(CEIL(num, kNumTuplesPerBlock) > MaxTuples)
    BY <2>2, Constants
  <2> QED BY <2>1, <2>2, <2>3, <1>2, <1>5
<1> QED BY <1>3, <1>4, <1>5

LEMMA BeginLoadStep ==
  ASSUME TypeOK, BeginLoad
  PROVE  load' \in Loads /\ load'.done <= Len(load'.array) /\ LoadOK'
<1>1. PICK array \in Arrays, pos \in 0 .. num_tuples_ :
        /\ pos + Len(array) <= num_tuples_
        /\ load' = [array |-> array, pos |-> pos, before |-> blocks_, done |-> 0,
                    block_id |-> BlockOf(pos), pos_in_block |-> PosOf(pos)]
  BY DEF BeginLoad
<1>2. UNCHANGED <<blocks_, num_tuples_>> /\ num_tuples_ \in 0 .. MaxTuples
  BY DEF BeginLoad, TypeOK
<1>3. array \in Seq(Codes) /\ pos \in Nat /\ pos \in 0 .. MaxTuples /\ blocks_ \in Seq(Blocks)
  BY <1>2, Constants, ColumnAssumption DEF TypeOK
<1>4. /\ BlockOf(pos) \in Nat \ {0} /\ PosOf(pos) \in Position
      /\ pos = kNumTuplesPerBlock * (BlockOf(pos) - 1) + PosOf(pos)
  BY <1>3, PlaceOfAny
<1>5. load' \in Loads
  BY <1>1, <1>3, <1>4 DEF Loads
<1>6. Len(array) \in Nat
  BY <1>3
<1>7. /\ load'.array = array /\ load'.pos = pos /\ load'.before = blocks_
      /\ load'.done = 0 /\ load'.block_id = BlockOf(pos) /\ load'.pos_in_block = PosOf(pos)
  BY <1>1
<1>8. load'.pos + load'.done = pos
  BY <1>3, <1>7
<1>9. \A id \in 0 .. num_tuples_ - 1 :
        blocks_[BlockOf(id)].data[PosOf(id)] =
          IF pos <= id /\ id < pos THEN array[id - pos + 1]
          ELSE blocks_[BlockOf(id)].data[PosOf(id)]
  <2>1. ASSUME NEW id \in 0 .. num_tuples_ - 1 PROVE ~(pos <= id /\ id < pos)
    BY <1>2, <1>3, Constants
  <2> QED BY <2>1
<1>10. LoadOK'
  <2>1. load'.pos + Len(load'.array) <= num_tuples_'
    BY <1>1, <1>2, <1>7
  <2>2. load'.pos + load'.done
          = kNumTuplesPerBlock * (load'.block_id - 1) + load'.pos_in_block
    BY <1>4, <1>7, <1>8
  <2>3. \A id \in 0 .. num_tuples_' - 1 :
          GetTuple(id)' =
            IF load'.pos <= id /\ id < load'.pos + load'.done
            THEN load'.array[id - load'.pos + 1]
            ELSE load'.before[BlockOf(id)].data[PosOf(id)]
    BY <1>2, <1>7, <1>8, <1>9 DEF GetTuple
  <2> QED BY <2>1, <2>2, <2>3 DEF LoadOK
<1> QED BY <1>5, <1>6, <1>7, <1>10

LEMMA DeserStep ==
  ASSUME TypeOK, DeserFromFile
  PROVE  /\ blocks_' \in Seq(Blocks) /\ Len(blocks_') = Len(blocks_)
         /\ \A b \in 1 .. Len(blocks_) :
              blocks_'[b] = IF b \in DOMAIN file THEN file[b] ELSE blocks_[b]
<1>1. blocks_ \in Seq(Blocks) /\ file \in Seq(Blocks)
  BY DEF TypeOK
<1>2. Len(blocks_) \in Nat /\ DOMAIN blocks_ = 1 .. Len(blocks_)
  BY <1>1
<1>3. blocks_' = [b \in 1 .. Len(blocks_) |->
                    IF b \in DOMAIN file THEN file[b] ELSE blocks_[b]]
  BY <1>2 DEF DeserFromFile
<1>4. \A b \in 1 .. Len(blocks_) :
        (IF b \in DOMAIN file THEN file[b] ELSE blocks_[b]) \in Blocks
  BY <1>1
<1>5. blocks_' \in [1 .. Len(blocks_) -> Blocks]
  BY <1>3, <1>4
<1>6. blocks_' \in Seq(Blocks) /\ Len(blocks_') = Len(blocks_)
  BY <1>2, <1>5, AsSequence
<1> QED BY <1>3, <1>6

LEMMA NextColumnInv == ColumnInv /\ [Next]_vars => ColumnInv'
<1> SUFFICES ASSUME ColumnInv, [Next]_vars PROVE ColumnInv'
  OBVIOUS
<1>1. TypeOK /\ EnoughBlocks /\ LoadOK
  BY DEF ColumnInv
<1>2. /\ num_tuples_ \in 0 .. MaxTuples /\ num_tuples_ \in Nat
      /\ blocks_ \in Seq(Blocks) /\ file \in Seq(Blocks)
      /\ load # NoLoad => load \in Loads /\ load.done <= Len(load.array)
      /\ scanned \subseteq 0 .. num_tuples_ - 1
  BY <1>1, Constants DEF TypeOK
<1> DEFINE Statuses == {"ok", "undefined", "exhausted",
                        "resize_assert", "load_assert", "scan_assert"}
<1>3. status \in Statuses
  BY <1>1 DEF TypeOK
<1>4. CASE SetTuple
  <2>1. /\ status = "ok" /\ load' = NoLoad /\ UNCHANGED <<num_tuples_, file>>
        /\ scanned' = {} /\ status' \in Statuses
    BY <1>4 DEF SetTuple, Idle
  <2>2. blocks_' \in Seq(Blocks) /\ Len(blocks_') = Len(blocks_)
    BY <1>1, <1>4, SetTupleStep
  <2>3. TypeOK'
    BY <1>2, <2>1, <2>2 DEF TypeOK
  <2>4. EnoughBlocks'
    BY <1>1, <2>1, <2>2, SameNumbers
  <2> QED BY <2>1, <2>3, <2>4 DEF ColumnInv, LoadOK
<1>5. CASE LoadTextFile
  <2>1. /\ status = "ok" /\ load' = NoLoad /\ UNCHANGED <<num_tuples_, file>>
        /\ scanned' = {} /\ status' \in Statuses
    BY <1>5 DEF LoadTextFile, Idle
  <2>2. blocks_' \in Seq(Blocks) /\ Len(blocks_') = Len(blocks_)
    BY <1>1, <1>5, LoadTextFileStep
  <2>3. TypeOK'
    BY <1>2, <2>1, <2>2 DEF TypeOK
  <2>4. EnoughBlocks'
    BY <1>1, <2>1, <2>2, SameNumbers
  <2> QED BY <2>1, <2>3, <2>4 DEF ColumnInv, LoadOK
<1>6. CASE Resize
  <2>1. /\ load' = NoLoad /\ UNCHANGED file /\ scanned' = {} /\ status' \in Statuses
        /\ num_tuples_' \in 0 .. MaxTuples
    BY <1>6 DEF Resize, Idle
  <2>2. CASE status' # "ok" /\ UNCHANGED blocks_
    <3>1. TypeOK'
      BY <1>2, <2>1, <2>2 DEF TypeOK
    <3> QED BY <2>1, <2>2, <3>1 DEF ColumnInv, EnoughBlocks, LoadOK
  <2>3. CASE /\ num_tuples_' \in 1 .. MaxTuples /\ Len(blocks_) > 0
             /\ blocks_' = Resized(blocks_, num_tuples_')
    <3>1. /\ blocks_' \in Seq(Blocks)
          /\ Len(blocks_') = LeftBlocks(BlocksFor(num_tuples_'), Len(blocks_))
      BY <1>2, <2>3, ResizedShape
    <3>2. BlocksFor(num_tuples_') \in Nat /\ Len(blocks_) \in Nat
      BY <1>2, <2>3, BlocksAskedFor
    <3>3. BlocksFor(num_tuples_') <= Len(blocks_')
      BY <3>1, <3>2 DEF LeftBlocks
    <3>4. TypeOK'
      BY <1>2, <2>1, <3>1 DEF TypeOK
    <3> QED BY <2>1, <3>3, <3>4 DEF ColumnInv, EnoughBlocks, LoadOK
  <2> QED BY <2>2, <2>3, <1>1, <1>6, ResizeStep
<1>7. CASE Destroy
  <2>1. /\ load' = NoLoad /\ UNCHANGED <<num_tuples_, status, file>>
        /\ blocks_' = <<>> /\ scanned' = {}
    BY <1>7 DEF Destroy, Idle
  <2>2. TypeOK'
    BY <1>2, <1>3, <2>1 DEF TypeOK
  <2> QED BY <2>1, <2>2 DEF ColumnInv, EnoughBlocks, LoadOK
<1>8. CASE BeginLoad
  <2>1. UNCHANGED <<num_tuples_, blocks_, status, file>> /\ scanned' = {}
    BY <1>8 DEF BeginLoad
  <2>2. load' \in Loads /\ load'.done <= Len(load'.array) /\ LoadOK'
    BY <1>1, <1>8, BeginLoadStep
  <2>3. TypeOK'
    BY <1>2, <1>3, <2>1, <2>2 DEF TypeOK
  <2> QED BY <1>1, <2>1, <2>2, <2>3 DEF ColumnInv, EnoughBlocks
<1>9. CASE LoadBlock
  <2>1. /\ status = "ok" /\ UNCHANGED <<num_tuples_, file>> /\ scanned' = {}
        /\ status' \in Statuses
    BY <1>9 DEF LoadBlock
  <2>2. /\ blocks_' \in Seq(Blocks) /\ Len(blocks_') = Len(blocks_)
        /\ Sizes(blocks_') = Sizes(blocks_)
        /\ load' # NoLoad /\ load' \in Loads /\ load'.done <= Len(load'.array)
    BY <1>1, <1>9, LoadBlockStep
  <2>3. TypeOK'
    BY <1>2, <2>1, <2>2 DEF TypeOK
  <2>4. EnoughBlocks'
    BY <1>1, <2>1, <2>2, SameNumbers
  <2>5. LoadOK'
    <3>1. CASE Layout
      BY <3>1, <1>1, <1>9, LoadGoesOn
    <3>2. CASE ~Layout
      <4>1. ~Layout'
        BY <3>2, <2>1, <2>2 DEF Layout
      <4>2. load # NoLoad /\ load.pos + Len(load.array) <= num_tuples_
        BY <1>1, <1>9 DEF LoadBlock, LoadOK
      <4>3. load'.pos = load.pos /\ load'.array = load.array
        <5>1. CASE load' = load
          BY <5>1
        <5>2. CASE load.block_id \in DOMAIN blocks_ /\ load' = Advanced(Turn)
          <6>1. Turn \in Nat
            BY <5>2, <4>2, <1>1, TurnType
          <6> QED BY <6>1, <5>2, <4>2, <1>1, AdvancedType
        <5> QED BY <5>1, <5>2, <1>1, <1>9, LoadBlockCases
      <4> QED BY <4>1, <4>2, <4>3, <2>1 DEF LoadOK
    <3> QED BY <3>1, <3>2
  <2> QED BY <2>3, <2>4, <2>5 DEF ColumnInv
<1>10. CASE EndLoad
  <2>1. /\ load' = NoLoad /\ UNCHANGED <<num_tuples_, blocks_, status, file>>
        /\ scanned' = {}
    BY <1>10 DEF EndLoad
  <2>2. TypeOK'
    BY <1>2, <1>3, <2>1 DEF TypeOK
  <2> QED BY <1>1, <2>1, <2>2 DEF ColumnInv, EnoughBlocks, LoadOK
<1>11. CASE Scan
  <2>1. /\ status = "ok" /\ load' = NoLoad /\ UNCHANGED <<num_tuples_, blocks_, file>>
        /\ status' \in Statuses
    BY <1>11 DEF Scan, Idle
  <2>2. scanned' \subseteq 0 .. num_tuples_ - 1
    <3>1. \A b : Answered(b) \subseteq 0 .. num_tuples_ - 1
      BY DEF Answered
    <3>2. scanned' = scanned \/ scanned' = UNION {Answered(b) : b \in DOMAIN blocks_}
      BY <1>11 DEF Scan
    <3>3. UNION {Answered(b) : b \in DOMAIN blocks_} \subseteq 0 .. num_tuples_ - 1
      BY <3>1
    <3> QED BY <1>2, <3>2, <3>3
  <2>3. TypeOK'
    BY <1>2, <2>1, <2>2 DEF TypeOK
  <2> QED BY <1>1, <2>1, <2>3 DEF ColumnInv, EnoughBlocks, LoadOK
<1>12. CASE SerToFile
  <2>1. /\ load' = NoLoad /\ UNCHANGED <<num_tuples_, blocks_, status>>
        /\ file' = blocks_ /\ scanned' = {}
    BY <1>12 DEF SerToFile, Idle
  <2>2. TypeOK'
    BY <1>2, <1>3, <2>1 DEF TypeOK
  <2> QED BY <1>1, <2>1, <2>2 DEF ColumnInv, EnoughBlocks, LoadOK
<1>13. CASE DeserFromFile
  <2>1. /\ status = "ok" /\ load' = NoLoad /\ UNCHANGED <<num_tuples_, status, file>>
        /\ scanned' = {}
    BY <1>13 DEF DeserFromFile, Idle
  <2>2. blocks_' \in Seq(Blocks) /\ Len(blocks_') = Len(blocks_)
    BY <1>1, <1>13, DeserStep
  <2>3. TypeOK'
    BY <1>2, <1>3, <2>1, <2>2 DEF TypeOK
  <2>4. EnoughBlocks'
    BY <1>1, <2>1, <2>2, SameNumbers
  <2> QED BY <2>1, <2>3, <2>4 DEF ColumnInv, LoadOK
<1>14. CASE UNCHANGED vars
  <2>1. UNCHANGED <<num_tuples_, blocks_, status, file, load, scanned>>
    BY <1>14 DEF vars
  <2>2. TypeOK'
    BY <1>1, <2>1 DEF TypeOK
  <2>3. EnoughBlocks' /\ LoadOK'
    BY <1>1, <2>1 DEF EnoughBlocks, LoadOK, Layout, GetTuple
  <2> QED BY <2>2, <2>3 DEF ColumnInv
<1> QED BY <1>4, <1>5, <1>6, <1>7, <1>8, <1>9, <1>10, <1>11, <1>12, <1>13, <1>14 DEF Next

(* Whatever is called, in any order: a column that is not destroyed keeps  *)
(* the blocks its tuples ask for, and a bulk load on blocks that fit has   *)
(* stored what it has done and no more.                                    *)
THEOREM ColumnInvariance == Spec => []ColumnInv
BY NewColumn, NextColumnInv, PTL DEF Spec

(* Sizes, storage and the place of a load stay what they are made to be.   *)
THEOREM ColumnTypeCorrect == Spec => []TypeOK
<1>1. ColumnInv => TypeOK
  BY DEF ColumnInv
<1> QED BY <1>1, ColumnInvariance, PTL

-----------------------------------------------------------------------------
(* What a step may do.                                                     *)

(* Resize alone changes the number of tuples.                              *)
LEMMA OnlyResize ==
  ASSUME Next, num_tuples_' # num_tuples_
  PROVE  Resize
BY DEF Next, SetTuple, LoadTextFile, Destroy, BeginLoad, LoadBlock, EndLoad,
       Scan, SerToFile, DeserFromFile

(* The sizes of the blocks change in a Resize, a DeserFromFile or a        *)
(* Destroy, and nowhere else.                                              *)
LEMMA SizesKept ==
  ASSUME TypeOK, Next, ~Resize, ~DeserFromFile, ~Destroy
  PROVE  Sizes(blocks_') = Sizes(blocks_)
<1>1. CASE SetTuple
  BY <1>1, SetTupleStep
<1>2. CASE LoadTextFile
  BY <1>2, LoadTextFileStep
<1>3. CASE LoadBlock
  BY <1>3, LoadBlockStep
<1>4. CASE BeginLoad \/ EndLoad \/ Scan \/ SerToFile
  <2>1. UNCHANGED blocks_
    BY <1>4 DEF BeginLoad, EndLoad, Scan, SerToFile
  <2> QED BY <2>1
<1> QED BY <1>1, <1>2, <1>3, <1>4 DEF Next

LEMMA RestoredFits ==
  ASSUME TypeOK, DeserFromFile, Layout,
         ~ \E b \in DOMAIN blocks_ \cap DOMAIN file : file[b].num # blocks_[b].num
  PROVE  Sizes(blocks_') = Sizes(blocks_)
<1>1. blocks_ \in Seq(Blocks)
  BY DEF TypeOK
<1>2. /\ blocks_' \in Seq(Blocks) /\ Len(blocks_') = Len(blocks_)
      /\ \A b \in 1 .. Len(blocks_) :
           blocks_'[b] = IF b \in DOMAIN file THEN file[b] ELSE blocks_[b]
  BY DeserStep
<1>3. \A b \in 1 .. Len(blocks_) : blocks_'[b].num = blocks_[b].num
  <2>1. DOMAIN blocks_ = 1 .. Len(blocks_)
    BY <1>1
  <2> QED BY <1>2, <2>1
<1> QED BY <1>1, <1>2, <1>3, SameShape

LEMMA LayoutStep ==
  ASSUME ColumnInv, Next, Layout, status' = "ok"
  PROVE  /\ num_tuples_' # num_tuples_ => (Layout' <=> ~ResizeMisses)
         /\ num_tuples_' = num_tuples_ =>
              \/ Layout' \/ blocks_' = <<>>
              \/ \E b \in DOMAIN blocks_ \cap DOMAIN file : file[b].num # blocks_[b].num
<1>1. TypeOK /\ blocks_ \in Seq(Blocks) /\ num_tuples_ \in Nat
  BY Constants DEF ColumnInv, TypeOK
<1>2. CASE Resize
  <2>1. /\ num_tuples_' \in 1 .. MaxTuples /\ Len(blocks_) > 0
        /\ blocks_' = Resized(blocks_, num_tuples_')
    BY <1>1, <1>2, ResizeStep
  <2>2. CEIL(num_tuples_', kNumTuplesPerBlock) = BlocksFor(num_tuples_')
    BY <2>1, BlocksAskedFor
  <2>3. ResizeMisses <=>
          \/ BlocksFor(num_tuples_') < Len(blocks_)
          \/ /\ BlocksFor(num_tuples_') = Len(blocks_)
             /\ num_tuples_' % kNumTuplesPerBlock = 0
    BY <2>2 DEF ResizeMisses
  <2>4. Layout' <=> Sizes(blocks_') = SizesFor(num_tuples_')
    BY DEF Layout
  <2>5. Sizes(blocks_) = SizesFor(num_tuples_)
    BY DEF Layout
  <2>6. /\ num_tuples_' = num_tuples_ =>
             Sizes(Resized(blocks_, num_tuples_')) = SizesFor(num_tuples_')
        /\ num_tuples_' # num_tuples_ =>
             (Sizes(Resized(blocks_, num_tuples_')) = SizesFor(num_tuples_') <=>
                ~ \/ BlocksFor(num_tuples_') < Len(blocks_)
                  \/ /\ BlocksFor(num_tuples_') = Len(blocks_)
                     /\ num_tuples_' % kNumTuplesPerBlock = 0)
    BY <1>1, <2>1, <2>5, ResizeFits
  <2> QED BY <2>1, <2>3, <2>4, <2>6
<1>3. CASE ~Resize
  <2>1. num_tuples_' = num_tuples_
    BY <1>3, OnlyResize
  <2>2. Sizes(blocks_') = Sizes(blocks_) => Layout'
    BY <2>1 DEF Layout
  <2>3. CASE DeserFromFile
    BY <1>1, <2>1, <2>2, <2>3, RestoredFits
  <2>4. CASE Destroy
    BY <2>1, <2>4 DEF Destroy
  <2>5. CASE ~DeserFromFile /\ ~Destroy
    BY <1>1, <1>3, <2>1, <2>2, <2>5, SizesKept
  <2> QED BY <2>3, <2>4, <2>5
<1> QED BY <1>2, <1>3

(* For every block size and number of tuples: a column whose blocks fit    *)
(* its tuples loses that by a Resize to fewer blocks or to a whole number  *)
(* of as many, always, by a file of another shape or a Destroy, and by no  *)
(* other call.                                                             *)
THEOREM ColumnLayoutKept == Spec => LayoutKept
<1>1. ASSUME ColumnInv, [Next]_vars
      PROVE  [Layout /\ status' = "ok" =>
                CASE num_tuples_' # num_tuples_ -> (Layout' <=> ~ResizeMisses)
                  [] num_tuples_' = num_tuples_ ->
                       \/ Layout' \/ blocks_' = <<>>
                       \/ \E b \in DOMAIN blocks_ \cap DOMAIN file :
                            file[b].num # blocks_[b].num]_vars
  <2>1. CASE UNCHANGED vars
    BY <2>1
  <2>2. ASSUME Next, Layout, status' = "ok"
        PROVE  CASE num_tuples_' # num_tuples_ -> (Layout' <=> ~ResizeMisses)
                 [] num_tuples_' = num_tuples_ ->
                      \/ Layout' \/ blocks_' = <<>>
                      \/ \E b \in DOMAIN blocks_ \cap DOMAIN file :
                           file[b].num # blocks_[b].num
    <3>1. CASE num_tuples_' # num_tuples_
      BY <1>1, <2>2, <3>1, LayoutStep
    <3>2. CASE num_tuples_' = num_tuples_
      BY <1>1, <2>2, <3>2, LayoutStep
    <3> QED BY <3>1, <3>2
  <2> QED BY <1>1, <2>1, <2>2
<1> QED BY <1>1, ColumnInvariance, PTL DEF Spec, LayoutKept

(* For every block size: a Resize moves and loses no tuple that both sizes *)
(* hold, from blocks of whatever sizes and however many.                   *)
THEOREM ColumnKeepsTuples == Spec => ResizeKeepsTuples
<1>1. ASSUME ColumnInv, [Next]_vars, num_tuples_' # num_tuples_, status' = "ok",
             NEW id \in 0 .. num_tuples_ - 1, id < num_tuples_'
      PROVE  Tuples'[id] = Tuples[id]
  <2>1. Next /\ Resize
    BY <1>1, OnlyResize DEF vars
  <2>2. /\ TypeOK /\ EnoughBlocks /\ status = "ok"
        /\ blocks_ \in Seq(Blocks) /\ num_tuples_ \in Nat
    BY <1>1, <2>1, Constants DEF ColumnInv, TypeOK, Resize, Idle
  <2>3. /\ num_tuples_' \in 1 .. MaxTuples /\ Len(blocks_) > 0
        /\ blocks_' = Resized(blocks_, num_tuples_')
    BY <1>1, <2>1, <2>2, ResizeStep
  <2>4. BlocksFor(num_tuples_) <= Len(blocks_)
    BY <2>2, <2>3 DEF EnoughBlocks
  <2>5. Resized(blocks_, num_tuples_')[BlockOf(id)].data = blocks_[BlockOf(id)].data
    BY <1>1, <2>2, <2>3, <2>4, ResizeKeeps
  <2>6. GetTuple(id)' = GetTuple(id)
    BY <2>3, <2>5 DEF GetTuple
  <2>7. id \in 0 .. num_tuples_' - 1
    <3> DEFINE m == num_tuples_'
    <3>1. m \in Nat /\ id \in Nat /\ id < m
      BY <1>1, <2>2, <2>3, Constants
    <3> HIDE DEF m
    <3>2. id \in 0 .. m - 1
      BY <3>1
    <3> QED BY <3>2 DEF m
  <2> QED BY <1>1, <2>6, <2>7 DEF Tuples
<1>2. ASSUME ColumnInv, [Next]_vars
      PROVE  [num_tuples_' # num_tuples_ /\ status' = "ok" =>
                \A id \in 0 .. num_tuples_ - 1 :
                  id < num_tuples_' => Tuples'[id] = Tuples[id]]_vars
  BY <1>1, <1>2
<1> QED BY <1>2, ColumnInvariance, PTL DEF Spec, ResizeKeepsTuples

(* Where the blocks fit, every tuple is in one of them, below its size.    *)
LEMMA PlaceInBlocks ==
  ASSUME TypeOK, Layout, NEW id \in 0 .. num_tuples_ - 1
  PROVE  /\ BlockOf(id) \in DOMAIN blocks_
         /\ PosOf(id) \in Nat /\ blocks_[BlockOf(id)].num \in 0 .. kNumTuplesPerBlock
         /\ PosOf(id) < blocks_[BlockOf(id)].num
<1>1. blocks_ \in Seq(Blocks) /\ num_tuples_ \in Nat
  BY Constants DEF TypeOK
<1>2. /\ Len(blocks_) = BlocksFor(num_tuples_)
      /\ \A b \in 1 .. Len(blocks_) : blocks_[b].num = SizeAt(num_tuples_, b)
  BY <1>1, LayoutShape DEF Layout
<1>3. /\ BlockOf(id) \in 1 .. BlocksFor(num_tuples_)
      /\ PosOf(id) \in Position /\ PosOf(id) < SizeAt(num_tuples_, BlockOf(id))
  BY <1>1, PlaceOf
<1>4. BlockOf(id) \in 1 .. Len(blocks_)
  BY <1>2, <1>3
<1>5. blocks_[BlockOf(id)] \in Blocks
  BY <1>1, <1>4
<1> QED BY <1>1, <1>2, <1>3, <1>4, <1>5 DEF Position, Blocks

(* Where the blocks fit, a Scan finds a block of the vector for each, of   *)
(* its size, and its words cover the tuples.                               *)
LEMMA ScanStep ==
  ASSUME TypeOK, Layout, Scan
  PROVE  status' = status /\ scanned' = 0 .. num_tuples_ - 1
<1>1. DOMAIN blocks_ = DOMAIN VectorSizes
      /\ \A b \in DOMAIN blocks_ : blocks_[b].num = VectorSizes[b]
  <2>1. Sizes(blocks_) = VectorSizes
    BY DEF Layout, VectorSizes
  <2> QED BY <2>1 DEF Sizes
<1>2. /\ scanned' = UNION {Answered(b) : b \in DOMAIN blocks_}
      /\ status' = status
  BY <1>1 DEF Scan
<1>3. ASSUME NEW id \in 0 .. num_tuples_ - 1
      PROVE  BlockOf(id) \in DOMAIN blocks_ /\ id \in Answered(BlockOf(id))
  <2> DEFINE num == blocks_[BlockOf(id)].num
             p == PosOf(id)
  <2>1. /\ BlockOf(id) \in DOMAIN blocks_ /\ p \in Nat
        /\ num \in 0 .. kNumTuplesPerBlock /\ p < num
    BY PlaceInBlocks
  <2> HIDE DEF num, p
  <2>2. num \in 1 .. SizeRange - 1
    BY <2>1, Constants
  <2>3. /\ CEIL(num, kNumWordBits) \in Nat /\ kNumWordBits \in Nat
        /\ num <= kNumWordBits * CEIL(num, kNumWordBits)
    BY <2>2, Constants, CeilExact
  <2>4. p < CEIL(num, kNumWordBits) * kNumWordBits
    <3> DEFINE c == CEIL(num, kNumWordBits)
    <3> HIDE DEF c
    <3>1. c \in Nat /\ num <= kNumWordBits * c
      BY <2>3 DEF c
    <3>2. kNumWordBits * c = c * kNumWordBits /\ c * kNumWordBits \in Nat
      BY <3>1, <2>3
    <3>3. p < c * kNumWordBits
      BY <2>1, <2>2, <3>1, <3>2, Constants
    <3> QED BY <3>3 DEF c
  <2> QED BY <2>1, <2>4 DEF Answered, num, p
<1>4. \A b : Answered(b) \subseteq 0 .. num_tuples_ - 1
  BY DEF Answered
<1>5. UNION {Answered(b) : b \in DOMAIN blocks_} = 0 .. num_tuples_ - 1
  BY <1>3, <1>4
<1> QED BY <1>2, <1>5

(* For every size of word and block: while the blocks fit, a scan answers  *)
(* every tuple.                                                            *)
THEOREM ColumnScanComplete == Spec => ScanComplete
<1>1. ASSUME ColumnInv, [Next]_vars
      PROVE  [Scan /\ Layout => scanned' = 0 .. num_tuples_ - 1]_vars
  <2>1. TypeOK
    BY <1>1 DEF ColumnInv
  <2> QED BY <2>1, ScanStep
<1> QED BY <1>1, ColumnInvariance, PTL DEF Spec, ScanComplete

(* On a column whose blocks fit, no legal call reads outside a block or    *)
(* fails an assertion, but the three kinds of Resize that the property     *)
(* names.                                                                  *)
THEOREM ColumnHealthyCallsReturn == Spec => HealthyCallsReturn
<1>1. ASSUME ColumnInv, Next, Layout, status' # "ok"
      PROVE  \/ blocks_ = <<>>
             \/ num_tuples_' = 0
             \/ ~NDEBUG /\ CEIL(num_tuples_', kNumTuplesPerBlock) < Len(blocks_)
  <2>1. /\ TypeOK /\ LoadOK /\ blocks_ \in Seq(Blocks) /\ num_tuples_ \in Nat
        /\ Len(blocks_) \in Nat
    <3>1. TypeOK /\ LoadOK /\ blocks_ \in Seq(Blocks) /\ num_tuples_ \in Nat
      BY <1>1, Constants DEF ColumnInv, TypeOK
    <3> QED BY <3>1
  <2>2. ASSUME SetTuple PROVE FALSE
    <3>1. \A id \in 0 .. num_tuples_ - 1 : BlockOf(id) \in DOMAIN blocks_
      BY <1>1, <2>1, PlaceInBlocks
    <3>2. status' = status /\ status = "ok"
      BY <2>2, <3>1 DEF SetTuple, Idle
    <3> QED BY <1>1, <3>2
  <2>3. ASSUME LoadTextFile PROVE FALSE
    <3>1. PICK lines \in Arrays :
            (\A id \in 0 .. (IF Len(lines) < num_tuples_ THEN Len(lines)
                             ELSE num_tuples_) - 1 : BlockOf(id) \in DOMAIN blocks_)
              => UNCHANGED status
      BY <2>3 DEF LoadTextFile
    <3>2. Len(lines) \in Nat
      BY ColumnAssumption
    <3>3. ASSUME NEW id \in 0 .. (IF Len(lines) < num_tuples_ THEN Len(lines)
                                  ELSE num_tuples_) - 1
          PROVE  BlockOf(id) \in DOMAIN blocks_
      <4>1. id \in 0 .. num_tuples_ - 1
        BY <2>1, <3>2
      <4> QED BY <4>1, <1>1, <2>1, PlaceInBlocks
    <3>4. status' = status /\ status = "ok"
      BY <2>3, <3>1, <3>3 DEF LoadTextFile, Idle
    <3> QED BY <1>1, <3>4
  <2>4. ASSUME LoadBlock PROVE FALSE
    <3>1. status' = status /\ status = "ok"
      BY <1>1, <2>1, <2>4, LoadGoesOn DEF LoadBlock
    <3> QED BY <1>1, <3>1
  <2>5. ASSUME Scan PROVE FALSE
    <3>1. status' = status /\ status = "ok"
      BY <1>1, <2>1, <2>5, ScanStep DEF Scan, Idle
    <3> QED BY <1>1, <3>1
  <2>6. ASSUME BeginLoad \/ EndLoad \/ SerToFile \/ DeserFromFile \/ Destroy
        PROVE FALSE
    <3>1. status' = status /\ status = "ok"
      BY <2>6 DEF BeginLoad, EndLoad, SerToFile, DeserFromFile, Destroy, Idle
    <3> QED BY <1>1, <3>1
  <2>7. CASE Resize
    <3>1. CASE blocks_ = <<>> \/ num_tuples_' = 0
      BY <3>1
    <3>2. CASE /\ num_tuples_' \in 1 .. MaxTuples /\ Len(blocks_) > 0
               /\ blocks_' = Resized(blocks_, num_tuples_')
               /\ status' = IF NDEBUG \/ Len(blocks_') = BlocksFor(num_tuples_')
                            THEN "ok" ELSE "resize_assert"
      <4>1. ~NDEBUG /\ Len(blocks_') # BlocksFor(num_tuples_')
        BY <1>1, <3>2
      <4>2. Len(blocks_') = LeftBlocks(BlocksFor(num_tuples_'), Len(blocks_))
        BY <2>1, <3>2, ResizedShape
      <4>3. CEIL(num_tuples_', kNumTuplesPerBlock) = BlocksFor(num_tuples_')
        BY <3>2, BlocksAskedFor
      <4> QED BY <4>1, <4>2, <4>3 DEF LeftBlocks
    <3> QED BY <2>1, <2>7, <3>1, <3>2, ResizeStep
  <2> QED BY <1>1, <2>2, <2>3, <2>4, <2>5, <2>6, <2>7 DEF Next
<1>2. ASSUME ColumnInv, [Next]_vars
      PROVE  [Layout /\ status' # "ok" =>
                \/ blocks_ = <<>>
                \/ num_tuples_' = 0
                \/ ~NDEBUG /\ CEIL(num_tuples_', kNumTuplesPerBlock) < Len(blocks_)]_vars
  BY <1>1, <1>2
<1> QED BY <1>2, ColumnInvariance, PTL DEF Spec, HealthyCallsReturn

(* For every block size, array and place: a bulk load on blocks that fit   *)
(* ends with the whole array at its place and every other tuple as before. *)
THEOREM ColumnBulkLoadExact == Spec => BulkLoadExact
<1>1. ASSUME ColumnInv, Next, load # NoLoad, load' = NoLoad, Layout
      PROVE  Tuples' = [id \in 0 .. num_tuples_ - 1 |->
               IF load.pos <= id /\ id < load.pos + Len(load.array)
               THEN load.array[id - load.pos + 1]
               ELSE load.before[BlockOf(id)].data[PosOf(id)]]
  <2>1. TypeOK /\ LoadOK
    BY <1>1 DEF ColumnInv
  <2>2. EndLoad
    <3>1. ~LoadBlock
      BY <1>1, <2>1, LoadBlockStep
    <3>2. LoadBlock \/ EndLoad
      BY <1>1 DEF Next, SetTuple, LoadTextFile, Resize, Destroy, BeginLoad, Scan,
                  SerToFile, DeserFromFile, Idle
    <3> QED BY <3>1, <3>2
  <2>3. load.done = Len(load.array) /\ UNCHANGED <<num_tuples_, blocks_>>
    BY <2>2 DEF EndLoad
  <2>4. \A id \in 0 .. num_tuples_ - 1 :
          GetTuple(id) = IF load.pos <= id /\ id < load.pos + Len(load.array)
                         THEN load.array[id - load.pos + 1]
                         ELSE load.before[BlockOf(id)].data[PosOf(id)]
    BY <1>1, <2>1, <2>3 DEF LoadOK
  <2>5. Tuples' = [id \in 0 .. num_tuples_ - 1 |-> GetTuple(id)]
    BY <2>3 DEF Tuples, GetTuple
  <2> QED BY <2>4, <2>5
<1>2. ASSUME ColumnInv, [Next]_vars
      PROVE  [load # NoLoad /\ load' = NoLoad /\ Layout =>
                Tuples' = [id \in 0 .. num_tuples_ - 1 |->
                  IF load.pos <= id /\ id < load.pos + Len(load.array)
                  THEN load.array[id - load.pos + 1]
                  ELSE load.before[BlockOf(id)].data[PosOf(id)]]]_vars
  BY <1>1, <1>2 DEF vars
<1> QED BY <1>2, ColumnInvariance, PTL DEF Spec, BulkLoadExact
=============================================================================

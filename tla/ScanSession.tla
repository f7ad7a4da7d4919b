---------------------------- MODULE ScanSession -----------------------------
(***************************************************************************)
(* A column, a second one, and a bit vector that outlives the resizings of *)
(* the column: the caller loads, resizes, makes a vector for the column's  *)
(* present size, and scans into whatever vector it has.  Assertions alone  *)
(* compare the sizes of the three, and in the release build, which this    *)
(* is, nothing does.  What a block's scan does to a vector's block is      *)
(* ByteSliceScan or NaiveScan in one step, with the sizes of the blocks    *)
(* free to differ; the parallel loop over the blocks is one step too.      *)
(***************************************************************************)
EXTENDS Column

CONSTANTS
  kNumAvxBits,
  ColumnTypes,     \* the layouts of the two columns
  Comparators,     \* the comparators the caller uses
  Literals,
  Others           \* what the second column may be: its blocks

BVB == INSTANCE BitVectorBlock

(* A register is whole words and a block whole registers.  The second      *)
(* column was made with its size and is of no larger one than the first.   *)
ASSUME SessionAssumption ==
  /\ NDEBUG
  /\ kNumAvxBits \in Nat \ {0} /\ kNumTuplesPerBlock < SizeRange
  /\ \E k \in 1 .. kNumAvxBits : kNumAvxBits = k * kNumWordBits
  /\ \E k \in 1 .. kNumTuplesPerBlock : kNumTuplesPerBlock = k * kNumAvxBits
  /\ ColumnTypes \subseteq {"kNaive", "kByteSlicePadRight"}
  /\ Comparators \subseteq Comparator /\ Literals \subseteq Codes
  /\ Others \subseteq Seq(Blocks)
  /\ \A blocks \in Others : \E num \in 0 .. MaxTuples : Sizes(blocks) = SizesFor(num)

VARIABLES
  type_,      \* the layout of both columns
  other,      \* the second column's blocks
  num_,       \* the tuples the vector was made for
  vector,     \* [num, bits] of each of its blocks
  asked,      \* the tuples the scans since the vector was made ask for
  covered,    \* the tuples of the vector the column had in all of them
  fits        \* the sizes agreed in all of them (these three are history)

VectorBlocks == [num : 1 .. kNumTuplesPerBlock, bits : SUBSET Position]

session_vars == <<type_, other, num_, vector, asked, covered, fits>>

(* The loop over words ends with the last that holds a tuple.              *)
Visited_OneShort(num) == (num \div kNumWordBits) * kNumWordBits
Visited(num) == CEIL(num, kNumWordBits) * kNumWordBits

(* Words with a tuple are written, as far as the vector's block has them   *)
(* in use.  ByteSlice compares the last lanes with whatever the storage    *)
(* holds and clears what is past the vector's tuples; Naive answers FALSE  *)
(* past the column's and clears nothing.                                   *)
BlockScanned_WholeWords(block, vblock, cmp, operand, opt) ==
  LET Hit(p) == Compare(cmp, block.data[p], operand[p])
  IN  [vblock EXCEPT !.bits =
         {p \in BVB!UnitPositions(vblock.num) :
            IF p < Visited(block.num) THEN Combine(opt, p \in @, Hit(p)) ELSE p \in @}]
BlockScanned(block, vblock, cmp, operand, opt) ==
  LET Hit(p) == /\ Compare(cmp, block.data[p], operand[p])
                /\ type_ = "kNaive" => p < block.num
      after == {p \in BVB!UnitPositions(vblock.num) :
                  IF p < Visited(block.num) THEN Combine(opt, p \in vblock.bits, Hit(p))
                  ELSE p \in vblock.bits}
  IN  [vblock EXCEPT !.bits =
         IF type_ = "kNaive" THEN after ELSE BVB!ClearTail(after, vblock.num)]

(* BitVector(column): every bit of the tuples is set.                      *)
NewVector(num) ==
  [b \in DOMAIN SizesFor(num) |->
     [num |-> SizesFor(num)[b], bits |-> BVB!SetOnes(SizesFor(num)[b])]]

CountOnes ==
  LET count[b \in 0 .. Len(vector)] ==
        IF b = 0 THEN 0 ELSE count[b - 1] + Cardinality(vector[b].bits)
  IN  count[Len(vector)]

VectorBit(id) == PosOf(id) \in vector[BlockOf(id)].bits

(* The tuples of a column's blocks, whatever num_tuples_ is: a Resize may  *)
(* have left a block too many.                                             *)
Held(blocks) ==
  {id \in 0 .. Len(blocks) * kNumTuplesPerBlock - 1 :
     PosOf(id) < blocks[BlockOf(id)].num}

SessionInit ==
  /\ Init
  /\ type_ \in ColumnTypes /\ other \in Others
  /\ num_ = num_tuples_ /\ vector = NewVector(num_tuples_)
  /\ asked = 0 .. num_tuples_ - 1 /\ covered = 0 .. num_tuples_ - 1
  /\ fits = TRUE

MakeVector ==
  /\ Idle
  /\ num_' = num_tuples_ /\ vector' = NewVector(num_tuples_)
  /\ asked' = 0 .. num_tuples_ - 1 /\ covered' = 0 .. num_tuples_ - 1
  /\ fits' = TRUE
  /\ UNCHANGED <<vars, type_, other>>

(* Either Column::Scan: each block of the column against the operand of    *)
(* the same number, into the vector's block of that number.                *)
ScanInto(cmp, operands, opt) ==
  /\ IF DOMAIN blocks_ \subseteq DOMAIN vector \cap DOMAIN operands
     THEN /\ vector' = [b \in DOMAIN vector |->
               IF b \in DOMAIN blocks_
               THEN BlockScanned(blocks_[b], vector[b], cmp, operands[b], opt)
               ELSE vector[b]]
          /\ asked' = {id \in Held(blocks_) : Combine(opt, id \in asked,
               Compare(cmp, GetTuple(id), operands[BlockOf(id)][PosOf(id)]))}
          /\ covered' = covered \cap Held(blocks_)
          /\ fits' = (fits /\ Layout /\ num_tuples_ = num_)
          /\ UNCHANGED status
     ELSE status' = "undefined" /\ UNCHANGED <<vector, asked, covered, fits>>
  /\ UNCHANGED <<num_tuples_, blocks_, file, load, scanned, type_, other, num_>>

ScanLiteral ==
  /\ Idle
  /\ \E cmp \in Comparators, literal \in Literals, opt \in BitwiseOpt :
       ScanInto(cmp, [b \in DOMAIN blocks_ |-> [p \in Position |-> literal]], opt)

ScanColumn ==
  /\ Idle
  /\ \E cmp \in Comparators, opt \in BitwiseOpt :
       ScanInto(cmp, [b \in DOMAIN other |-> other[b].data], opt)

(* A second vector: made for the second column and filled by a scan of it. *)
OtherVector(cmp, literal) ==
  [b \in DOMAIN other |->
     [num |-> other[b].num,
      bits |-> {p \in 0 .. other[b].num - 1 : Compare(cmp, other[b].data[p], literal)}]]

Unwritten(num) == Position \ BVB!UnitPositions(num)

(* BitVectorBlock::And and Or: every word in use of this block meets the   *)
(* other's word of that number, which nothing has written, rest, if the    *)
(* other block has not so many in use.                                     *)
BlockCombined_NoClearTail(vblock, oblock, rest, opt) ==
  LET word == oblock.bits \cup (rest \cap Unwritten(oblock.num))
  IN  [vblock EXCEPT !.bits =
         {p \in BVB!UnitPositions(vblock.num) : Combine(opt, p \in @, p \in word)}]
BlockCombined(vblock, oblock, rest, opt) ==
  LET word == oblock.bits \cup (rest \cap Unwritten(oblock.num))
  IN  [vblock EXCEPT !.bits =
         IF opt = "kAnd" THEN BVB!And(@, word, vblock.num)
         ELSE BVB!Or(@, word \cap BVB!UnitPositions(vblock.num), vblock.num)]

(* BitVector::And and Or, which go by this vector's blocks.                *)
AndOr ==
  /\ Idle
  /\ \E cmp \in Comparators, literal \in Literals, opt \in {"kAnd", "kOr"} :
       LET with == OtherVector(cmp, literal)
           tuples == Held(with)
       IN
       IF DOMAIN vector \subseteq DOMAIN with
       THEN /\ \E rest \in SUBSET Unwritten(with[Len(with)].num) :
                 vector' = [b \in DOMAIN vector |->
                   BlockCombined(vector[b], with[b], rest, opt)]
            /\ covered' = covered \cap tuples
            /\ asked' = {id \in tuples :
                 Combine(opt, id \in asked, PosOf(id) \in with[BlockOf(id)].bits)}
            /\ fits' = (fits /\ Cardinality(tuples) = num_)
            /\ UNCHANGED status
       ELSE status' = "undefined" /\ UNCHANGED <<vector, asked, covered, fits>>
  /\ UNCHANGED <<num_tuples_, blocks_, file, load, scanned, type_, other, num_>>

SessionNext ==
  \/ (LoadTextFile \/ Resize) /\ UNCHANGED session_vars
  \/ MakeVector \/ ScanLiteral \/ ScanColumn \/ AndOr

SessionSpec == SessionInit /\ [][SessionNext]_<<vars, session_vars>>
-----------------------------------------------------------------------------
TailsClean == \A b \in DOMAIN vector : vector[b].bits \subseteq 0 .. vector[b].num - 1

SessionTypeOK ==
  /\ TypeOK
  /\ type_ \in ColumnTypes /\ other \in Others
  /\ num_ \in 0 .. MaxTuples
  /\ vector \in Seq(VectorBlocks) /\ Sizes(vector) = SizesFor(num_)
  /\ \A b \in DOMAIN vector :
       vector[b].bits \subseteq BVB!UnitPositions(vector[b].num)
  /\ asked \subseteq 0 .. MaxTuples + kNumTuplesPerBlock - 1 /\ covered \subseteq 0 .. num_ - 1
  /\ fits \in BOOLEAN

(* While column and vector agree in size, what a query of several scans    *)
(* leaves to be counted and iterated over is what was asked for, whatever  *)
(* resizings came between the scans.                                       *)
QueryExact == fits => CountOnes = Cardinality(asked) /\ asked = {id \in covered : VectorBit(id)}

(* A vector of another size than the column's is still exact for every     *)
(* tuple both have had throughout.                                         *)
StaleVectorExact == \A id \in covered : VectorBit(id) <=> id \in asked

(* What CountOnes and the iterator rest on, no bit past the tuples of the  *)
(* vector, is lost only by a naive scan of a column that has outgrown it.  *)
TailsDirtied ==
  [][TailsClean /\ ~TailsClean' =>
       /\ type_ = "kNaive"
       /\ \E b \in DOMAIN blocks_ : blocks_[b].num > vector[b].num]_<<vars, session_vars>>

(* A scan sets no bit for a tuple that the column has lost, but the last   *)
(* word of a ByteSlice block still answers for what its storage held.      *)
LostTuplesAnswer ==
  [][\A id \in 0 .. num_ - 1 :
       /\ id \notin Held(blocks_) /\ ~VectorBit(id)
       /\ BlockOf(id) \in DOMAIN vector' /\ VectorBit(id)'
       /\ ScanLiteral \/ ScanColumn
       => /\ type_ = "kByteSlicePadRight"
          /\ PosOf(id) < Visited(blocks_[BlockOf(id)].num)]_<<vars, session_vars>>
=============================================================================

--------------------------- MODULE ByteSliceScan ----------------------------
(***************************************************************************)
(* ByteSliceColumnBlock::Scan, against a literal and against another       *)
(* block: for every word of the bit vector, for every register of the      *)
(* word, the slices are compared most significant first until no lane      *)
(* that matters can still change (early stop); the verdicts are gathered   *)
(* in bitvector_word, combined with the old word and stored; ClearTail     *)
(* closes the call.  One action per iteration of each loop.  The vector's  *)
(* block may hold another number of tuples than the column's: assertions   *)
(* alone compare the two, and the storage of both is always a whole block. *)
(***************************************************************************)
EXTENDS ByteSliceColumnBlock

CONSTANTS
  NEARLYSTOP,    \* TRUE when the macro that disables early stop is defined
  CodeArrays,    \* what the two blocks may have been loaded with
  Literals,      \* the literals to scan against
  BitPatterns,   \* what the bit vector may hold before the call
  Nums           \* the sizes of the two blocks

ASSUME InputAssumption ==
  /\ NEARLYSTOP \in BOOLEAN
  /\ CodeArrays \subseteq [Position -> Nat]
  /\ Literals \subseteq Nat
  /\ BitPatterns \subseteq SUBSET Position
  /\ Nums \subseteq 1 .. kNumTuplesPerBlock

VARIABLES
  call,             \* the call: its arguments, the sizes of the block (num) and of
                    \* the vector's (vnum), what the blocks were loaded with
  data_,            \* this block's slices
  other,            \* the operand's slices, a literal's the same at every position
  bits,             \* the bit vector block, words not in use included
  pc,               \* where the call is: "word", "group", "slice" or "done"
  offset, bv_word_id,
  bitvector_word,
  i,                \* the register of the word, by its first bit
  byte_id,
  m_less, m_greater, m_equal,
  input_mask        \* the lanes whose bit the verdict can still change

vars == <<call, data_, other, bits, pc, offset, bv_word_id, bitvector_word, i,
          byte_id, m_less, m_greater, m_equal, input_mask>>

registers == <<byte_id, m_less, m_greater, m_equal, input_mask>>
inputs == <<call, data_, other>>

-----------------------------------------------------------------------------
(* The verdicts of ScanKernel2 on one slice.                               *)

Load(slices, b) == [l \in Lane |-> slices[b][offset + i + l]]

UsesLess == call.comparator \in {"kLess", "kLessEqual"}
UsesGreater == call.comparator \in {"kGreater", "kGreaterEqual"}

(* On the last slice the equality is left alone where m_result ignores it. *)
NeedsEqual_NeverOnLast(b) ==
  \/ b < kNumBytesPerCode - 1
  \/ call.comparator \in {"kEqual", "kInequal"}
NeedsEqual(b) ==
  \/ b < kNumBytesPerCode - 1
  \/ call.comparator \notin {"kLess", "kGreater"}

ScanKernel2(byteslice1, byteslice2, b) ==
  /\ m_less' = IF UsesLess
               THEN m_less \cup (m_equal \cap avx_cmplt(byteslice1, byteslice2))
               ELSE m_less
  /\ m_greater' = IF UsesGreater
                  THEN m_greater \cup (m_equal \cap avx_cmpgt(byteslice1, byteslice2))
                  ELSE m_greater
  /\ m_equal' = IF NeedsEqual(b)
                THEN m_equal \cap avx_cmpeq(byteslice1, byteslice2)
                ELSE m_equal

m_result ==
  CASE call.comparator = "kLessEqual"    -> m_less \cup m_equal
    [] call.comparator = "kLess"         -> m_less
    [] call.comparator = "kGreaterEqual" -> m_greater \cup m_equal
    [] call.comparator = "kGreater"      -> m_greater
    [] call.comparator = "kEqual"        -> m_equal
    [] call.comparator = "kInequal"      -> avx_not(m_equal)

(* The next slice is worth comparing.  The macro only reaches the literal  *)
(* version of the code.                                                    *)
Continue_IgnoresOpt ==
  \/ NEARLYSTOP /\ call.kind = "literal"
  \/ byte_id = 0
  \/ m_equal # avx_zero /\ input_mask # {}
Continue_TwoSlices ==
  \/ NEARLYSTOP /\ call.kind = "literal"
  \/ byte_id < 2
Continue ==
  \/ NEARLYSTOP /\ call.kind = "literal"
  \/ byte_id = 0 /\ (call.bit_opt = "kSet" \/ input_mask # {})
  \/ byte_id > 0 /\ call.bit_opt = "kSet" /\ m_equal # avx_zero
  \/ byte_id > 0 /\ call.bit_opt # "kSet" /\ input_mask \cap m_equal # {}

MoreSlices == byte_id < kNumBytesPerCode /\ Continue

(* GetWordUnit(bv_word_id) >> i, cut to the width of a register.           *)
OldLanes_NotCut == {l \in WordBit : i + l \in GetWordUnit(bits, bv_word_id)}
OldLanes == {l \in Lane : i + l \in GetWordUnit(bits, bv_word_id)}

(* In the literal version nothing initialises the mask of a kSet scan.     *)
InputMasks_OrNotNegated ==
  CASE call.bit_opt = "kSet" -> {Lane}
    [] call.bit_opt # "kSet" -> {OldLanes}
InputMasks ==
  CASE call.bit_opt = "kSet" -> IF call.kind = "literal" THEN SUBSET Lane ELSE {Lane}
    [] call.bit_opt = "kAnd" -> {OldLanes}
    [] call.bit_opt = "kOr"  -> {Lane \ OldLanes}

-----------------------------------------------------------------------------
Init ==
  /\ call \in [kind : {"literal", "block"}, comparator : Comparator,
               bit_opt : BitwiseOpt, num : Nums, vnum : Nums, codes : CodeArrays,
               operand : CodeArrays \cup {[p \in Position |-> l] : l \in Literals},
               old : BitPatterns]
  /\ call.old \cap UnitPositions(call.vnum) \subseteq 0 .. call.vnum - 1
  /\ call.kind = "literal" => \E l \in Literals : call.operand = [p \in Position |-> l]
  /\ call.kind = "block" => call.operand \in CodeArrays
  /\ data_ = BulkLoadArray(call.codes)
  /\ other = IF call.kind = "block"
             THEN BulkLoadArray(call.operand)
             ELSE [b \in Slice |-> [p \in Position |-> LiteralSlices(call.operand[p])[b]]]
  /\ bits = call.old
  /\ pc = "word"
  /\ offset = 0 /\ bv_word_id = 0 /\ bitvector_word = {} /\ i = 0
  /\ byte_id = 0 /\ m_less = avx_zero /\ m_greater = avx_zero /\ m_equal = avx_zero
  /\ input_mask = {}

EnterWord_OnePastTheEnd ==
  /\ pc = "word" /\ offset <= call.num
  /\ bitvector_word' = {} /\ i' = 0
  /\ pc' = "group"
  /\ UNCHANGED <<inputs, bits, offset, bv_word_id, registers>>
EnterWord ==
  /\ pc = "word" /\ offset < call.num
  /\ bitvector_word' = {} /\ i' = 0
  /\ pc' = "group"
  /\ UNCHANGED <<inputs, bits, offset, bv_word_id, registers>>

BeginGroup ==
  /\ pc = "group" /\ i < kNumWordBits
  /\ m_less' = avx_zero /\ m_greater' = avx_zero /\ m_equal' = avx_ones
  /\ input_mask' \in InputMasks
  /\ byte_id' = 0
  /\ pc' = "slice"
  /\ UNCHANGED <<inputs, bits, offset, bv_word_id, bitvector_word, i>>

ScanSlice ==
  /\ pc = "slice" /\ MoreSlices
  /\ ScanKernel2(Load(data_, byte_id), Load(other, byte_id), byte_id)
  /\ byte_id' = byte_id + 1
  /\ UNCHANGED <<inputs, bits, pc, offset, bv_word_id, bitvector_word, i, input_mask>>

EndGroup ==
  /\ pc = "slice" /\ ~MoreSlices
  /\ bitvector_word' = bitvector_word \cup {i + l : l \in m_result}
  /\ i' = i + kNumLanes
  /\ pc' = "group"
  /\ UNCHANGED <<inputs, bits, offset, bv_word_id, registers>>

StoreWord ==
  /\ pc = "group" /\ i >= kNumWordBits
  /\ LET word == GetWordUnit(bits, bv_word_id)
         x == {b \in WordBit : Combine(call.bit_opt, b \in word, b \in bitvector_word)}
     IN  bits' = SetWordUnit(bits, x, bv_word_id)
  /\ offset' = offset + kNumWordBits /\ bv_word_id' = bv_word_id + 1
  /\ pc' = "word"
  /\ UNCHANGED <<inputs, bitvector_word, i, registers>>

(* The words the vector's block has in use lose what is past its tuples.   *)
Finish ==
  /\ pc = "word" /\ offset >= call.num
  /\ bits' = ClearTail(bits \cap UnitPositions(call.vnum), call.vnum)
               \cup (bits \ UnitPositions(call.vnum))
  /\ pc' = "done"
  /\ UNCHANGED <<inputs, offset, bv_word_id, bitvector_word, i, registers>>

Next == EnterWord \/ BeginGroup \/ ScanSlice \/ EndGroup \/ StoreWord \/ Finish

Safety == Init /\ [][Next]_vars
Spec == Safety /\ WF_vars(Next)

-----------------------------------------------------------------------------
(* What the call means.                                                    *)

(* What a scan compares: the codes as BIT_WIDTH bits hold them.            *)
Answer(p) ==
  Compare(call.comparator, call.codes[p] % CodeRange, call.operand[p] % CodeRange)

(* The bit the call must leave at p.                                       *)
Expected(p) == Combine(call.bit_opt, p \in call.old, Answer(p))

(* The slices above b do not tell the tuple at p from the operand's.       *)
SameAbove(b, p) == \A a \in 0 .. b - 1 : data_[a][p] = other[a][p]
LessAbove(b, p) ==
  \E a \in 0 .. b - 1 :
    SameAbove(a, p) /\ SignedByte(data_[a][p]) < SignedByte(other[a][p])
GreaterAbove(b, p) ==
  \E a \in 0 .. b - 1 :
    SameAbove(a, p) /\ SignedByte(data_[a][p]) > SignedByte(other[a][p])

(* The lanes whose verdict can still change a bit of the vector: all of    *)
(* them, those that are set, those that are not.                           *)
Relevant ==
  {l \in Lane : \/ call.bit_opt = "kSet"
                \/ call.bit_opt = "kAnd" /\ offset + i + l \in bits
                \/ call.bit_opt = "kOr" /\ offset + i + l \notin bits}

(* The words with a tuple end here.                                        *)
Visited == CEIL(call.num, kNumWordBits) * kNumWordBits

(* The registers are masks of lanes, the bits those of the block.          *)
TypeOK ==
  /\ bits \subseteq Position
  /\ pc \in {"word", "group", "slice", "done"}
  /\ offset \in Nat /\ bv_word_id \in Nat /\ i \in Nat
  /\ bitvector_word \subseteq WordBit
  /\ byte_id \in 0 .. kNumBytesPerCode
  /\ m_less \subseteq Lane /\ m_greater \subseteq Lane /\ m_equal \subseteq Lane
  /\ input_mask \subseteq Lane

(* When the call returns, the bit of every tuple is what its code, the     *)
(* operand, the comparator and bit_opt ask for, whatever slices early stop *)
(* skipped, and the vector's block has none past its tuples.  If it is     *)
(* larger than the column's, the rest of the last word visited answers for *)
(* what the storage holds, and the words after it are as they were.        *)
ResultCorrect ==
  pc = "done" =>
    bits \cap UnitPositions(call.vnum)
      = {p \in 0 .. call.vnum - 1 : IF p < Visited THEN Expected(p) ELSE p \in call.old}

(* Early stop is sound: when a register's comparison ends, at whichever    *)
(* slice, the lanes that can change a bit have the verdict of the codes.   *)
EarlyStopSound ==
  pc = "slice" /\ ~MoreSlices =>
    \A l \in Relevant : l \in m_result <=> Answer(offset + i + l)

(* The loads of whole registers and the stores of whole words, which run   *)
(* past num_tuples_, stay inside the arrays of the two blocks.             *)
AccessesInBounds ==
  /\ pc = "slice" => offset + i + kNumLanes <= kNumTuplesPerBlock
  /\ pc \in {"group", "slice"} => bv_word_id < NumWordUnits(call.num)

-----------------------------------------------------------------------------
(* The inductive invariant: what the masks mean after byte_id slices, the  *)
(* bits of the word gathered so far, the words stored so far.              *)

InputsOK ==
  /\ call.num \in Nums /\ call.vnum \in Nums
  /\ call.comparator \in Comparator /\ call.bit_opt \in BitwiseOpt
  /\ call.codes \in [Position -> Nat] /\ call.operand \in [Position -> Nat]
  /\ call.old \subseteq Position
  /\ call.old \cap UnitPositions(call.vnum) \subseteq 0 .. call.vnum - 1
  /\ data_ = BulkLoadArray(call.codes)
  /\ \/ other = BulkLoadArray(call.operand)
     \/ other = [b \in Slice |-> [p \in Position |-> LiteralSlices(call.operand[p])[b]]]

LoopsOK ==
  /\ offset = bv_word_id * kNumWordBits
  /\ \E k \in 0 .. i : i = k * kNumLanes
  /\ i <= kNumWordBits
  /\ offset < call.num + kNumWordBits
  /\ pc \in {"group", "slice"} => offset < call.num
  /\ pc = "done" => offset >= call.num
  /\ pc = "slice" => i < kNumWordBits

MasksOK ==
  pc = "slice" =>
    \A l \in Lane : LET p == offset + i + l IN
      /\ UsesLess => (l \in m_less <=> LessAbove(byte_id, p))
      /\ UsesGreater => (l \in m_greater <=> GreaterAbove(byte_id, p))
      /\ (byte_id = 0 \/ NeedsEqual(byte_id - 1)) =>
           (l \in m_equal <=> SameAbove(byte_id, p))

InputMaskOK ==
  pc = "slice" /\ call.bit_opt # "kSet" => input_mask = Relevant

WordOK ==
  pc \in {"group", "slice"} =>
    /\ bitvector_word \subseteq 0 .. i - 1
    /\ \A b \in 0 .. i - 1 :
         Combine(call.bit_opt, offset + b \in bits, b \in bitvector_word)
           <=> Expected(offset + b)

BitsOK ==
  pc # "done" => \A p \in Position :
    p \in bits <=> IF p < offset THEN Expected(p) ELSE p \in call.old

(* The parts together: what the proof of ResultCorrect rests on.           *)
IInv ==
  TypeOK /\ InputsOK /\ LoopsOK /\ MasksOK /\ InputMaskOK /\ WordOK /\ BitsOK
    /\ ResultCorrect

-----------------------------------------------------------------------------
(* The tuples that both blocks have, and where the words with one end.     *)
Both == IF call.num < call.vnum THEN call.num ELSE call.vnum
BothVisited == CEIL(Both, kNumWordBits) * kNumWordBits
BothBits(P) == P \cap (0 .. Both - 1)

BS == INSTANCE BlockScan WITH
  WordBits <- kNumWordBits,
  Requests <- [num : Nums, opt : BitwiseOpt, old : SUBSET Position, hits : SUBSET Position],
  request <- [num |-> Both, opt |-> call.bit_opt, old |-> BothBits(call.old),
              hits |-> {p \in Position : Answer(p)}],
  bits <- IF pc = "done" /\ call.vnum = call.num THEN bits \cap UnitPositions(call.vnum)
          ELSE BothBits(bits),
  cursor <- IF offset < BothVisited THEN offset ELSE BothVisited,
  returned <- pc = "done"

(* For the tuples that both blocks have the scan does what                 *)
(* ColumnBlock::Scan promises: words in ascending order, each combined     *)
(* once with its old bits, and the call returns; in a vector of its size   *)
(* it leaves no bit past the tuples.                                       *)
ImplementsBlockScan == BS!Spec
=============================================================================

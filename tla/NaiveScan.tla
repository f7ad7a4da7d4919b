----------------------------- MODULE NaiveScan ------------------------------
(***************************************************************************)
(* NaiveColumnBlock<DTYPE>::Scan, against a literal and against another    *)
(* block: word by word of the bit vector, one tuple after the other, up to *)
(* num_tuples_, and no ClearTail at the end.  The vector's block may hold  *)
(* another number of tuples than the column's: assertions alone compare    *)
(* the two, and the scan of two blocks has not even that.                  *)
(***************************************************************************)
EXTENDS BitVectorBlock

CONSTANTS
  DtypeRange,    \* 2^8, 2^16 or 2^32: a DTYPE holds values modulo this
  CodeRange,     \* 2^BIT_WIDTH
  CodeArrays,    \* what is given to BulkLoadArray
  Literals,
  BitPatterns,   \* what the storage of the vector's block may hold
  Nums           \* the sizes of the two blocks

Position == 0 .. kNumTuplesPerBlock - 1

ASSUME NaiveAssumption ==
  /\ DtypeRange \in Nat \ {0} /\ CodeRange \in 1 .. DtypeRange
  /\ CodeArrays \subseteq [Position -> Nat] /\ Literals \subseteq Nat
  /\ BitPatterns \subseteq SUBSET Position
  /\ Nums \subseteq 1 .. kNumTuplesPerBlock

VARIABLES
  call,       \* the call: num and vnum are the blocks' sizes, old the bits
  data_,      \* the codes of this block
  lit,        \* what each is compared with, a literal's the same everywhere
  bits,       \* the bit vector block, words not in use included
  pc,         \* "word", "tuple" or "done"
  offset, i, word

vars == <<call, data_, lit, bits, pc, offset, i, word>>
inputs == <<call, data_, lit>>

(* static_cast<DTYPE> of every code.                                       *)
BulkLoadArray_NotCast(codes) == codes
BulkLoadArray(codes) == [p \in Position |-> codes[p] % DtypeRange]

Init ==
  /\ call \in [kind : {"literal", "block"}, comparator : Comparator,
               bit_opt : BitwiseOpt, num : Nums, vnum : Nums, codes : CodeArrays,
               operand : CodeArrays \cup {[p \in Position |-> l] : l \in Literals},
               old : BitPatterns]
  /\ call.old \cap UnitPositions(call.vnum) \subseteq 0 .. call.vnum - 1
  /\ call.kind = "literal" => \E l \in Literals : call.operand = [p \in Position |-> l]
  /\ call.kind = "block" => call.operand \in CodeArrays
  /\ data_ = BulkLoadArray(call.codes) /\ lit = BulkLoadArray(call.operand)
  /\ bits = call.old
  /\ pc = "word" /\ offset = 0 /\ i = 0 /\ word = {}

EnterWord ==
  /\ pc = "word" /\ offset < call.num
  /\ word' = {} /\ i' = 0
  /\ pc' = "tuple"
  /\ UNCHANGED <<inputs, bits, offset>>

(* The inner loop ends with the word, or breaks at num_tuples_.            *)
InWord_NoBreak == i < kNumWordBits
InWord == i < kNumWordBits /\ offset + i < call.num

ScanTuple ==
  /\ pc = "tuple" /\ InWord
  /\ word' = IF Compare(call.comparator, data_[offset + i], lit[offset + i])
             THEN word \cup {i} ELSE word
  /\ i' = i + 1
  /\ UNCHANGED <<inputs, bits, pc, offset>>

(* The word that SetWordUnit is given: the old one is read unless kSet.    *)
Stored_SetKeepsTail ==
  LET old == GetWordUnit(bits, offset \div kNumWordBits)
  IN  {b \in WordBit : IF offset + b < call.num
                       THEN Combine(call.bit_opt, b \in old, b \in word) ELSE b \in old}
Stored_OrIsSet ==
  LET old == GetWordUnit(bits, offset \div kNumWordBits)
  IN  {b \in WordBit : b \in word /\ (call.bit_opt = "kAnd" => b \in old)}
Stored ==
  LET old == GetWordUnit(bits, offset \div kNumWordBits)
  IN  {b \in WordBit : Combine(call.bit_opt, b \in old, b \in word)}

StoreWord ==
  /\ pc = "tuple" /\ ~InWord
  /\ bits' = SetWordUnit(bits, Stored, offset \div kNumWordBits)
  /\ offset' = offset + kNumWordBits
  /\ pc' = "word"
  /\ UNCHANGED <<inputs, i, word>>

Return ==
  /\ pc = "word" /\ offset >= call.num
  /\ pc' = "done"
  /\ UNCHANGED <<inputs, bits, offset, i, word>>

Next == EnterWord \/ ScanTuple \/ StoreWord \/ Return

Safety == Init /\ [][Next]_vars
Spec == Safety /\ WF_vars(Next)
-----------------------------------------------------------------------------
(* What a scan compares: the values as a DTYPE holds them.                 *)
Answer(p) ==
  Compare(call.comparator, call.codes[p] % DtypeRange, call.operand[p] % DtypeRange)

(* The words that hold a tuple end here.                                   *)
Visited == CEIL(call.num, kNumWordBits) * kNumWordBits

(* The loop stays inside the two blocks, whose words are as many.          *)
TypeOK ==
  /\ bits \subseteq Position
  /\ pc \in {"word", "tuple", "done"}
  /\ offset \in {w * kNumWordBits : w \in 0 .. NumWordUnits(call.num)}
  /\ i \in 0 .. kNumWordBits /\ (pc = "tuple" => offset + i <= call.num)
  /\ word \subseteq 0 .. i - 1

(* Values and literals of BIT_WIDTH bits get the answer that ByteSliceScan *)
(* gives, whatever sizes the two blocks have: each layout drops other bits *)
(* of a longer one, but none of these.                                     *)
LayoutsAgree ==
  pc = "done" =>
    \A p \in 0 .. call.num - 1 :
      call.codes[p] < CodeRange /\ call.operand[p] < CodeRange =>
        (p \in bits <=> Combine(call.bit_opt, p \in call.old,
                               Compare(call.comparator, call.codes[p], call.operand[p])))

(* Past the tuples the scan sets no bit, and leaves as it was what is in   *)
(* words without a tuple and, for kOr, the rest of the last word: a clean  *)
(* tail stays clean though nothing clears it, a dirty one stays dirty.     *)
TailAsFound ==
  \A p \in Position : p >= call.num /\ pc = "done" =>
    (p \in bits <=> p \in call.old /\ (call.bit_opt = "kOr" \/ p >= Visited))

-----------------------------------------------------------------------------
TupleBits(P) == P \cap (0 .. call.num - 1)

BS == INSTANCE BlockScan WITH
  WordBits <- kNumWordBits,
  Requests <- [num : Nums, opt : BitwiseOpt, old : SUBSET Position, hits : SUBSET Position],
  request <- [num |-> call.num, opt |-> call.bit_opt, old |-> TupleBits(call.old),
              hits |-> {p \in Position : Answer(p)}],
  bits <- IF call.vnum = call.num THEN bits \cap UnitPositions(call.vnum)
          ELSE TupleBits(bits),
  cursor <- offset,
  returned <- pc = "done"

(* The naive scan does what ColumnBlock::Scan promises, as the ByteSlice   *)
(* one does; in a vector of its size it leaves no bit past the tuples.     *)
ImplementsBlockScan == BS!Spec
=============================================================================

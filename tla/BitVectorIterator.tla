------------------------- MODULE BitVectorIterator --------------------------
(***************************************************************************)
(* A BitVectorIterator over a vector that its caller may change between    *)
(* two calls of Next.  The words are read one at a time, when the          *)
(* positions of the one before are used up: those of a word wait on a      *)
(* stack, the smallest on top.                                             *)
(***************************************************************************)
EXTENDS BitVectorBlock, SequencesExt

CONSTANTS
  num_,         \* the tuples of the vector
  Vectors,      \* the bits the vector may hold when the iterator is made
  Touched,      \* the tuples whose bit the caller may change meanwhile
  StopAtEnd     \* the caller does not call Next again after it returned false

NumBlocks == CEIL(num_, kNumTuplesPerBlock)
Tuple == 0 .. num_ - 1

BlockNum(b) ==
  LET left == num_ - b * kNumTuplesPerBlock
  IN  IF left < kNumTuplesPerBlock THEN left ELSE kNumTuplesPerBlock

ASSUME IteratorAssumption ==
  /\ num_ \in 1 .. SizeRange - 1
  /\ Vectors \subseteq SUBSET Tuple
  /\ Touched \subseteq Tuple
  /\ StopAtEnd \in BOOLEAN
  /\ kNumWordBits < SizeRange

VARIABLES
  bits,          \* the tuples whose bit is 1
  changed,       \* the tuples whose bit the caller has changed
  stack_,        \* the positions pushed
  stack_top_,    \* how many of them are left, in size_t
  cur_block_id_, cur_word_id_, block_offset_,
  pc,            \* "out": between two calls; "cursor", "word": looking for a
                 \* word; "got": a position is on top of the stack
  next,          \* what the last Next returned
  seen           \* the positions that GetPosition has given, in order

vars == <<bits, changed, stack_, stack_top_, cur_block_id_, cur_word_id_,
          block_offset_, pc, next, seen>>

cursors == <<cur_block_id_, cur_word_id_, block_offset_>>

(* The bits of block b, by position in the block.                          *)
BlockBits(b) ==
  {p \in 0 .. BlockNum(b) - 1 : b * kNumTuplesPerBlock + p \in bits}

(* stack_[stack_top_ - 1]: any value when that is outside the array.        *)
GetPosition ==
  IF stack_top_ \in DOMAIN stack_ THEN {stack_[stack_top_]} ELSE 0 .. SizeRange - 1

(* The loop over the bits of a word, from the highest down to bit 0: a bit *)
(* that is 1 pushes its position, so that the smallest ends on top.        *)
Pushed_Ascending(word, offset) ==
  LET push[bit \in 0 .. kNumWordBits] ==
        IF bit = 0 THEN <<>>
        ELSE IF bit - 1 \in word THEN Append(push[bit - 1], offset + bit - 1)
        ELSE push[bit - 1]
  IN  push[kNumWordBits]
Pushed(word, offset) ==
  LET push[bit \in 0 .. kNumWordBits] ==
        IF bit = kNumWordBits THEN <<>>
        ELSE IF bit \in word THEN Append(push[bit + 1], offset + bit)
        ELSE push[bit + 1]
  IN  push[0]

(* The first position of the word that the cursor has just passed.         *)
WordOffset_OneWordOff == block_offset_ + cur_word_id_ * kNumWordBits
WordOffset == block_offset_ + (cur_word_id_ - 1) * kNumWordBits

NextWord_Same == cur_word_id_
NextWord == cur_word_id_ + 1

NextOffset_FullBlock == block_offset_ + kNumTuplesPerBlock
NextOffset == block_offset_ + BlockNum(cur_block_id_)

(* The words of the cursor's block are used up.                            *)
BlockOver_OneEarly ==
  cur_word_id_ + 1 >= NumWordUnits(BlockNum(cur_block_id_))
BlockOver ==
  cur_word_id_ >= NumWordUnits(BlockNum(cur_block_id_))

-----------------------------------------------------------------------------
Init ==
  /\ bits \in Vectors /\ changed = {}
  /\ stack_ = <<>> /\ stack_top_ = 1
  /\ cur_block_id_ = 0 /\ cur_word_id_ = 0 /\ block_offset_ = 0
  /\ pc = "out" /\ next = TRUE /\ seen = <<>>

(* Next pops; with positions left on the stack it returns at once.  (The   *)
(* guard on seen bounds the model: a vector has no more than num_ bits.)   *)
Next_Pop ==
  /\ pc = "out" /\ Len(seen) <= num_
  /\ StopAtEnd => next
  /\ stack_top_' = (stack_top_ - 1) % SizeRange
  /\ pc' = IF stack_top_' = 0 THEN "cursor" ELSE "got"
  /\ UNCHANGED <<bits, changed, stack_, cursors, next, seen>>

(* The loop makes sure of the cursor: it passes to the next block, or past *)
(* the last one, and then Next returns false.                              *)
Next_Block ==
  /\ pc = "cursor" /\ BlockOver
  /\ cur_word_id_' = 0
  /\ cur_block_id_' = cur_block_id_ + 1
  /\ block_offset_' = NextOffset
  /\ IF cur_block_id_' >= NumBlocks
     THEN pc' = "out" /\ next' = FALSE
     ELSE pc' = "word" /\ UNCHANGED next
  /\ UNCHANGED <<bits, changed, stack_, stack_top_, seen>>

Next_SameBlock ==
  /\ pc = "cursor" /\ ~BlockOver
  /\ pc' = "word"
  /\ UNCHANGED <<bits, changed, stack_, stack_top_, cursors, next, seen>>

(* The loop reads a word, and goes round again when it is zero; the        *)
(* positions of a word that is not are pushed.                             *)
Next_Word ==
  /\ pc = "word"
  /\ cur_word_id_' = NextWord
  /\ UNCHANGED <<cur_block_id_, block_offset_>>
  /\ LET word == GetWordUnit(BlockBits(cur_block_id_), cur_word_id_)
     IN  IF word = {}
         THEN pc' = "cursor" /\ UNCHANGED <<stack_, stack_top_>>
         ELSE /\ stack_' = Pushed(word, WordOffset')
              /\ stack_top_' = Len(stack_')
              /\ pc' = "got"
  /\ UNCHANGED <<bits, changed, next, seen>>

(* Next returns true and the caller asks for the position.                 *)
Next_True ==
  /\ pc = "got"
  /\ next' = TRUE
  /\ \E pos \in GetPosition : seen' = Append(seen, pos)
  /\ pc' = "out"
  /\ UNCHANGED <<bits, changed, stack_, stack_top_, cursors>>

(* The caller, or whoever shares the vector with it, changes a bit.        *)
SetOrUnsetBit(t) ==
  /\ pc = "out" /\ t \notin changed
  /\ bits' \in {bits \cup {t}, bits \ {t}} \ {bits}
  /\ changed' = changed \cup {t}
  /\ UNCHANGED <<stack_, stack_top_, cursors, pc, next, seen>>

Call == Next_Pop \/ Next_Block \/ Next_SameBlock \/ Next_Word \/ Next_True
Next == Call \/ \E t \in Touched : SetOrUnsetBit(t)

(* The caller is a loop on Next: it goes on until Next returns false.      *)
Safety == Init /\ [][Next]_vars
Spec == Safety /\ WF_vars(Call)
-----------------------------------------------------------------------------
TypeOK ==
  /\ bits \subseteq Tuple /\ changed \subseteq Touched
  /\ stack_ \in Seq(Tuple) /\ stack_top_ \in 0 .. kNumWordBits
  /\ cur_block_id_ \in 0 .. NumBlocks /\ block_offset_ \in 0 .. num_
  /\ cur_word_id_ \in 0 .. NumWordUnits(kNumTuplesPerBlock)
  /\ pc \in {"out", "cursor", "word", "got"}
  /\ next \in BOOLEAN /\ seen \in Seq(Tuple)

(* The iterator gives the positions in ascending order, none twice: across *)
(* words, across blocks, and whatever the caller does to the vector.       *)
SeenAscending == \A k \in 1 .. Len(seen) - 1 : seen[k] < seen[k + 1]

(* How far the caller knows the vector: up to the last position it was     *)
(* given, or all of it once Next has returned false.                       *)
Known(t) == ~next \/ (seen # <<>> /\ t <= Last(seen))

(* Between two calls, of the tuples whose bit nobody has touched, those    *)
(* given are exactly the ones whose bit is set, as far as the caller       *)
(* knows: no set bit is skipped, none is made up.                          *)
SeenExactly ==
  pc = "out" => \A t \in Tuple \ changed :
    (\E k \in DOMAIN seen : seen[k] = t) <=> (t \in bits /\ Known(t))

(* What the stack holds may be stale, but by a word at the most: a         *)
(* position whose bit has been unset is given only when the position       *)
(* before it lies in the same word, whose bits were read together.         *)
Word(t) == <<t \div kNumTuplesPerBlock, (t % kNumTuplesPerBlock) \div kNumWordBits>>
StaleWithinWord ==
  [][seen' # seen /\ Last(seen') \notin bits' =>
       seen # <<>> /\ Word(Last(seen)) = Word(Last(seen'))]_vars

(* A loop on Next ends: words of zeros and blocks are passed, and the end  *)
(* of the last block is recognised.                                        *)
IterationEnds == <>(pc = "out" /\ ~next)

(* bitvector_iterator.h:27: "return true if next exists".  Over a vector   *)
(* that nobody changes, Next returns true only when there is a set bit it  *)
(* has not given yet.                                                      *)
TrueMeansNext ==
  [][pc = "got" /\ changed = {} =>
       \E t \in bits : \A k \in DOMAIN seen : seen[k] # t]_vars
=============================================================================

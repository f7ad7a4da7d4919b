------------------------------- MODULE Column -------------------------------
(***************************************************************************)
(* A Column: num_tuples_ and the vector of its blocks, through the calls   *)
(* that load, resize, scan, save and restore it.  A block is its           *)
(* num_tuples_ and the kNumTuplesPerBlock codes of its storage, which is   *)
(* always allocated whole: the codes past num_tuples_ stay there.          *)
(* The release build drops the assertions (NDEBUG); in the debug build a   *)
(* failed one ends the program.  "undefined" is an access outside the      *)
(* vector or a block, "exhausted" an allocation that cannot succeed.       *)
(***************************************************************************)
EXTENDS Types, SequencesExt

CONSTANTS
  kNumTuplesPerBlock,
  kNumWordBits,
  NDEBUG,
  MaxTuples,      \* the caller asks for no more (a bound of the model)
  Codes,          \* the codes stored; a fresh block holds Fresh
  Fresh,
  Arrays,         \* the arrays given to BulkLoadArray, the lines of text files
  NoLoad          \* no BulkLoadArray is running

Position == 0 .. kNumTuplesPerBlock - 1
Blocks == [num : 0 .. kNumTuplesPerBlock, data : [Position -> Codes]]

(* A BulkLoadArray under way: its arguments, the blocks it found (history) *)
(* and its locals; block_id counts from 1.                                 *)
Loads == [array : Arrays, pos : 0 .. MaxTuples, before : Seq(Blocks), done : Nat,
          block_id : Nat \ {0}, pos_in_block : Position]

(* No size asked for wraps, but CEIL of 0 does: its blocks are more than   *)
(* can be allocated.                                                       *)
ASSUME ColumnAssumption ==
  /\ kNumTuplesPerBlock \in Nat \ {0} /\ kNumWordBits \in Nat \ {0}
  /\ NDEBUG \in BOOLEAN
  /\ MaxTuples \in Nat /\ 2 * (MaxTuples + kNumTuplesPerBlock) < SizeRange
  /\ CEIL(0, kNumTuplesPerBlock) > MaxTuples
  /\ Fresh \in Codes
  /\ Arrays \subseteq Seq(Codes)
  /\ NoLoad \notin Loads

VARIABLES
  num_tuples_,
  blocks_,        \* [num, data] of each, block_id 0 first
  status,         \* "ok", or how the program ended
  file,           \* what SerToFile last wrote
  load,           \* the BulkLoadArray running, NoLoad if none
  scanned         \* the tuples whose bit the scan just made answered

vars == <<num_tuples_, blocks_, status, file, load, scanned>>

-----------------------------------------------------------------------------
NumBlocks == CEIL(num_tuples_, kNumTuplesPerBlock)

Block(num, data) == [num |-> num, data |-> data]
CreateNewBlock(num) == Block(num, [p \in Position |-> Fresh])

BlockOf(id) == id \div kNumTuplesPerBlock + 1
PosOf(id) == id % kNumTuplesPerBlock

(* The sizes that num tuples ask of a column's blocks: all full but the    *)
(* last.                                                                   *)
SizesFor(num) ==
  LET full == num \div kNumTuplesPerBlock
      rest == num % kNumTuplesPerBlock
  IN  [b \in 1 .. full |-> kNumTuplesPerBlock]
        \o (IF rest > 0 THEN <<rest>> ELSE <<>>)

Sizes(blocks) == [b \in DOMAIN blocks |-> blocks[b].num]

(* The column's blocks hold its tuples.                                    *)
Layout == Sizes(blocks_) = SizesFor(num_tuples_)

GetTuple(id) == blocks_[BlockOf(id)].data[PosOf(id)]
Tuples == [id \in 0 .. num_tuples_ - 1 |-> GetTuple(id)]

Idle == status = "ok" /\ load = NoLoad

(* SetTuple on the blocks: the id is not checked against anything.         *)
Stored(blocks, id, code) ==
  [blocks EXCEPT ![BlockOf(id)].data[PosOf(id)] = code]

-----------------------------------------------------------------------------
Init ==
  /\ num_tuples_ \in 0 .. MaxTuples
  /\ blocks_ = [b \in DOMAIN SizesFor(num_tuples_) |-> CreateNewBlock(SizesFor(num_tuples_)[b])]
  /\ status = "ok" /\ file = <<>> /\ load = NoLoad /\ scanned = {}

SetTuple ==
  /\ Idle
  /\ \E id \in 0 .. num_tuples_ - 1, code \in Codes :
       IF BlockOf(id) \in DOMAIN blocks_
       THEN blocks_' = Stored(blocks_, id, code) /\ UNCHANGED status
       ELSE status' = "undefined" /\ UNCHANGED blocks_
  /\ scanned' = {}
  /\ UNCHANGED <<num_tuples_, file, load>>

(* The lines past num_tuples_ are not read; a file that cannot be opened   *)
(* changes nothing.                                                        *)
LoadTextFile ==
  /\ Idle
  /\ \E lines \in Arrays :
       LET n == IF Len(lines) < num_tuples_ THEN Len(lines) ELSE num_tuples_
       IN  IF \A id \in 0 .. n - 1 : BlockOf(id) \in DOMAIN blocks_
           THEN /\ blocks_' = [b \in DOMAIN blocks_ |->
                     [blocks_[b] EXCEPT !.data = [p \in Position |->
                        LET id == (b - 1) * kNumTuplesPerBlock + p
                        IN  IF id < n THEN lines[id + 1] ELSE @[p]]]]
                /\ UNCHANGED status
           ELSE status' = "undefined" /\ UNCHANGED blocks_
  /\ scanned' = {}
  /\ UNCHANGED <<num_tuples_, file, load>>

(* Resize: fill the last block and append, or delete blocks from the end,  *)
(* then give the last block what is left.  The loop that deletes stops     *)
(* with bid = new_num_blocks, when new_num_blocks + 1 are left.            *)
Appended_LastReplaced(blocks, new_num_blocks) ==
  [b \in 1 .. new_num_blocks |->
     IF b < Len(blocks) THEN blocks[b] ELSE CreateNewBlock(kNumTuplesPerBlock)]
Appended(blocks, new_num_blocks) ==
  [b \in 1 .. new_num_blocks |->
     IF b < Len(blocks) THEN blocks[b]
     ELSE IF b = Len(blocks) THEN Block(kNumTuplesPerBlock, blocks[b].data)
     ELSE CreateNewBlock(kNumTuplesPerBlock)]

Removed(blocks, new_num_blocks) == SubSeq(blocks, 1, new_num_blocks + 1)

LastCorrected_Never(blocks, num) == blocks
LastCorrected_NoRemainder(blocks, num) ==
  [blocks EXCEPT ![Len(blocks)].num = num]
LastCorrected(blocks, num) ==
  IF num % kNumTuplesPerBlock > 0
  THEN [blocks EXCEPT ![Len(blocks)].num = num % kNumTuplesPerBlock]
  ELSE blocks

Resized(blocks, num) ==
  LET new == CEIL(num, kNumTuplesPerBlock)
      old == Len(blocks)
  IN  LastCorrected(IF new > old THEN Appended(blocks, new)
                    ELSE IF new < old THEN Removed(blocks, new)
                    ELSE blocks, num)

Resize ==
  /\ Idle
  /\ \E num \in 0 .. MaxTuples :
       LET new == CEIL(num, kNumTuplesPerBlock)
       IN  /\ num_tuples_' = num
           /\ IF Len(blocks_) = 0
              THEN status' = "undefined" /\ UNCHANGED blocks_
              ELSE IF new > MaxTuples
              THEN status' = "exhausted" /\ UNCHANGED blocks_
              ELSE /\ blocks_' = Resized(blocks_, num)
                   /\ status' = IF NDEBUG \/ Len(blocks_') = new THEN "ok" ELSE "resize_assert"
  /\ scanned' = {}
  /\ UNCHANGED <<file, load>>

-----------------------------------------------------------------------------
(* BulkLoadArray, one block at a time.                                     *)
BeginLoad ==
  /\ Idle
  /\ \E array \in Arrays, pos \in 0 .. num_tuples_ :
       /\ pos + Len(array) <= num_tuples_
       /\ load' = [array |-> array, pos |-> pos, before |-> blocks_, done |-> 0,
                   block_id |-> BlockOf(pos), pos_in_block |-> PosOf(pos)]
  /\ scanned' = {}
  /\ UNCHANGED <<num_tuples_, blocks_, status, file>>

(* The tuples of a block from pos on, in size_t.                           *)
Room(b, pos) == (blocks_[b].num - pos) % SizeRange

(* Where the loop goes on, size codes later.                               *)
Advanced_OffsetKept(size) ==
  [load EXCEPT !.done = @ + size, !.block_id = @ + 1]
Advanced_BlockKept(size) ==
  [load EXCEPT !.done = @ + size, !.pos_in_block = 0]
Advanced_PlaceKept(size) ==
  [load EXCEPT !.done = @ + size]
Advanced(size) ==
  [load EXCEPT !.done = @ + size, !.block_id = @ + 1, !.pos_in_block = 0]

LoadBlock ==
  /\ status = "ok" /\ load # NoLoad
  /\ load.done < Len(load.array)
  /\ LET b == load.block_id
         start == load.pos_in_block
         remain == Len(load.array) - load.done
         size == IF Room(b, start) < remain THEN Room(b, start) ELSE remain
     IN  IF b \notin DOMAIN blocks_
         THEN status' = "undefined" /\ UNCHANGED <<blocks_, load>>
         ELSE IF ~NDEBUG /\ start + size > blocks_[b].num
         THEN status' = "load_assert" /\ UNCHANGED <<blocks_, load>>
         ELSE IF start + size > kNumTuplesPerBlock
         THEN status' = "undefined" /\ UNCHANGED <<blocks_, load>>
         ELSE /\ blocks_' = [blocks_ EXCEPT ![b].data = [p \in Position |->
                   IF start <= p /\ p < start + size
                   THEN load.array[load.done + p - start + 1] ELSE @[p]]]
              /\ load' = Advanced(size)
              /\ UNCHANGED status
  /\ scanned' = {}
  /\ UNCHANGED <<num_tuples_, file>>

EndLoad ==
  /\ status = "ok" /\ load # NoLoad
  /\ load.done = Len(load.array)
  /\ load' = NoLoad
  /\ scanned' = {}
  /\ UNCHANGED <<num_tuples_, blocks_, status, file>>

-----------------------------------------------------------------------------
(* A scan into a BitVector made for the column.  A block's scan answers    *)
(* whole words, its last one cut to what the vector's block holds.         *)
Answered_OneShort(b) ==
  {id \in 0 .. num_tuples_ - 1 :
     /\ BlockOf(id) = b
     /\ PosOf(id) < CEIL(blocks_[b].num - 1, kNumWordBits) * kNumWordBits}
Answered(b) ==
  {id \in 0 .. num_tuples_ - 1 :
     /\ BlockOf(id) = b
     /\ PosOf(id) < CEIL(blocks_[b].num, kNumWordBits) * kNumWordBits}

VectorSizes == SizesFor(num_tuples_)

Scan ==
  /\ Idle
  /\ IF ~(DOMAIN blocks_ \subseteq DOMAIN VectorSizes)
     THEN status' = "undefined" /\ UNCHANGED scanned
     ELSE IF ~NDEBUG /\ \E b \in DOMAIN blocks_ : blocks_[b].num # VectorSizes[b]
     THEN status' = "scan_assert" /\ UNCHANGED scanned
     ELSE /\ scanned' = UNION {Answered(b) : b \in DOMAIN blocks_}
          /\ UNCHANGED status
  /\ UNCHANGED <<num_tuples_, blocks_, file, load>>

(* Each block writes its num_tuples_ and its storage, and reads them back  *)
(* in the same order; nothing in the file says how many blocks there are.  *)
SerToFile ==
  /\ Idle
  /\ file' = blocks_
  /\ scanned' = {}
  /\ UNCHANGED <<num_tuples_, blocks_, status, load>>

DeserFromFile ==
  /\ Idle /\ file # <<>>
  /\ blocks_' = [b \in DOMAIN blocks_ |-> IF b \in DOMAIN file THEN file[b] ELSE blocks_[b]]
  /\ scanned' = {}
  /\ UNCHANGED <<num_tuples_, status, file, load>>

(* Destroy deletes the blocks; num_tuples_ keeps its value.                *)
Destroy ==
  /\ Idle
  /\ blocks_' = <<>>
  /\ scanned' = {}
  /\ UNCHANGED <<num_tuples_, status, file, load>>

Next ==
  \/ SetTuple \/ LoadTextFile \/ Resize \/ Destroy
  \/ BeginLoad \/ LoadBlock \/ EndLoad
  \/ Scan \/ SerToFile \/ DeserFromFile

Spec == Init /\ [][Next]_vars /\ WF_vars(LoadBlock \/ EndLoad)
-----------------------------------------------------------------------------
TypeOK ==
  /\ num_tuples_ \in 0 .. MaxTuples
  /\ blocks_ \in Seq(Blocks)
  /\ status \in {"ok", "undefined", "exhausted",
                 "resize_assert", "load_assert", "scan_assert"}
  /\ file \in Seq(Blocks)
  /\ load # NoLoad => load \in Loads /\ load.done <= Len(load.array)
  /\ scanned \subseteq 0 .. num_tuples_ - 1

(* The resizings that leave the blocks at other sizes than the tuples ask  *)
(* for: deleting blocks, and filling the last block exactly.               *)
ResizeMisses ==
  \/ CEIL(num_tuples_', kNumTuplesPerBlock) < Len(blocks_)
  \/ /\ CEIL(num_tuples_', kNumTuplesPerBlock) = Len(blocks_)
     /\ num_tuples_' % kNumTuplesPerBlock = 0

(* A column whose blocks fit its tuples loses that only by one of those    *)
(* resizings, and always then, by restoring a file of another shape, or by *)
(* Destroy.                                                                *)
LayoutKept ==
  [][Layout /\ status' = "ok" =>
       CASE num_tuples_' # num_tuples_ -> (Layout' <=> ~ResizeMisses)
         [] num_tuples_' = num_tuples_ ->
              \/ Layout' \/ blocks_' = <<>>
              \/ \E b \in DOMAIN blocks_ \cap DOMAIN file : file[b].num # blocks_[b].num]_vars

(* Resize never loses or moves a tuple that both sizes hold, whatever it   *)
(* has done to the blocks before.                                          *)
ResizeKeepsTuples ==
  [][num_tuples_' # num_tuples_ /\ status' = "ok" =>
       \A id \in 0 .. num_tuples_ - 1 : id < num_tuples_' => Tuples'[id] = Tuples[id]]_vars

(* On a column whose blocks fit, no legal call ends the program but Resize *)
(* of an empty column, to no tuple or, with assertions, to fewer blocks.   *)
HealthyCallsReturn ==
  [][Layout /\ status' # "ok" =>
       \/ blocks_ = <<>>
       \/ num_tuples_' = 0
       \/ ~NDEBUG /\ CEIL(num_tuples_', kNumTuplesPerBlock) < Len(blocks_)]_vars

(* A bulk load across blocks stores its array at its place, all of it, and *)
(* no other tuple changes.                                                 *)
BulkLoadExact ==
  [][load # NoLoad /\ load' = NoLoad /\ Layout =>
       Tuples' = [id \in 0 .. num_tuples_ - 1 |->
         IF load.pos <= id /\ id < load.pos + Len(load.array)
         THEN load.array[id - load.pos + 1]
         ELSE load.before[BlockOf(id)].data[PosOf(id)]]]_vars

(* While the blocks fit, a scan answers every tuple: the bit a vector was  *)
(* made with never passes for an answer.                                   *)
ScanComplete ==
  [][Scan /\ Layout => scanned' = 0 .. num_tuples_ - 1]_vars

(* A bulk load ends, whatever the sizes of the blocks it meets.            *)
LoadEnds == load # NoLoad ~> load = NoLoad \/ status # "ok"

(* column.cpp:97: assert(blocks_.size() == new_num_blocks).                *)
ResizeAssertHolds == status # "resize_assert"

(* column.cpp:90: "now the number of block is desired, correct the size of *)
(* the last block".                                                        *)
LastBlockCorrected ==
  [][num_tuples_' # num_tuples_ /\ status' = "ok" /\ Len(blocks_') = NumBlocks' =>
       blocks_'[Len(blocks_')].num
         = num_tuples_' - (Len(blocks_') - 1) * kNumTuplesPerBlock]_vars
=============================================================================

----------------------------- MODULE BitVector ------------------------------
(***************************************************************************)
(* A BitVector and the operations that go over its blocks in an OpenMP     *)
(* "parallel for schedule(dynamic)": And, Or, SetOnes, SetZeros, CountOnes *)
(* and Column::Scan, whose block scans write it.  The caller opens the     *)
(* loop and waits; the threads of the team claim blocks one at a time,     *)
(* read and write their words, and meet at the barrier.  A block scan is   *)
(* the BlockScan of its module: word by word, with the comparison's        *)
(* answers as an argument, those past num_tuples_ included.                *)
(***************************************************************************)
EXTENDS BitVectorBlock, FiniteSets

CONSTANTS
  num_,        \* the tuples of the vector
  Worker,      \* the threads of the team
  Calls,       \* the operations the caller may ask for
  Bits,        \* the positions it may set and unset one at a time
  NoCall       \* no operation is running

NumBlocks == CEIL(num_, kNumTuplesPerBlock)
BlockId == 0 .. NumBlocks - 1
Position == 0 .. kNumTuplesPerBlock - 1

(* num_ of each block: all are full but the last.                          *)
BlockNum(b) ==
  LET left == num_ - b * kNumTuplesPerBlock
  IN  IF left < kNumTuplesPerBlock THEN left ELSE kNumTuplesPerBlock

ASSUME CallAssumption ==
  /\ num_ \in 1 .. SizeRange - 1
  /\ Calls \subseteq [op : {"Scan", "And", "Or", "SetOnes", "SetZeros", "CountOnes"},
                      opt : BitwiseOpt, arg : [BlockId -> SUBSET Position]]
  /\ Bits \subseteq 0 .. num_ - 1
  /\ Worker # {}
  /\ NoCall \notin Calls
  /\ NoCall \notin [op : {"Scan", "And", "Or", "SetOnes", "SetZeros", "CountOnes"},
                    opt : BitwiseOpt, arg : SUBSET (0 .. num_ - 1)]

VARIABLES
  blocks_,     \* the bits of each block
  call,        \* the operation running, NoCall between two
  old,         \* the bits when it began
  next_block,  \* the loop's counter, shared by the team
  pc,          \* where each thread is: "out", "claim", "load", "store", "barrier"
  block,       \* the block it works on
  word_id,     \* the word it is at
  word,        \* the word it loaded
  partial,     \* its private count
  count,       \* the reduction's total
  result       \* what the last CountOnes returned

vars == <<blocks_, call, old, next_block, pc, block, word_id, word, partial,
          count, result>>

(* The words an operation visits: a scan stops at num_tuples_, the others  *)
(* go over the words in use.                                               *)
Words_FullOnly(b) == BlockNum(b) \div kNumWordBits
Words(b) ==
  IF call.op = "Scan" THEN CEIL(BlockNum(b), kNumWordBits) ELSE NumWordUnits(BlockNum(b))

(* What an operation makes of a word, bit by bit.                          *)
NewBit(bit, arg) ==
  CASE call.op = "Scan"      -> Combine(call.opt, bit, arg)
    [] call.op = "And"       -> bit /\ arg
    [] call.op = "Or"        -> bit \/ arg
    [] call.op = "SetOnes"   -> TRUE
    [] call.op = "SetZeros"  -> FALSE

NewWord(w, arg) == {b \in WordBit : NewBit(b \in w, b \in arg)}

-----------------------------------------------------------------------------
Init ==
  /\ blocks_ = [b \in BlockId |-> SetOnes(BlockNum(b))]
  /\ call = NoCall /\ old = [b \in BlockId |-> {}]
  /\ next_block = 0
  /\ pc = [w \in Worker |-> "out"]
  /\ block = [w \in Worker |-> 0] /\ word_id = [w \in Worker |-> 0]
  /\ word = [w \in Worker |-> {}] /\ partial = [w \in Worker |-> 0]
  /\ count = 0 /\ result = 0

(* The caller opens a parallel loop: the threads start, their counts at 0. *)
Begin ==
  /\ call = NoCall
  /\ call' \in Calls
  /\ old' = blocks_
  /\ pc' = [w \in Worker |-> "claim"]
  /\ UNCHANGED <<blocks_, next_block, block, word_id, word, partial, count, result>>

(* schedule(dynamic): a thread takes the next block, and is done when      *)
(* there is none; the reduction adds its count to the total on the way.    *)
(* (What a loop leaves in its locals is reset when it ends: they go out of *)
(* scope.)                                                                 *)
BlocksLeft_OnePastTheEnd == next_block <= NumBlocks
BlocksLeft == next_block < NumBlocks

Taken_Same == next_block
Taken == next_block + 1

Claim(w) ==
  /\ pc[w] = "claim" /\ BlocksLeft
  /\ block' = [block EXCEPT ![w] = next_block]
  /\ next_block' = Taken
  /\ word_id' = [word_id EXCEPT ![w] = 0]
  /\ pc' = [pc EXCEPT ![w] = "load"]
  /\ UNCHANGED <<blocks_, call, old, word, partial, count, result>>

Reduced_Last(w) == partial[w]
Reduced(w) == count + partial[w]

Leave(w) ==
  /\ pc[w] = "claim" /\ ~BlocksLeft
  /\ count' = Reduced(w)
  /\ pc' = [pc EXCEPT ![w] = "barrier"]
  /\ UNCHANGED <<blocks_, call, old, next_block, block, word_id, word, partial, result>>

LoadWord(w) ==
  /\ pc[w] = "load" /\ word_id[w] < Words(block[w])
  /\ word' = [word EXCEPT ![w] = GetWordUnit(blocks_[block[w]], word_id[w])]
  /\ pc' = [pc EXCEPT ![w] = "store"]
  /\ UNCHANGED <<blocks_, call, old, next_block, block, word_id, partial, count, result>>

(* The word is written back, or counted.                                   *)
StoreWord(w) ==
  /\ pc[w] = "store"
  /\ IF call.op = "CountOnes"
     THEN /\ partial' = [partial EXCEPT ![w] = @ + Cardinality(word[w])]
          /\ UNCHANGED blocks_
     ELSE /\ blocks_' = [blocks_ EXCEPT ![block[w]] =
               SetWordUnit(@, NewWord(word[w], GetWordUnit(call.arg[block[w]], word_id[w])),
                           word_id[w])]
          /\ UNCHANGED partial
  /\ word_id' = [word_id EXCEPT ![w] = @ + 1]
  /\ pc' = [pc EXCEPT ![w] = "load"]
  /\ UNCHANGED <<call, old, next_block, block, word, count, result>>

(* After the last word, ClearTail where the operation could dirty it.      *)
EndBlock(w) ==
  /\ pc[w] = "load" /\ word_id[w] >= Words(block[w])
  /\ blocks_' = IF call.op \in {"Scan", "And", "Or", "SetOnes"}
                THEN [blocks_ EXCEPT ![block[w]] = ClearTail(@, BlockNum(block[w]))]
                ELSE blocks_
  /\ pc' = [pc EXCEPT ![w] = "claim"]
  /\ block' = [block EXCEPT ![w] = 0] /\ word_id' = [word_id EXCEPT ![w] = 0]
  /\ word' = [word EXCEPT ![w] = {}]
  /\ UNCHANGED <<call, old, next_block, partial, count, result>>

(* The implicit barrier: the call returns when every thread has left.      *)
Return ==
  /\ call # NoCall
  /\ \A w \in Worker : pc[w] = "barrier"
  /\ result' = IF call.op = "CountOnes" THEN count ELSE result
  /\ call' = NoCall
  /\ pc' = [w \in Worker |-> "out"]
  /\ old' = [b \in BlockId |-> {}] /\ next_block' = 0
  /\ partial' = [w \in Worker |-> 0] /\ count' = 0
  /\ UNCHANGED <<blocks_, block, word_id, word>>

SetBit(pos) ==
  /\ call = NoCall
  /\ blocks_' = [blocks_ EXCEPT ![pos \div kNumTuplesPerBlock] =
                   @ \cup {pos % kNumTuplesPerBlock}]
  /\ UNCHANGED <<call, old, next_block, pc, block, word_id, word, partial, count, result>>

UnsetBit(pos) ==
  /\ call = NoCall
  /\ blocks_' = [blocks_ EXCEPT ![pos \div kNumTuplesPerBlock] =
                   @ \ {pos % kNumTuplesPerBlock}]
  /\ UNCHANGED <<call, old, next_block, pc, block, word_id, word, partial, count, result>>

Work(w) == Claim(w) \/ Leave(w) \/ LoadWord(w) \/ StoreWord(w) \/ EndBlock(w)

Next ==
  \/ Begin
  \/ \E w \in Worker : Work(w)
  \/ Return
  \/ \E pos \in Bits : SetBit(pos) \/ UnsetBit(pos)

(* The system runs every thread of a team, and the caller behind it.       *)
Safety == Init /\ [][Next]_vars
Spec == Safety /\ (\A w \in Worker : WF_vars(Work(w))) /\ WF_vars(Return)
-----------------------------------------------------------------------------
(* The bit an operation must leave at p of block b.                        *)
After(b, p) ==
  IF call.op = "CountOnes" THEN p \in old[b]
  ELSE p < BlockNum(b) /\ NewBit(p \in old[b], p \in call.arg[b])

Working(w) == pc[w] \in {"load", "store"}
Started(b) == b < next_block
Finished(b) == Started(b) /\ \A w \in Worker : Working(w) => block[w] # b

TypeOK ==
  /\ blocks_ \in [BlockId -> SUBSET Position]
  /\ call \in Calls \cup {NoCall}
  /\ old \in [BlockId -> SUBSET Position]
  /\ next_block \in 0 .. NumBlocks
  /\ pc \in [Worker -> {"out", "claim", "load", "store", "barrier"}]
  /\ block \in [Worker -> BlockId]
  /\ word_id \in [Worker -> Nat]
  /\ word \in [Worker -> SUBSET WordBit]
  /\ partial \in [Worker -> Nat] /\ count \in Nat /\ result \in Nat

(* Between two operations no block has a bit past its tuples: CountOnes,   *)
(* which counts whole words, and the iterator rest on it.                  *)
TailsClean ==
  call = NoCall => \A b \in BlockId : blocks_[b] \subseteq 0 .. BlockNum(b) - 1

(* Whatever the threads' interleaving, each block goes from the old bits   *)
(* to the operation's, once, word after word: nothing is lost, nothing is  *)
(* applied twice, no block is left out.                                    *)
BlocksOnce ==
  call # NoCall => \A b \in BlockId :
    /\ ~Started(b) => blocks_[b] = old[b]
    /\ Finished(b) => blocks_[b] = {p \in Position : After(b, p)}
    /\ \A w \in Worker : Working(w) /\ block[w] = b =>
         \A p \in 0 .. BlockNum(b) - 1 :
           p \in blocks_[b] <=> IF p \div kNumWordBits < word_id[w]
                                THEN After(b, p) ELSE p \in old[b]

(* Two threads never work on the same block, and the word a thread has     *)
(* loaded is the one it will write.                                        *)
BlocksOwned ==
  \A w \in Worker : Working(w) =>
    /\ Started(block[w])
    /\ \A v \in Worker : Working(v) /\ block[v] = block[w] => v = w
    /\ pc[w] = "store" => word[w] = GetWordUnit(blocks_[block[w]], word_id[w])

-----------------------------------------------------------------------------
(* The tuple ids whose position in these blocks is set.                    *)
Ids(bs) ==
  {t \in 0 .. num_ - 1 : t % kNumTuplesPerBlock \in bs[t \div kNumTuplesPerBlock]}

Abs == INSTANCE BitVectorSpec WITH
  Tuples <- 0 .. num_ - 1,
  bits <- Ids(IF call = NoCall THEN blocks_ ELSE old),
  call <- IF call = NoCall THEN NoCall
          ELSE [op |-> call.op, opt |-> call.opt, arg |-> Ids(call.arg)]

(* To its caller the vector is one set of bits and each operation one step *)
(* that always comes: the blocks, the words and the threads do not show.   *)
ImplementsBitVectorSpec == Abs!Spec

(* Every operation returns: no thread waits at the barrier for ever.       *)
CallsReturn == call # NoCall ~> call = NoCall
=============================================================================

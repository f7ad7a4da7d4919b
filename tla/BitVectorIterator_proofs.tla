---------------------- MODULE BitVectorIterator_proofs ----------------------
(***************************************************************************)
(* BitVectorIterator, proved for vectors of any size in blocks and words   *)
(* of any size, whatever its caller changes meanwhile.  The caller is the  *)
(* loop that stops when Next returns false (StopAtEnd); what a call after  *)
(* that does is shown by a run of its own, MCBitVectorIterator_exhausted.  *)
(***************************************************************************)
EXTENDS BitVectorIterator, BitVectorBlock_proofs, SequenceTheorems, WellFoundedInduction

-----------------------------------------------------------------------------
(* The loop that pushes the positions of a word.                           *)

(* Induction, as the least counterexample.                                 *)
LEMMA LeastNatural ==
  ASSUME NEW T \in SUBSET Nat, NEW e \in T
  PROVE  \E m \in T : \A n \in T : m <= n
<1>1. T # {} /\ T \subseteq Nat
  OBVIOUS
<1>2. PICK m \in T : \A n \in T : ~(<<n, m>> \in OpToRel(<, Nat))
  BY <1>1, NatLessThanWellFounded, WFMin, Zenon
<1>3. \A n \in T : ~(n < m)
  BY <1>1, <1>2 DEF OpToRel
<1> QED BY <1>1, <1>3

(* What the loop has pushed when it is about to look at the bit below,     *)
(* as a function f of the bit it looked at last: what f is from bit up.    *)
PushedDown(f, bit, word, offset) ==
  \A c \in bit .. kNumWordBits :
    f[c] = IF c = kNumWordBits THEN <<>>
           ELSE IF c \in word THEN Append(f[c + 1], offset + c) ELSE f[c + 1]

(* The loop's equation.                                                    *)
PushLoop(f, word, offset) ==
  f = [bit \in 0 .. kNumWordBits |->
         IF bit = kNumWordBits THEN <<>>
         ELSE IF bit \in word THEN Append(f[bit + 1], offset + bit)
         ELSE f[bit + 1]]

LEMMA PushExists ==
  ASSUME NEW word, NEW offset
  PROVE  \E f : PushLoop(f, word, offset)
<1> DEFINE W == kNumWordBits
           Some(d) == \E f : PushedDown(f, W - d, word, offset)
           Bad == {d \in 0 .. W : ~Some(d)}
<1>1. W \in Nat
  BY Sizes
<1>2. ASSUME NEW d \in Bad, \A e \in Bad : d <= e
      PROVE  FALSE
  <2>1. d \in 0 .. W /\ ~Some(d)
    OBVIOUS
  <2>2. CASE d = 0
    <3> DEFINE f == [c \in W .. W |-> <<>>]
    <3>1. \A c \in W - 0 .. W : c = W /\ f[c] = <<>>
      BY <1>1
    <3>2. PushedDown(f, W - 0, word, offset)
      BY <3>1 DEF PushedDown
    <3> QED BY <2>1, <2>2, <3>2
  <2>3. CASE d # 0
    <3>1. d - 1 \in 0 .. W /\ ~(d <= d - 1)
      BY <1>1, <2>1, <2>3
    <3>2. Some(d - 1)
      BY <1>2, <3>1
    <3>3. PICK f : PushedDown(f, W - (d - 1), word, offset)
      BY <3>2
    <3> DEFINE bit == W - d
               top == IF bit \in word THEN Append(f[bit + 1], offset + bit) ELSE f[bit + 1]
               g == [c \in bit .. W |-> IF c = bit THEN top ELSE f[c]]
    <3>4. bit \in Nat /\ bit < W /\ bit + 1 = W - (d - 1)
      BY <1>1, <2>1, <2>3
    <3> HIDE DEF bit, top, W
    <3>5. ASSUME NEW c \in bit .. W
          PROVE  g[c] = IF c = W THEN <<>>
                        ELSE IF c \in word THEN Append(g[c + 1], offset + c) ELSE g[c + 1]
      <4>1. c \in Int /\ (c # W => c + 1 \in bit .. W /\ c + 1 # bit)
        BY <1>1, <3>4
      <4>2. c # W => g[c + 1] = f[c + 1]
        BY <4>1
      <4>3. CASE c = bit
        <5>1. g[c] = top /\ c # W
          BY <3>4, <4>3
        <5> QED BY <4>2, <4>3, <5>1 DEF top
      <4>4. CASE c # bit
        <5>1. c \in bit + 1 .. W /\ g[c] = f[c]
          BY <3>4, <4>1, <4>4
        <5>2. f[c] = IF c = W THEN <<>>
                     ELSE IF c \in word THEN Append(f[c + 1], offset + c) ELSE f[c + 1]
          BY <3>3, <3>4, <5>1 DEF PushedDown, W
        <5> QED BY <4>2, <5>1, <5>2
      <4> QED BY <4>3, <4>4
    <3>6. PushedDown(g, bit, word, offset)
      <4> HIDE DEF g
      <4> QED BY <3>5 DEF PushedDown, W
    <3> QED BY <2>1, <3>6 DEF bit, W
  <2> QED BY <2>2, <2>3
<1>3. Bad = {}
  <2>1. Bad \in SUBSET Nat
    BY <1>1
  <2> HIDE DEF Bad
  <2> QED BY <1>2, <2>1, LeastNatural
<1>4. PICK f : PushedDown(f, 0, word, offset)
  <2>1. Some(W)
    BY <1>1, <1>3
  <2>2. W - W = 0
    BY <1>1
  <2> QED BY <2>1, <2>2
<1> DEFINE g == [c \in 0 .. W |-> f[c]]
<1>5. ASSUME NEW c \in 0 .. W
      PROVE  f[c] = IF c = W THEN <<>>
                    ELSE IF c \in word THEN Append(g[c + 1], offset + c) ELSE g[c + 1]
  <2>1. c # W => c + 1 \in 0 .. W
    BY <1>1
  <2>2. c # W => g[c + 1] = f[c + 1]
    BY <2>1
  <2> QED BY <1>4, <2>2 DEF PushedDown
<1>6. g = [c \in 0 .. W |->
             IF c = W THEN <<>>
             ELSE IF c \in word THEN Append(g[c + 1], offset + c) ELSE g[c + 1]]
  BY <1>5
<1> HIDE DEF g
<1> QED BY <1>6 DEF PushLoop

(* The loop pushes the positions of the word's bits, each once, from the   *)
(* largest to the smallest.                                                *)
LEMMA PushedPositions ==
  ASSUME NEW word \in SUBSET WordBit, NEW offset \in Nat
  PROVE  LET s == Pushed(word, offset) IN
         /\ s \in Seq({offset + b : b \in word}) /\ Len(s) \in 0 .. kNumWordBits
         /\ \A i, j \in 1 .. Len(s) : i < j => s[i] > s[j]
         /\ \A b \in word : \E i \in 1 .. Len(s) : s[i] = offset + b
<1> DEFINE W == kNumWordBits
           S == {offset + b : b \in word}
           push == CHOOSE f : PushLoop(f, word, offset)
<1>1. W \in Nat
  BY Sizes
<1>2. Pushed(word, offset) = push[0]
  BY DEF Pushed, PushLoop
<1>3. PushLoop(push, word, offset)
  BY PushExists
<1> HIDE DEF push
<1>4. \A bit \in 0 .. W :
        push[bit] = IF bit = W THEN <<>>
                    ELSE IF bit \in word THEN Append(push[bit + 1], offset + bit)
                    ELSE push[bit + 1]
  BY <1>3 DEF PushLoop
<1> DEFINE Right(bit) ==
             LET s == push[bit] IN
             /\ s \in Seq(S) /\ Len(s) \in 0 .. W - bit
             /\ \A i, j \in 1 .. Len(s) : i < j => s[i] > s[j]
             /\ \A i \in 1 .. Len(s) : s[i] >= offset + bit
             /\ \A b \in word : b >= bit => \E i \in 1 .. Len(s) : s[i] = offset + b
           Bad == {d \in 0 .. W : ~Right(W - d)}
<1>5. \A b \in word : b \in 0 .. W - 1
  BY DEF WordBit
<1>6. S \subseteq Nat
  BY <1>1, <1>5
<1>7. Right(W)
  <2>1. push[W] = <<>>
    BY <1>1, <1>4
  <2>2. push[W] \in Seq(S) /\ Len(push[W]) = 0
    BY <2>1, EmptySeq
  <2>3. \A b \in word : ~(b >= W)
    BY <1>1, <1>5
  <2> HIDE DEF S
  <2> QED BY <1>1, <2>2, <2>3
<1>8. ASSUME NEW bit \in 0 .. W - 1, Right(bit + 1)
      PROVE  Right(bit)
  <2> DEFINE t == push[bit + 1]
             s == push[bit]
  <2>1. /\ t \in Seq(S) /\ Len(t) \in 0 .. W - (bit + 1)
        /\ \A i, j \in 1 .. Len(t) : i < j => t[i] > t[j]
        /\ \A i \in 1 .. Len(t) : t[i] >= offset + (bit + 1)
        /\ \A b \in word : b >= bit + 1 => \E i \in 1 .. Len(t) : t[i] = offset + b
    BY <1>8
  <2>2. bit \in 0 .. W /\ bit # W /\ bit \in Nat
    BY <1>1
  <2>3. s = IF bit \in word THEN Append(t, offset + bit) ELSE t
    BY <1>4, <2>2
  <2>4. \A i \in 1 .. Len(t) : t[i] \in Nat
    BY <1>6, <2>1, ElementOfSeq
  <2>5. \A b \in word : b >= bit /\ b # bit => b >= bit + 1
    BY <1>1, <1>5, <2>2
  <2> HIDE DEF s, t, S
  <2>6. CASE bit \notin word
    <3>1. s = t
      BY <2>3, <2>6
    <3>2. Len(s) \in 0 .. W - bit
      BY <1>1, <2>1, <2>2, <3>1
    <3>3. \A i \in 1 .. Len(s) : s[i] >= offset + bit
      BY <2>1, <2>2, <2>4, <3>1
    <3>4. \A b \in word : b >= bit => \E i \in 1 .. Len(s) : s[i] = offset + b
      BY <2>1, <2>5, <2>6, <3>1
    <3> QED BY <2>1, <3>1, <3>2, <3>3, <3>4 DEF s
  <2>7. CASE bit \in word
    <3>1. offset + bit \in S
      BY <2>7 DEF S
    <3>2. /\ s \in Seq(S) /\ Len(s) = Len(t) + 1
          /\ \A i \in 1 .. Len(t) : s[i] = t[i]
          /\ s[Len(t) + 1] = offset + bit
      BY <2>1, <2>3, <2>7, <3>1, AppendProperties
    <3>3. Len(t) \in Nat /\ Len(s) \in 0 .. W - bit
      BY <1>1, <2>1, <2>2, <3>2
    <3>4. \A i \in 1 .. Len(s) : i \in 1 .. Len(t) \/ i = Len(t) + 1
      BY <3>2, <3>3
    <3>5. ASSUME NEW i \in 1 .. Len(s), NEW j \in 1 .. Len(s), i < j
          PROVE  s[i] > s[j]
      <4>1. i \in 1 .. Len(t)
        BY <3>2, <3>3, <3>5
      <4>2. CASE j \in 1 .. Len(t)
        BY <2>1, <3>2, <3>5, <4>1, <4>2
      <4>3. CASE j = Len(t) + 1
        BY <2>1, <2>2, <2>4, <3>2, <4>1, <4>3
      <4> QED BY <3>4, <4>2, <4>3
    <3>6. ASSUME NEW i \in 1 .. Len(s)
          PROVE  s[i] >= offset + bit
      BY <2>1, <2>2, <2>4, <3>2, <3>4
    <3>7. ASSUME NEW b \in word, b >= bit
          PROVE  \E i \in 1 .. Len(s) : s[i] = offset + b
      <4>1. CASE b = bit
        <5>1. Len(t) + 1 \in 1 .. Len(s)
          BY <3>2, <3>3
        <5> QED BY <3>2, <4>1, <5>1
      <4>2. CASE b # bit
        <5>1. PICK i \in 1 .. Len(t) : t[i] = offset + b
          BY <2>1, <2>5, <3>7, <4>2
        <5>2. i \in 1 .. Len(s) /\ s[i] = offset + b
          BY <3>2, <3>3, <5>1
        <5> QED BY <5>2
      <4> QED BY <4>1, <4>2
    <3> QED BY <3>2, <3>3, <3>5, <3>6, <3>7 DEF s
  <2> QED BY <2>6, <2>7
<1>9. ASSUME NEW d \in Bad, \A e \in Bad : d <= e
      PROVE  FALSE
  <2>1. d \in 0 .. W /\ ~Right(W - d)
    OBVIOUS
  <2> HIDE DEF Right
  <2>2. d # 0
    BY <1>1, <1>7, <2>1
  <2>3. d - 1 \in 0 .. W /\ ~(d <= d - 1) /\ W - (d - 1) = (W - d) + 1 /\ W - d \in 0 .. W - 1
    BY <1>1, <2>1, <2>2
  <2>4. Right((W - d) + 1)
    BY <1>9, <2>3
  <2> QED BY <1>8, <2>1, <2>3, <2>4
<1> HIDE DEF Right
<1>10. Bad = {}
  <2>1. Bad \in SUBSET Nat
    BY <1>1
  <2> HIDE DEF Bad
  <2> QED BY <1>9, <2>1, LeastNatural
<1>11. Right(0)
  <2>1. W \in 0 .. W /\ W - W = 0
    BY <1>1
  <2> QED BY <1>10, <2>1
<1>12. \A b \in word : b >= 0
  BY <1>1, <1>5
<1>13. W - 0 = W
  BY <1>1
<1> QED BY <1>2, <1>11, <1>12, <1>13 DEF Right

-----------------------------------------------------------------------------
(* Where the tuples are in the blocks and the words.                       *)

LEMMA Blocks ==
  /\ num_ \in Nat \ {0} /\ kNumTuplesPerBlock \in Nat \ {0} /\ kNumWordBits \in Nat \ {0}
  /\ NumBlocks \in Nat \ {0}
  /\ num_ <= kNumTuplesPerBlock * NumBlocks /\ kNumTuplesPerBlock * (NumBlocks - 1) < num_
<1>1. num_ \in 1 .. SizeRange - 1 /\ SizeRange \in Nat
  BY IteratorAssumption, SizeRangeAssumption
<1> QED BY <1>1, Sizes, CeilCovers DEF NumBlocks

(* Every block but the last is full, and the last one has the rest.        *)
LEMMA BlockSizes ==
  ASSUME NEW b \in 0 .. NumBlocks - 1
  PROVE  /\ BlockNum(b) \in 1 .. kNumTuplesPerBlock
         /\ b * kNumTuplesPerBlock \in 0 .. num_ - 1
         /\ IF b + 1 < NumBlocks THEN BlockNum(b) = kNumTuplesPerBlock
            ELSE b * kNumTuplesPerBlock + BlockNum(b) = num_
         /\ b * kNumTuplesPerBlock + BlockNum(b) <= num_
<1> DEFINE N == kNumTuplesPerBlock
           M == NumBlocks
<1>1. /\ num_ \in Nat \ {0} /\ N \in Nat \ {0} /\ M \in Nat \ {0}
      /\ num_ <= N * M /\ N * (M - 1) < num_
  BY Blocks
<1>2. BlockNum(b) = IF num_ - b * N < N THEN num_ - b * N ELSE N
  BY DEF BlockNum
<1>3. b \in 0 .. M - 1
  OBVIOUS
<1> HIDE DEF N, M
<1>4. b \in Nat /\ b * N \in Nat /\ b * N <= N * (M - 1)
  BY <1>1, <1>3
<1>5. CASE b + 1 < M
  <2>1. N * (b + 1) <= N * (M - 1) /\ N * (b + 1) = b * N + N
    BY <1>1, <1>3, <1>5
  <2> QED BY <1>1, <1>2, <1>4, <1>5, <2>1 DEF N, M
<1>6. CASE ~(b + 1 < M)
  <2>1. b = M - 1
    BY <1>1, <1>3, <1>6
  <2>2. N * M = b * N + N
    BY <1>1, <2>1
  <2> QED BY <1>1, <1>2, <1>4, <1>6, <2>2 DEF N, M
<1> QED BY <1>5, <1>6

(* A full block's words hold it exactly, another's no more than a full     *)
(* one's.                                                                  *)
LEMMA BlockWords ==
  ASSUME NEW b \in 0 .. NumBlocks - 1
  PROVE  /\ NumWordUnits(BlockNum(b)) \in 1 .. NumWordUnits(kNumTuplesPerBlock)
         /\ BlockNum(b) <= NumWordUnits(BlockNum(b)) * kNumWordBits
         /\ NumWordUnits(BlockNum(b)) * kNumWordBits <= kNumTuplesPerBlock
         /\ NumWordUnits(kNumTuplesPerBlock) * kNumWordBits = kNumTuplesPerBlock
<1> DEFINE N == kNumTuplesPerBlock
           W == kNumWordBits
           u == NumWordUnits(BlockNum(b))
           v == NumWordUnits(N)
<1>1. N \in Nat \ {0} /\ W \in Nat \ {0} /\ BlockNum(b) \in 1 .. N /\ N \in 1 .. N
  BY Sizes, BlockSizes
<1>2. u \in Nat \ {0} /\ BlockNum(b) <= u * W /\ u * W <= N
  BY <1>1, UnitsCover
<1>3. v \in Nat \ {0} /\ N <= v * W /\ v * W <= N
  BY <1>1, UnitsCover
<1> HIDE DEF u, v, N, W
<1>4. v * W = N /\ u * W <= v * W
  BY <1>1, <1>2, <1>3
<1>5. u <= v
  BY <1>1, <1>2, <1>3, <1>4
<1> QED BY <1>2, <1>3, <1>4, <1>5 DEF u, v, N, W

(* The word w of block b holds the bits of the tuples from its first one   *)
(* on, those that there are.                                               *)
LEMMA WordTuples ==
  ASSUME NEW b \in 0 .. NumBlocks - 1, NEW w \in 0 .. NumWordUnits(BlockNum(b)) - 1,
         bits \subseteq Tuple
  PROVE  LET word == GetWordUnit(BlockBits(b), w)
             from == b * kNumTuplesPerBlock + w * kNumWordBits
         IN  /\ word \in SUBSET WordBit /\ from \in Nat
             /\ \A c \in word : from + c \in bits
             /\ \A t \in Tuple : from <= t /\ t < from + kNumWordBits =>
                  (t \in bits <=> t - from \in word)
             /\ \A c \in WordBit : Word(from + c) = <<b, w>>
<1> DEFINE N == kNumTuplesPerBlock
           W == kNumWordBits
           u == NumWordUnits(BlockNum(b))
           word == GetWordUnit(BlockBits(b), w)
           base == b * N
           from == base + w * W
<1>1. /\ N \in Nat \ {0} /\ W \in Nat \ {0} /\ num_ \in Nat /\ NumBlocks \in Nat
      /\ b \in Nat /\ base \in Nat /\ WordBit = 0 .. W - 1 /\ Tuple = 0 .. num_ - 1
  BY Blocks, BlockSizes DEF WordBit, Tuple
<1>2. /\ u \in Nat \ {0} /\ u * W <= N /\ BlockNum(b) \in 1 .. N
      /\ IF b + 1 < NumBlocks THEN BlockNum(b) = N ELSE base + BlockNum(b) = num_
      /\ base + BlockNum(b) <= num_
      /\ w \in Nat /\ w < u
  BY BlockSizes, BlockWords
<1> HIDE DEF N, W, u
<1>3. w * W \in Nat /\ w * W + W <= N
  <2>1. (w + 1) * W <= u * W /\ (w + 1) * W = w * W + W /\ w * W \in Nat
    BY <1>1, <1>2
  <2> QED BY <1>1, <1>2, <2>1
<1>4. /\ BlockBits(b) = {p \in 0 .. BlockNum(b) - 1 : base + p \in bits}
      /\ word = {c \in 0 .. W - 1 : w * W + c \in BlockBits(b)}
  BY <1>1 DEF BlockBits, GetWordUnit, N, W
<1> HIDE DEF word, base
<1>5. from \in Nat
  BY <1>1, <1>3
<1>6. ASSUME NEW c \in word
      PROVE  from + c \in bits
  <2>1. c \in Int /\ base + (w * W + c) \in bits
    BY <1>1, <1>4
  <2>2. base + (w * W + c) = from + c
    BY <1>1, <1>3, <2>1
  <2> QED BY <2>1, <2>2
<1>7. ASSUME NEW t \in Tuple, from <= t, t < from + W
      PROVE  t \in bits <=> t - from \in word
  <2>1. t - from \in 0 .. W - 1 /\ w * W + (t - from) = t - base /\ base + (t - base) = t
    BY <1>1, <1>3, <1>7
  <2>2. t - base \in 0 .. BlockNum(b) - 1
    BY <1>1, <1>2, <1>3, <1>7
  <2> QED BY <1>4, <2>1, <2>2
<1>8. ASSUME NEW c \in 0 .. W - 1
      PROVE  Word(from + c) = <<b, w>>
  <2> DEFINE p == w * W + c
  <2>1. p \in 0 .. N - 1 /\ from + c = N * b + p
    BY <1>1, <1>3 DEF base
  <2> HIDE DEF p
  <2>2. (from + c) \div N = b /\ (from + c) % N = p
    BY <1>1, <2>1, QuotientUnique
  <2>3. p = W * w + c
    BY <1>1, <1>2 DEF p
  <2>4. p \div W = w
    BY <1>1, <1>2, <2>3, QuotientUnique
  <2> QED BY <2>2, <2>4 DEF Word, N, W
<1> QED BY <1>1, <1>4, <1>5, <1>6, <1>7, <1>8 DEF word, base, N, W

-----------------------------------------------------------------------------
(* The inductive invariant.                                                *)

(* The tuples below it have been read; all of them once Next has returned  *)
(* false.                                                                  *)
Cursor ==
  IF next THEN cur_block_id_ * kNumTuplesPerBlock + cur_word_id_ * kNumWordBits ELSE num_

(* How many positions of the stack have still to be given.                 *)
Waiting == IF pc = "out" /\ next THEN stack_top_ - 1 ELSE stack_top_

(* The cursor is at a word of a block, or just past the words of a block;  *)
(* it moves only when nothing waits.                                       *)
PlaceOK ==
  /\ next => /\ cur_block_id_ < NumBlocks
             /\ block_offset_ = cur_block_id_ * kNumTuplesPerBlock
             /\ cur_word_id_ <= NumWordUnits(BlockNum(cur_block_id_))
  /\ ~next => pc = "out" /\ stack_top_ = 0
  /\ pc = "word" => cur_word_id_ < NumWordUnits(BlockNum(cur_block_id_))
  /\ pc \in {"cursor", "word"} => stack_top_ = 0
  /\ pc = "got" \/ (pc = "out" /\ next) => stack_top_ >= 1

(* The stack descends, within one word that has been read; the position    *)
(* given last is the one above those that wait, and the first one of a     *)
(* word is given as soon as the word is read.                              *)
StackOK ==
  /\ Waiting <= Len(stack_)
  /\ \A i, j \in 1 .. Len(stack_) : i < j => stack_[i] > stack_[j]
  /\ \A i, j \in 1 .. Len(stack_) : Word(stack_[i]) = Word(stack_[j])
  /\ \A i \in 1 .. Len(stack_) : stack_[i] < Cursor
  /\ pc = "out" /\ next =>
       IF seen = <<>> THEN stack_top_ = 1
       ELSE stack_top_ <= Len(stack_) /\ Last(seen) = stack_[stack_top_]
  /\ pc = "got" =>
       IF stack_top_ < Len(stack_)
       THEN seen # <<>> /\ Last(seen) = stack_[stack_top_ + 1]
       ELSE stack_[stack_top_] \in bits

(* What has been given ascends, and lies below the cursor and below        *)
(* whatever waits.                                                         *)
SeenOK ==
  /\ \A i, j \in 1 .. Len(seen) : i < j => seen[i] < seen[j]
  /\ \A i \in 1 .. Len(seen) : seen[i] < Cursor /\ \A j \in 1 .. Waiting : seen[i] < stack_[j]

(* Every tuple that has been read and not been touched is accounted for:   *)
(* its bit is set if, and only if, it has been given or waits.             *)
Given(t) == \E i \in 1 .. Len(seen) : seen[i] = t
Waits(t) == \E j \in 1 .. Waiting : stack_[j] = t
AccountOK ==
  \A t \in Tuple \ changed : t < Cursor => (t \in bits <=> Given(t) \/ Waits(t))

IterInv == TypeOK /\ PlaceOK /\ StackOK /\ SeenOK /\ AccountOK

LEMMA Stacks ==
  ASSUME TypeOK
  PROVE  /\ Len(stack_) \in Nat /\ Len(seen) \in Nat /\ stack_top_ \in Nat
         /\ cur_block_id_ \in Nat /\ cur_word_id_ \in Nat
         /\ \A i \in 1 .. Len(stack_) : stack_[i] \in Tuple /\ stack_[i] \in 0 .. num_ - 1
         /\ \A i \in 1 .. Len(seen) : seen[i] \in Tuple /\ seen[i] \in 0 .. num_ - 1
         /\ seen # <<>> => Len(seen) \in 1 .. Len(seen)
<1>1. /\ stack_ \in Seq(Tuple) /\ seen \in Seq(Tuple)
      /\ stack_top_ \in 0 .. kNumWordBits /\ cur_block_id_ \in 0 .. NumBlocks
      /\ cur_word_id_ \in 0 .. NumWordUnits(kNumTuplesPerBlock)
  BY DEF TypeOK
<1>2. Len(stack_) \in Nat /\ Len(seen) \in Nat /\ (seen # <<>> => Len(seen) > 0)
  BY <1>1, EmptySeq, LenProperties
<1>3. /\ \A i \in 1 .. Len(stack_) : stack_[i] \in Tuple
      /\ \A i \in 1 .. Len(seen) : seen[i] \in Tuple
  BY <1>1, ElementOfSeq
<1>4. stack_top_ \in Nat /\ cur_block_id_ \in Nat /\ cur_word_id_ \in Nat
  BY <1>1
<1>5. seen # <<>> => Len(seen) \in 1 .. Len(seen)
  BY <1>2
<1> QED BY <1>2, <1>3, <1>4, <1>5 DEF Tuple

LEMMA InitIter ==
  ASSUME Init
  PROVE  IterInv
<1>1. /\ bits \in Vectors /\ changed = {} /\ stack_ = <<>> /\ stack_top_ = 1
      /\ cur_block_id_ = 0 /\ cur_word_id_ = 0 /\ block_offset_ = 0
      /\ pc = "out" /\ next = TRUE /\ seen = <<>>
  BY DEF Init
<1>2. /\ num_ \in Nat \ {0} /\ kNumTuplesPerBlock \in Nat \ {0} /\ kNumWordBits \in Nat \ {0}
      /\ NumBlocks \in Nat \ {0}
  BY Blocks
<1>3. 0 \in 0 .. NumBlocks - 1
  BY <1>2
<1>4. NumWordUnits(BlockNum(0)) \in 1 .. NumWordUnits(kNumTuplesPerBlock)
  BY <1>3, BlockWords
<1>5. NumWordUnits(kNumTuplesPerBlock) \in Nat /\ NumWordUnits(BlockNum(0)) \in Nat
  BY <1>2, <1>4, UnitsCover
<1>6. /\ stack_ \in Seq(Tuple) /\ seen \in Seq(Tuple) /\ Len(stack_) = 0 /\ Len(seen) = 0
  BY <1>1, EmptySeq
<1>7. bits \subseteq Tuple
  BY <1>1, IteratorAssumption
<1>8. /\ stack_top_ \in 0 .. kNumWordBits /\ cur_block_id_ \in 0 .. NumBlocks
      /\ block_offset_ \in 0 .. num_ /\ cur_word_id_ \in 0 .. NumWordUnits(kNumTuplesPerBlock)
  BY <1>1, <1>2, <1>5
<1>9. TypeOK
  BY <1>1, <1>6, <1>7, <1>8 DEF TypeOK
<1>10. Waiting = 0 /\ Cursor = 0
  BY <1>1, <1>2 DEF Waiting, Cursor
<1>11. PlaceOK
  BY <1>1, <1>2, <1>5 DEF PlaceOK
<1>12. StackOK
  BY <1>1, <1>6, <1>10 DEF StackOK
<1>13. SeenOK
  BY <1>6 DEF SeenOK
<1>14. AccountOK
  <2>1. \A t \in Tuple : ~(t < Cursor)
    BY <1>2, <1>10 DEF Tuple
  <2> QED BY <2>1 DEF AccountOK
<1> QED BY <1>9, <1>11, <1>12, <1>13, <1>14 DEF IterInv

(* Next pops a position.                                                   *)
LEMMA PopIter ==
  ASSUME StopAtEnd, IterInv, Next_Pop
  PROVE  IterInv'
<1>1. /\ pc = "out" /\ next
      /\ stack_top_' = (stack_top_ - 1) % SizeRange
      /\ pc' = IF stack_top_' = 0 THEN "cursor" ELSE "got"
      /\ UNCHANGED <<bits, changed, stack_, cur_block_id_, cur_word_id_, block_offset_, next, seen>>
  BY DEF Next_Pop, cursors
<1>2. stack_top_ \in 1 .. kNumWordBits /\ kNumWordBits \in Nat /\ kNumWordBits < SizeRange
  <2>1. stack_top_ \in 0 .. kNumWordBits /\ stack_top_ >= 1
    BY <1>1 DEF IterInv, TypeOK, PlaceOK
  <2> QED BY <2>1, Blocks, IteratorAssumption
<1>3. stack_top_' = stack_top_ - 1 /\ stack_top_' \in 0 .. kNumWordBits
  <2>1. stack_top_ - 1 \in 0 .. SizeRange - 1 /\ SizeRange \in Nat
    BY <1>2, SizeRangeAssumption
  <2>2. (stack_top_ - 1) % SizeRange = stack_top_ - 1
    BY <2>1
  <2> QED BY <1>1, <1>2, <2>2
<1>4. TypeOK'
  BY <1>1, <1>3 DEF IterInv, TypeOK
<1>5. Cursor' = Cursor /\ Waiting' = Waiting
  BY <1>1, <1>3 DEF Cursor, Waiting
<1>6. PlaceOK'
  BY <1>1, <1>2, <1>3 DEF IterInv, PlaceOK
<1>7. StackOK'
  <2>1. pc' = "got" => stack_top_' < Len(stack_) /\ seen # <<>> /\ Last(seen) = stack_[stack_top_' + 1]
    <3>1. ASSUME pc' = "got"
          PROVE  stack_top_ # 1
      BY <1>1, <1>3, <3>1
    <3>2. ASSUME pc' = "got"
          PROVE  /\ seen # <<>> /\ stack_top_ <= Len(stack_)
                 /\ Last(seen) = stack_[stack_top_]
      BY <1>1, <3>1, <3>2 DEF IterInv, StackOK
    <3>3. stack_top_' + 1 = stack_top_ /\ Len(stack_) \in Nat
      BY <1>2, <1>3, Stacks DEF IterInv
    <3> QED BY <1>2, <1>3, <3>2, <3>3
  <2>2. pc' # "out"
    BY <1>1
  <2> QED BY <1>1, <1>5, <2>1, <2>2 DEF IterInv, StackOK, Word
<1>8. SeenOK' /\ AccountOK'
  BY <1>1, <1>5 DEF IterInv, SeenOK, AccountOK, Given, Waits
<1> QED BY <1>4, <1>6, <1>7, <1>8 DEF IterInv

(* The cursor passes to the next block, or past the last one.              *)
LEMMA BlockIter ==
  ASSUME IterInv, Next_Block
  PROVE  IterInv'
<1> DEFINE b == cur_block_id_
           N == kNumTuplesPerBlock
           W == kNumWordBits
           u == NumWordUnits(BlockNum(b))
<1>1. /\ pc = "cursor" /\ cur_word_id_ >= u
      /\ cur_word_id_' = 0 /\ cur_block_id_' = b + 1
      /\ block_offset_' = block_offset_ + BlockNum(b)
      /\ UNCHANGED <<bits, changed, stack_, stack_top_, seen>>
      /\ IF cur_block_id_' >= NumBlocks THEN pc' = "out" /\ next' = FALSE
         ELSE pc' = "word" /\ UNCHANGED next
  BY DEF Next_Block, BlockOver, NextOffset
<1>2. /\ next /\ stack_top_ = 0 /\ b < NumBlocks /\ block_offset_ = b * N
      /\ cur_word_id_ <= u
  BY <1>1 DEF IterInv, PlaceOK, TypeOK
<1>3. /\ num_ \in Nat \ {0} /\ N \in Nat \ {0} /\ W \in Nat \ {0} /\ NumBlocks \in Nat \ {0}
      /\ b \in Nat /\ cur_word_id_ \in Nat
  BY Blocks, Stacks DEF IterInv
<1>4. b \in 0 .. NumBlocks - 1
  BY <1>2, <1>3
<1>5. /\ BlockNum(b) \in 1 .. N /\ b * N \in 0 .. num_ - 1
      /\ IF b + 1 < NumBlocks THEN BlockNum(b) = N ELSE b * N + BlockNum(b) = num_
      /\ b * N + BlockNum(b) <= num_
  BY <1>4, BlockSizes
<1>6. /\ u \in 1 .. NumWordUnits(N) /\ BlockNum(b) <= u * W /\ NumWordUnits(N) * W = N
      /\ NumWordUnits(N) \in Nat
  <2>1. NumWordUnits(N) \in Nat
    <3>1. N \in 1 .. N
      BY <1>3
    <3> QED BY <3>1, UnitsCover
  <2> QED BY <1>4, <2>1, BlockWords
<1>7. cur_word_id_ = u
  BY <1>1, <1>2, <1>3, <1>6
<1> DEFINE v == NumWordUnits(N)
<1> HIDE DEF b, N, W, u, v
<1>8. cur_word_id_' \in 0 .. v /\ cur_block_id_' \in 0 .. NumBlocks /\ block_offset_' \in 0 .. num_
  BY <1>1, <1>2, <1>3, <1>4, <1>5, <1>6 DEF v
<1>9. TypeOK'
  <2>1. pc' \in {"out", "word"} /\ next' \in BOOLEAN
    BY <1>1, <1>2
  <2> QED BY <1>1, <1>8, <2>1 DEF IterInv, TypeOK, v, N
<1>10. Waiting' = Waiting /\ Waiting = 0
  BY <1>1, <1>2 DEF Waiting
<1>11. Cursor = b * N + u * W
  BY <1>2, <1>7 DEF Cursor, b, N, W
<1>12. CASE b + 1 >= NumBlocks
  <2>1. pc' = "out" /\ next' = FALSE /\ Cursor' = num_
    BY <1>1, <1>12 DEF Cursor
  <2>2. num_ <= Cursor
    <3>1. u * W \in Nat
      BY <1>3, <1>6
    <3> QED BY <1>3, <1>5, <1>6, <1>11, <1>12, <3>1
  <2>3. Cursor \in Nat
    BY <1>3, <1>5, <1>6, <1>11
  <2>4. /\ \A i \in 1 .. Len(stack_) : stack_[i] \in 0 .. num_ - 1
        /\ \A i \in 1 .. Len(seen) : seen[i] \in 0 .. num_ - 1
        /\ Len(stack_) \in Nat
    BY Stacks DEF IterInv
  <2>5. PlaceOK'
    BY <1>1, <1>2, <2>1 DEF PlaceOK
  <2>6. StackOK'
    <3>1. \A i \in 1 .. Len(stack_) : stack_[i] < num_
      BY <1>3, <2>4
    <3>2. Waiting' <= Len(stack_)
      BY <1>10, <2>4
    <3> QED BY <1>1, <2>1, <3>1, <3>2 DEF IterInv, StackOK, Word
  <2>7. SeenOK'
    <3>1. \A i \in 1 .. Len(seen) : seen[i] < num_
      BY <1>3, <2>4
    <3> QED BY <1>1, <1>10, <2>1, <3>1 DEF IterInv, SeenOK
  <2>8. AccountOK'
    <3>1. \A t \in Tuple : t < Cursor
      BY <1>3, <2>2, <2>3 DEF Tuple
    <3> QED BY <1>1, <1>10, <3>1 DEF IterInv, AccountOK, Given, Waits
  <2> QED BY <1>9, <2>5, <2>6, <2>7, <2>8 DEF IterInv
<1>13. CASE ~(b + 1 >= NumBlocks)
  <2>1. pc' = "word" /\ next' = next /\ cur_block_id_' = b + 1 /\ cur_word_id_' = 0
    BY <1>1, <1>13
  <2>2. b + 1 < NumBlocks /\ b + 1 \in 0 .. NumBlocks - 1 /\ BlockNum(b) = N
    BY <1>3, <1>5, <1>13
  <2>3. u = v /\ v * W = N
    <3>1. u = NumWordUnits(N)
      BY <2>2 DEF u
    <3> QED BY <1>6, <3>1 DEF v
  <2>4. (b + 1) * N = b * N + N /\ block_offset_' = (b + 1) * N
    <3>1. (b + 1) * N = b * N + N
      BY <1>3
    <3> QED BY <1>1, <1>2, <2>2, <3>1
  <2>5. Cursor' = Cursor
    <3>1. Cursor' = (b + 1) * N + 0 * W
      BY <1>2, <2>1 DEF Cursor, N, W
    <3>2. (b + 1) * N + 0 * W = b * N + N
      BY <1>3, <2>4
    <3> QED BY <1>11, <2>3, <3>1, <3>2
  <2>6. NumWordUnits(BlockNum(b + 1)) \in Nat \ {0}
    <3>1. BlockNum(b + 1) \in 1 .. kNumTuplesPerBlock
      BY <2>2, BlockSizes
    <3> QED BY <3>1, UnitsCover
  <2>7. PlaceOK'
    BY <1>1, <1>2, <2>1, <2>2, <2>4, <2>6 DEF PlaceOK, N
  <2>8. StackOK'
    BY <1>1, <1>10, <2>1, <2>5 DEF IterInv, StackOK, Word
  <2>9. SeenOK' /\ AccountOK'
    BY <1>1, <1>10, <2>5 DEF IterInv, SeenOK, AccountOK, Given, Waits
  <2> QED BY <1>9, <2>7, <2>8, <2>9 DEF IterInv
<1> QED BY <1>12, <1>13

LEMMA SameBlockIter ==
  ASSUME IterInv, Next_SameBlock
  PROVE  IterInv'
<1>1. /\ pc = "cursor" /\ pc' = "word" /\ ~(cur_word_id_ >= NumWordUnits(BlockNum(cur_block_id_)))
      /\ UNCHANGED <<bits, changed, stack_, stack_top_, cur_block_id_, cur_word_id_,
                     block_offset_, next, seen>>
  BY DEF Next_SameBlock, BlockOver, cursors
<1>2. next /\ cur_word_id_ <= NumWordUnits(BlockNum(cur_block_id_)) /\ cur_word_id_ \in Nat
      /\ cur_block_id_ \in 0 .. NumBlocks - 1
  BY <1>1, Stacks, Blocks DEF IterInv, PlaceOK, TypeOK
<1>3. NumWordUnits(BlockNum(cur_block_id_)) \in Nat
  <2>1. BlockNum(cur_block_id_) \in 1 .. kNumTuplesPerBlock
    BY <1>2, BlockSizes
  <2> QED BY <2>1, UnitsCover
<1>4. cur_word_id_ < NumWordUnits(BlockNum(cur_block_id_))
  BY <1>1, <1>2, <1>3
<1>5. Cursor' = Cursor /\ Waiting' = Waiting
  BY <1>1 DEF Cursor, Waiting
<1>6. TypeOK'
  BY <1>1 DEF IterInv, TypeOK
<1>7. PlaceOK'
  <2>1. BlockNum(cur_block_id_)' = BlockNum(cur_block_id_)
    BY <1>1 DEF BlockNum
  <2> QED BY <1>1, <1>4, <2>1 DEF IterInv, PlaceOK, NumBlocks
<1>8. StackOK'
  BY <1>1, <1>5 DEF IterInv, StackOK, Word
<1>9. SeenOK' /\ AccountOK'
  BY <1>1, <1>5 DEF IterInv, SeenOK, AccountOK, Given, Waits
<1> QED BY <1>6, <1>7, <1>8, <1>9 DEF IterInv

(* The caller is given the position on top.                                *)
LEMMA TrueIter ==
  ASSUME IterInv, Next_True
  PROVE  IterInv'
<1>1. /\ pc = "got" /\ next' = TRUE /\ pc' = "out"
      /\ UNCHANGED <<bits, changed, stack_, stack_top_, cur_block_id_, cur_word_id_, block_offset_>>
  BY DEF Next_True, cursors
<1>2. next /\ stack_top_ >= 1 /\ stack_top_ <= Len(stack_)
  BY <1>1 DEF IterInv, PlaceOK, StackOK, TypeOK, Waiting
<1>3. /\ Len(stack_) \in Nat /\ Len(seen) \in Nat /\ stack_top_ \in Nat
      /\ \A i \in 1 .. Len(stack_) : stack_[i] \in Tuple /\ stack_[i] \in 0 .. num_ - 1
      /\ \A i \in 1 .. Len(seen) : seen[i] \in Tuple /\ seen[i] \in 0 .. num_ - 1
      /\ stack_ \in Seq(Tuple) /\ seen \in Seq(Tuple)
  BY Stacks DEF IterInv, TypeOK
<1> DEFINE pos == stack_[stack_top_]
<1>4. stack_top_ \in 1 .. Len(stack_)
  BY <1>2, <1>3
<1>5. seen' = Append(seen, pos)
  <2>1. stack_top_ \in DOMAIN stack_
    BY <1>3, <1>4, LenProperties
  <2> QED BY <2>1 DEF Next_True, GetPosition
<1>6. /\ seen' \in Seq(Tuple) /\ Len(seen') = Len(seen) + 1
      /\ \A i \in 1 .. Len(seen) : seen'[i] = seen[i]
      /\ seen'[Len(seen) + 1] = pos
  <2>1. pos \in Tuple
    BY <1>3, <1>4
  <2> HIDE DEF pos
  <2> QED BY <1>3, <1>5, <2>1, AppendProperties
<1>7. seen' # <<>> /\ Last(seen') = pos
  <2>1. Len(seen') # 0
    BY <1>3, <1>6
  <2> QED BY <1>3, <1>6, <2>1, EmptySeq DEF Last
<1>8. Cursor' = Cursor
  BY <1>1, <1>2 DEF Cursor
<1>9. Waiting = stack_top_ /\ Waiting' = stack_top_ - 1
  BY <1>1 DEF Waiting
<1>10. TypeOK'
  BY <1>1, <1>6 DEF IterInv, TypeOK
<1>11. PlaceOK'
  <2>1. BlockNum(cur_block_id_)' = BlockNum(cur_block_id_)
    BY <1>1 DEF BlockNum
  <2> QED BY <1>1, <1>2, <2>1 DEF IterInv, PlaceOK, NumBlocks
<1>12. StackOK'
  <2>1. Waiting' <= Len(stack_)
    BY <1>2, <1>3, <1>9
  <2> QED BY <1>1, <1>2, <1>7, <1>8, <2>1 DEF IterInv, StackOK, Word
<1>13. \A i \in 1 .. Len(seen') : i \in 1 .. Len(seen) \/ i = Len(seen) + 1
  BY <1>3, <1>6
<1>14. \A j \in 1 .. Waiting' : j \in 1 .. Len(stack_) /\ j < stack_top_ /\ j \in 1 .. Waiting
  BY <1>2, <1>3, <1>9
<1>15. \A i \in 1 .. Len(seen) : seen[i] < pos
  BY <1>4, <1>9 DEF IterInv, SeenOK
<1>16. SeenOK'
  <2>1. ASSUME NEW i \in 1 .. Len(seen'), NEW j \in 1 .. Len(seen'), i < j
        PROVE  seen'[i] < seen'[j]
    <3>1. i \in 1 .. Len(seen)
      BY <1>3, <1>6, <2>1
    <3>2. CASE j \in 1 .. Len(seen)
      BY <1>6, <2>1, <3>1, <3>2 DEF IterInv, SeenOK
    <3>3. CASE j = Len(seen) + 1
      BY <1>6, <1>15, <3>1, <3>3
    <3> QED BY <1>13, <3>2, <3>3
  <2>2. ASSUME NEW i \in 1 .. Len(seen')
        PROVE  seen'[i] < Cursor /\ \A j \in 1 .. Waiting' : seen'[i] < stack_[j]
    <3>1. CASE i \in 1 .. Len(seen)
      BY <1>6, <1>14, <3>1 DEF IterInv, SeenOK
    <3>2. CASE i = Len(seen) + 1
      <4>1. pos < Cursor
        BY <1>4 DEF IterInv, StackOK
      <4>2. \A j \in 1 .. Waiting' : stack_[j] > pos
        BY <1>4, <1>14 DEF IterInv, StackOK
      <4>3. \A j \in 1 .. Waiting' : pos < stack_[j]
        BY <1>3, <1>4, <1>14, <4>2
      <4> QED BY <1>6, <3>2, <4>1, <4>3
    <3> QED BY <1>13, <3>1, <3>2
  <2> QED BY <1>1, <1>8, <2>1, <2>2 DEF SeenOK
<1>17. AccountOK'
  <2>1. ASSUME NEW t \in Tuple \ changed
        PROVE  (Given(t) \/ Waits(t))' <=> Given(t) \/ Waits(t)
    <3>1. Given(t)' <=> Given(t) \/ t = pos
      <4>1. Len(seen) + 1 \in 1 .. Len(seen') /\ \A i \in 1 .. Len(seen) : i \in 1 .. Len(seen')
        BY <1>3, <1>6
      <4> QED BY <1>6, <1>13, <4>1 DEF Given
    <3>2. Waits(t) <=> (\E j \in 1 .. Waiting' : stack_[j] = t) \/ t = pos
      <4>1. \A j \in 1 .. Waiting : j \in 1 .. Waiting' \/ j = stack_top_
        BY <1>3, <1>9
      <4> QED BY <1>3, <1>4, <1>9, <1>14, <4>1 DEF Waits
    <3>3. Waits(t)' <=> \E j \in 1 .. Waiting' : stack_[j] = t
      BY <1>1 DEF Waits
    <3> QED BY <3>1, <3>2, <3>3
  <2> QED BY <1>1, <1>8, <2>1 DEF IterInv, AccountOK
<1> QED BY <1>10, <1>11, <1>12, <1>16, <1>17 DEF IterInv

LEMMA SeqWiden ==
  ASSUME NEW S, NEW T, S \subseteq T, NEW s \in Seq(S)
  PROVE  s \in Seq(T)
<1>1. Len(s) \in Nat /\ s = SubSeq(s, 1, Len(s)) /\ \A i \in 1 .. Len(s) : s[i] \in T
  BY LenProperties, ElementOfSeq, SubSeqFull
<1>2. 1 \in Int /\ Len(s) \in Int
  BY <1>1
<1>3. SubSeq(s, 1, Len(s)) \in Seq(T)
  BY <1>1, <1>2, SubSeqProperties
<1> QED BY <1>1, <1>3

(* A word is read, and its positions pushed.                               *)
LEMMA WordIter ==
  ASSUME IterInv, Next_Word
  PROVE  IterInv'
<1> DEFINE b == cur_block_id_
           w == cur_word_id_
           N == kNumTuplesPerBlock
           W == kNumWordBits
           u == NumWordUnits(BlockNum(b))
           v == NumWordUnits(N)
           from == b * N + w * W
           word == GetWordUnit(BlockBits(b), w)
<1>1. /\ pc = "word" /\ cur_word_id_' = w + 1
      /\ UNCHANGED <<cur_block_id_, block_offset_, bits, changed, next, seen>>
      /\ word = {} => pc' = "cursor" /\ UNCHANGED <<stack_, stack_top_>>
      /\ word # {} => /\ stack_' = Pushed(word, WordOffset')
                      /\ stack_top_' = Len(stack_') /\ pc' = "got"
  BY DEF Next_Word, NextWord
<1>2. /\ next /\ stack_top_ = 0 /\ b < NumBlocks /\ block_offset_ = b * N /\ w < u
      /\ bits \subseteq Tuple /\ w \in Nat /\ b \in Nat
  BY <1>1, Stacks DEF IterInv, PlaceOK, TypeOK
<1>3. /\ num_ \in Nat \ {0} /\ N \in Nat \ {0} /\ W \in Nat \ {0} /\ NumBlocks \in Nat \ {0}
  BY Blocks
<1>4. b \in 0 .. NumBlocks - 1
  BY <1>2, <1>3
<1>5. u \in 1 .. v /\ u \in Nat /\ v \in Nat
  <2>1. BlockNum(b) \in 1 .. N /\ N \in 1 .. N
    BY <1>3, <1>4, BlockSizes
  <2>2. u \in Nat /\ v \in Nat
    BY <2>1, UnitsCover
  <2> QED BY <1>4, <2>2, BlockWords
<1>6. w \in 0 .. u - 1
  BY <1>2, <1>5
<1>7. /\ word \in SUBSET WordBit /\ from \in Nat
      /\ \A c \in word : from + c \in bits
      /\ \A t \in Tuple : from <= t /\ t < from + W => (t \in bits <=> t - from \in word)
      /\ \A c \in WordBit : Word(from + c) = <<b, w>>
  BY <1>2, <1>4, <1>6, WordTuples
<1>8. w * W \in Nat /\ (w + 1) * W = w * W + W /\ b * N \in Nat
  BY <1>2, <1>3
<1>9. /\ Cursor = from /\ Cursor' = from + W
      /\ WordOffset' = from
  <2>1. Cursor = from
    BY <1>2 DEF Cursor
  <2>2. Cursor' = b * N + (w + 1) * W
    BY <1>1, <1>2 DEF Cursor
  <2>3. WordOffset' = b * N + (w + 1 - 1) * W
    BY <1>1, <1>2 DEF WordOffset
  <2>4. w + 1 - 1 = w
    BY <1>2
  <2>5. Cursor' = from + W
    <3> HIDE DEF b, w, N, W
    <3> QED BY <1>3, <1>8, <2>2
  <2> QED BY <2>1, <2>3, <2>4, <2>5
<1>10. Waiting = 0
  BY <1>1, <1>2 DEF Waiting
<1>11. /\ Len(stack_) \in Nat /\ Len(seen) \in Nat
       /\ \A i \in 1 .. Len(stack_) : stack_[i] \in Tuple /\ stack_[i] \in 0 .. num_ - 1
       /\ \A i \in 1 .. Len(seen) : seen[i] \in Tuple /\ seen[i] \in 0 .. num_ - 1
  BY Stacks DEF IterInv
<1>12. \A i \in 1 .. Len(seen) : seen[i] \in Nat /\ seen[i] < from
  BY <1>3, <1>9, <1>11 DEF IterInv, SeenOK
<1>13. NumWordUnits(BlockNum(cur_block_id_')) = u /\ w + 1 <= u /\ cur_word_id_' \in 0 .. v
  <2>1. BlockNum(cur_block_id_') = BlockNum(b)
    BY <1>1
  <2>2. w + 1 <= u /\ w + 1 \in 0 .. v
    BY <1>2, <1>5
  <2> QED BY <1>1, <2>1, <2>2
<1>14. WordBit = 0 .. W - 1 /\ Tuple = 0 .. num_ - 1
  BY DEF WordBit, Tuple
<1> HIDE DEF word, from, u, v, b, w, N, W
<1>15. ASSUME NEW t \in Tuple, ~(t < from), t < from + W
       PROVE  ~Given(t) /\ (t \in bits <=> t - from \in word)
  <2>1. from <= t
    BY <1>3, <1>7, <1>14, <1>15
  <2>2. ~Given(t)
    BY <1>7, <1>12, <1>14, <1>15 DEF Given
  <2> QED BY <1>7, <1>15, <2>1, <2>2
<1>16. CASE word = {}
  <2>1. pc' = "cursor" /\ UNCHANGED <<stack_, stack_top_>>
    BY <1>1, <1>16
  <2>2. Waiting' = 0
    BY <1>2, <2>1 DEF Waiting
  <2>3. TypeOK'
    BY <1>1, <1>13, <2>1 DEF IterInv, TypeOK, v, N
  <2>4. PlaceOK'
    BY <1>1, <1>2, <1>13, <2>1 DEF PlaceOK, b, w, N
  <2>5. StackOK'
    <3>1. \A i \in 1 .. Len(stack_) : stack_[i] < from + W
      <4>1. \A i \in 1 .. Len(stack_) : stack_[i] < from
        BY <1>9 DEF IterInv, StackOK
      <4> QED BY <1>3, <1>7, <1>11, <4>1
    <3> QED BY <1>1, <1>9, <1>11, <2>1, <2>2, <3>1 DEF IterInv, StackOK, Word
  <2>6. SeenOK'
    <3>1. \A i \in 1 .. Len(seen) : seen[i] < from + W
      BY <1>3, <1>7, <1>12
    <3> QED BY <1>1, <1>9, <2>2, <3>1 DEF IterInv, SeenOK
  <2>7. AccountOK'
    <3>1. ASSUME NEW t \in Tuple \ changed, t < from + W
          PROVE  t \in bits <=> Given(t)' \/ Waits(t)'
      <4>1. Given(t)' = Given(t) /\ Waits(t)' = FALSE /\ Waits(t) = FALSE
        BY <1>1, <1>10, <2>1, <2>2 DEF Given, Waits
      <4>2. CASE t < from
        BY <1>9, <4>1, <4>2 DEF IterInv, AccountOK
      <4>3. CASE ~(t < from)
        BY <1>15, <1>16, <3>1, <4>1, <4>3
      <4> QED BY <4>2, <4>3
    <3> QED BY <1>1, <1>9, <3>1 DEF AccountOK
  <2> QED BY <2>3, <2>4, <2>5, <2>6, <2>7 DEF IterInv
<1>17. CASE word # {}
  <2> DEFINE s == Pushed(word, from)
  <2>1. stack_' = s /\ stack_top_' = Len(s) /\ pc' = "got"
    BY <1>1, <1>9, <1>17 DEF W
  <2>2. /\ s \in Seq({from + c : c \in word}) /\ Len(s) \in 0 .. W
        /\ \A i, j \in 1 .. Len(s) : i < j => s[i] > s[j]
        /\ \A c \in word : \E i \in 1 .. Len(s) : s[i] = from + c
    BY <1>7, PushedPositions DEF W
  <2> HIDE DEF s
  <2>3. ASSUME NEW i \in 1 .. Len(s)
        PROVE  \E c \in word : s[i] = from + c
    BY <2>2, ElementOfSeq
  <2>4. ASSUME NEW i \in 1 .. Len(s)
        PROVE  /\ s[i] \in bits /\ s[i] \in Nat /\ s[i] < from + W /\ from <= s[i]
               /\ s[i] - from \in word /\ Word(s[i]) = <<b, w>>
    <3>1. PICK c \in word : s[i] = from + c
      BY <2>3
    <3>2. c \in 0 .. W - 1 /\ c \in WordBit /\ s[i] - from = c
      BY <1>3, <1>7, <1>14, <3>1
    <3> QED BY <1>3, <1>7, <3>1, <3>2
  <2>5. Len(s) \in Nat /\ Len(s) >= 1
    <3>1. PICK c \in word : TRUE
      BY <1>17
    <3>2. PICK i \in 1 .. Len(s) : s[i] = from + c
      BY <2>2
    <3> QED BY <1>3, <2>2, <3>2
  <2>6. Waiting' = Len(s)
    BY <2>1 DEF Waiting
  <2>7. TypeOK'
    <3>1. {from + c : c \in word} \subseteq Tuple
      BY <1>2, <1>7
    <3>2. stack_' \in Seq(Tuple)
      BY <2>1, <2>2, <3>1, SeqWiden
    <3>3. stack_top_' \in 0 .. kNumWordBits
      BY <2>1, <2>2 DEF W
    <3> QED BY <1>1, <1>13, <2>1, <3>2, <3>3 DEF IterInv, TypeOK, v, N
  <2>8. PlaceOK'
    BY <1>1, <1>2, <1>13, <2>1, <2>5 DEF PlaceOK, b, w, N
  <2>9. StackOK'
    <3>1. /\ Waiting' <= Len(stack_') /\ ~(stack_top_' < Len(stack_'))
          /\ stack_'[stack_top_'] \in bits'
      <4>1. Len(s) \in 1 .. Len(s)
        BY <2>5
      <4> QED BY <1>1, <2>1, <2>4, <2>5, <2>6, <4>1
    <3>2. \A i, j \in 1 .. Len(stack_') : i < j => stack_'[i] > stack_'[j]
      BY <2>1, <2>2
    <3>3. \A i, j \in 1 .. Len(stack_') : Word(stack_'[i]) = Word(stack_'[j])
      BY <2>1, <2>4
    <3>4. \A i \in 1 .. Len(stack_') : stack_'[i] < Cursor'
      BY <1>9, <2>1, <2>4
    <3> QED BY <2>1, <3>1, <3>2, <3>3, <3>4 DEF StackOK, Word
  <2>10. SeenOK'
    <3>1. ASSUME NEW i \in 1 .. Len(seen)
          PROVE  seen[i] < from + W /\ \A j \in 1 .. Len(s) : seen[i] < s[j]
      BY <1>3, <1>7, <1>12, <2>4
    <3> QED BY <1>1, <1>9, <2>1, <2>6, <3>1 DEF IterInv, SeenOK
  <2>11. AccountOK'
    <3>1. ASSUME NEW t \in Tuple \ changed, t < from + W
          PROVE  t \in bits <=> Given(t)' \/ Waits(t)'
      <4>1. Given(t)' = Given(t) /\ Waits(t)' = (\E j \in 1 .. Len(s) : s[j] = t)
        BY <1>1, <2>1, <2>6 DEF Given, Waits
      <4>2. Waits(t) = FALSE
        BY <1>10 DEF Waits
      <4>3. CASE t < from
        <5>1. ~(\E j \in 1 .. Len(s) : s[j] = t)
          BY <1>7, <1>14, <2>4, <4>3
        <5> QED BY <1>9, <4>1, <4>2, <4>3, <5>1 DEF IterInv, AccountOK
      <4>4. CASE ~(t < from)
        <5>1. ~Given(t) /\ (t \in bits <=> t - from \in word)
          BY <1>15, <3>1, <4>4
        <5>2. t - from \in word => \E j \in 1 .. Len(s) : s[j] = t
          <6>1. from + (t - from) = t
            BY <1>7, <1>14
          <6> QED BY <2>2, <6>1
        <5>3. (\E j \in 1 .. Len(s) : s[j] = t) => t - from \in word
          BY <2>4
        <5> QED BY <4>1, <5>1, <5>2, <5>3
      <4> QED BY <4>3, <4>4
    <3> QED BY <1>1, <1>9, <3>1 DEF AccountOK
  <2> QED BY <2>7, <2>8, <2>9, <2>10, <2>11 DEF IterInv
<1> QED BY <1>16, <1>17

(* The caller changes a bit between two calls.                             *)
LEMMA ChangeIter ==
  ASSUME IterInv, NEW t \in Touched, SetOrUnsetBit(t)
  PROVE  IterInv'
<1>1. /\ pc = "out" /\ changed' = changed \cup {t}
      /\ bits' \in {bits \cup {t}, bits \ {t}}
      /\ UNCHANGED <<stack_, stack_top_, cur_block_id_, cur_word_id_, block_offset_, pc, next, seen>>
  BY DEF SetOrUnsetBit, cursors
<1>2. t \in Tuple /\ \A x \in Tuple \ changed' : x \in Tuple \ changed /\ (x \in bits' <=> x \in bits)
  BY <1>1, IteratorAssumption
<1>3. Cursor' = Cursor /\ Waiting' = Waiting
  BY <1>1 DEF Cursor, Waiting
<1>4. bits' \subseteq Tuple /\ changed' \subseteq Touched
  BY <1>1, <1>2 DEF IterInv, TypeOK
<1>5. TypeOK'
  BY <1>1, <1>4 DEF IterInv, TypeOK
<1>6. PlaceOK'
  <2>1. BlockNum(cur_block_id_)' = BlockNum(cur_block_id_)
    BY <1>1 DEF BlockNum
  <2> QED BY <1>1, <2>1 DEF IterInv, PlaceOK, NumBlocks
<1>7. StackOK'
  BY <1>1, <1>3 DEF IterInv, StackOK, Word
<1>8. SeenOK' /\ AccountOK'
  BY <1>1, <1>2, <1>3 DEF IterInv, SeenOK, AccountOK, Given, Waits
<1> QED BY <1>5, <1>6, <1>7, <1>8 DEF IterInv

LEMMA NextIter ==
  ASSUME StopAtEnd, IterInv, [Next]_vars
  PROVE  IterInv'
<1>1. ASSUME UNCHANGED vars
      PROVE  IterInv'
  <2>1. UNCHANGED <<bits, changed, stack_, stack_top_, cur_block_id_, cur_word_id_,
                    block_offset_, pc, next, seen>>
    BY <1>1 DEF vars, cursors
  <2>2. Cursor' = Cursor /\ Waiting' = Waiting
    BY <2>1 DEF Cursor, Waiting
  <2>3. TypeOK'
    BY <2>1 DEF IterInv, TypeOK
  <2>4. PlaceOK'
    BY <2>1 DEF IterInv, PlaceOK, NumBlocks, BlockNum
  <2>5. StackOK' /\ SeenOK' /\ AccountOK'
    BY <2>1, <2>2 DEF IterInv, StackOK, Word, SeenOK, AccountOK, Given, Waits
  <2> QED BY <2>3, <2>4, <2>5 DEF IterInv
<1> QED BY <1>1, PopIter, BlockIter, SameBlockIter, WordIter, TrueIter, ChangeIter DEF Next, Call

-----------------------------------------------------------------------------
(* Whatever the vector holds, and whatever is done to its bits between two *)
(* calls, the iterator's state satisfies the invariant, as long as its     *)
(* caller stops when Next returns false.                                   *)
THEOREM IteratorInvariance ==
  ASSUME StopAtEnd
  PROVE  Safety => []IterInv
<1>1. Init => IterInv
  BY InitIter
<1>2. IterInv /\ [Next]_vars => IterInv'
  BY NextIter
<1> QED BY <1>1, <1>2, PTL DEF Safety

(* Types: the stack never holds more than a word's bits, stack_top_ never  *)
(* wraps, and every position given is one of the vector's.                 *)
THEOREM IteratorTypeCorrect ==
  ASSUME StopAtEnd
  PROVE  Safety => []TypeOK
<1>1. IterInv => TypeOK
  BY DEF IterInv
<1> QED BY <1>1, IteratorInvariance, PTL

(* The positions ascend, across words, blocks and the caller's changes.    *)
THEOREM IteratorAscending ==
  ASSUME StopAtEnd
  PROVE  Safety => []SeenAscending
<1>1. ASSUME IterInv
      PROVE  SeenAscending
  <2>1. Len(seen) \in Nat
    BY <1>1, Stacks DEF IterInv
  <2>2. ASSUME NEW k \in 1 .. Len(seen) - 1
        PROVE  seen[k] < seen[k + 1]
    <3>1. k \in 1 .. Len(seen) /\ k + 1 \in 1 .. Len(seen) /\ k < k + 1
      BY <2>1
    <3> QED BY <1>1, <3>1 DEF IterInv, SeenOK
  <2> QED BY <2>2 DEF SeenAscending
<1> QED BY <1>1, IteratorInvariance, PTL

(* Next and GetPosition give exactly the tuples whose bit is set, as far   *)
(* as the caller has come, of those whose bit has not been touched.        *)
THEOREM IteratorExact ==
  ASSUME StopAtEnd
  PROVE  Safety => []SeenExactly
<1>1. ASSUME IterInv, pc = "out", NEW t \in Tuple \ changed
      PROVE  (\E k \in DOMAIN seen : seen[k] = t) <=> (t \in bits /\ Known(t))
  <2>1. /\ Len(seen) \in Nat /\ DOMAIN seen = 1 .. Len(seen) /\ num_ \in Nat /\ t \in 0 .. num_ - 1
        /\ \A i \in 1 .. Len(seen) : seen[i] \in Nat
        /\ seen # <<>> => Len(seen) \in 1 .. Len(seen)
        /\ \A i \in 1 .. Len(stack_) : stack_[i] \in Nat
    <3>1. seen \in Seq(Tuple)
      BY <1>1 DEF IterInv, TypeOK
    <3>2. DOMAIN seen = 1 .. Len(seen)
      BY <3>1, LenProperties
    <3> QED BY <1>1, <3>2, Stacks, Blocks DEF IterInv, Tuple
  <2>2. Len(seen) = 0 <=> seen = <<>>
    BY <1>1, EmptySeq DEF IterInv, TypeOK
  <2>3. Last(seen) = seen[Len(seen)]
    BY DEF Last
  <2>4. t < Cursor => (t \in bits <=> Given(t) \/ Waits(t))
    BY <1>1 DEF IterInv, AccountOK
  <2>5. /\ \A i, j \in 1 .. Len(seen) : i < j => seen[i] < seen[j]
        /\ \A i \in 1 .. Len(seen) : seen[i] < Cursor /\ \A j \in 1 .. Waiting : seen[i] < stack_[j]
    BY <1>1 DEF IterInv, SeenOK
  <2>6. ASSUME NEW k \in 1 .. Len(seen), seen[k] = t
        PROVE  t \in bits /\ Known(t)
    <3>1. t \in bits
      BY <2>4, <2>5, <2>6 DEF Given
    <3>2. seen # <<>> /\ Len(seen) \in 1 .. Len(seen)
      BY <2>1, <2>2
    <3>3. t <= Last(seen)
      <4>1. CASE k = Len(seen)
        BY <2>1, <2>3, <2>6, <4>1
      <4>2. CASE k # Len(seen)
        <5>1. k < Len(seen)
          <6>1. Len(seen) \in Nat
            BY <2>1
          <6> QED BY <4>2, <6>1
        <5>2. seen[k] < seen[Len(seen)]
          BY <2>5, <3>2, <5>1
        <5> QED BY <2>1, <2>3, <2>6, <3>2, <5>2
      <4> QED BY <4>1, <4>2
    <3> QED BY <3>1, <3>2, <3>3 DEF Known
  <2>7. ASSUME t \in bits, Known(t)
        PROVE  Given(t)
    <3>1. CASE ~next
      <4>1. Cursor = num_ /\ Waiting = 0
        BY <1>1, <3>1 DEF Cursor, Waiting, IterInv, PlaceOK
      <4>2. ~Waits(t)
        BY <4>1 DEF Waits
      <4>3. t < Cursor
        BY <2>1, <4>1
      <4> QED BY <2>4, <2>7, <4>2, <4>3
    <3>2. CASE next
      <4>1. seen # <<>> /\ t <= Last(seen)
        BY <2>7, <3>2 DEF Known
      <4>2. Len(seen) \in 1 .. Len(seen) /\ Last(seen) \in Nat /\ Last(seen) < Cursor
            /\ \A j \in 1 .. Waiting : Last(seen) < stack_[j]
        BY <2>1, <2>3, <2>5, <4>1
      <4>3. Waiting <= Len(stack_) /\ Len(stack_) \in Nat /\ Waiting \in Int
        <5>1. Waiting <= Len(stack_)
          BY <1>1 DEF IterInv, StackOK
        <5>2. stack_top_ \in Nat /\ Len(stack_) \in Nat
          BY <1>1, Stacks DEF IterInv
        <5>3. Waiting \in Int
          BY <5>2 DEF Waiting
        <5> QED BY <5>1, <5>2, <5>3
      <4>4. ~Waits(t)
        <5>1. \A j \in 1 .. Waiting : j \in 1 .. Len(stack_)
          BY <4>3
        <5>2. \A j \in 1 .. Waiting : stack_[j] \in Nat
          BY <2>1, <5>1
        <5> QED BY <2>1, <4>1, <4>2, <5>2 DEF Waits
      <4>5. Cursor \in Int
        BY <1>1, <3>2, Stacks, Blocks DEF Cursor, IterInv
      <4>6. t < Cursor
        BY <2>1, <4>1, <4>2, <4>5
      <4> QED BY <2>4, <2>7, <4>4, <4>6
    <3> QED BY <3>1, <3>2
  <2> QED BY <2>1, <2>6, <2>7 DEF Given
<1>2. IterInv => SeenExactly
  BY <1>1 DEF SeenExactly
<1> QED BY <1>2, IteratorInvariance, PTL

(* A position whose bit has been unset since its word was read is given    *)
(* only after another position of that word.                               *)
THEOREM IteratorStaleWithinWord ==
  ASSUME StopAtEnd
  PROVE  Safety => StaleWithinWord
<1> DEFINE A == seen' # seen /\ Last(seen') \notin bits' =>
                  seen # <<>> /\ Word(Last(seen)) = Word(Last(seen'))
<1>1. ASSUME IterInv, Next_True
      PROVE  A
  <2>1. pc = "got" /\ UNCHANGED bits
    BY <1>1 DEF Next_True
  <2>2. stack_top_ >= 1 /\ stack_top_ <= Len(stack_)
    BY <1>1, <2>1 DEF IterInv, PlaceOK, StackOK, TypeOK, Waiting
  <2>3. /\ Len(stack_) \in Nat /\ Len(seen) \in Nat /\ stack_top_ \in Nat
        /\ stack_ \in Seq(Tuple) /\ seen \in Seq(Tuple)
        /\ \A i \in 1 .. Len(stack_) : stack_[i] \in Tuple
    BY <1>1, Stacks DEF IterInv, TypeOK
  <2>4. stack_top_ \in 1 .. Len(stack_)
    BY <2>2, <2>3
  <2> DEFINE pos == stack_[stack_top_]
  <2>5. seen' = Append(seen, pos)
    <3>1. stack_top_ \in DOMAIN stack_
      BY <2>3, <2>4, LenProperties
    <3> QED BY <1>1, <3>1 DEF Next_True, GetPosition
  <2>6. Last(seen') = pos
    <3>1. pos \in Tuple
      BY <2>3, <2>4
    <3> HIDE DEF pos
    <3>2. Len(seen') = Len(seen) + 1 /\ seen'[Len(seen) + 1] = pos
      BY <2>3, <2>5, <3>1, AppendProperties
    <3> QED BY <3>2 DEF Last
  <2>7. CASE stack_top_ < Len(stack_)
    <3>1. seen # <<>> /\ Last(seen) = stack_[stack_top_ + 1]
      BY <1>1, <2>1, <2>7 DEF IterInv, StackOK
    <3>2. stack_top_ + 1 \in 1 .. Len(stack_)
      BY <2>3, <2>7
    <3>3. Word(stack_[stack_top_ + 1]) = Word(pos)
      BY <1>1, <2>4, <3>2 DEF IterInv, StackOK
    <3> QED BY <2>6, <3>1, <3>3
  <2>8. CASE ~(stack_top_ < Len(stack_))
    BY <1>1, <2>1, <2>6, <2>8 DEF IterInv, StackOK
  <2> QED BY <2>7, <2>8
<1>2. Next => Next_True \/ seen' = seen
  BY DEF Next, Call, Next_Pop, Next_Block, Next_SameBlock, Next_Word, SetOrUnsetBit
<1>3. IterInv /\ [Next]_vars => [A]_vars
  BY <1>1, <1>2
<1> QED BY <1>3, IteratorInvariance, PTL DEF Safety, StaleWithinWord
=============================================================================

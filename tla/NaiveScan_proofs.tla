-------------------------- MODULE NaiveScan_proofs --------------------------
(***************************************************************************)
(* NaiveColumnBlock::Scan, proved for every size of word, register, block, *)
(* code and DTYPE, and for two blocks of different sizes: the inductive    *)
(* invariant NaiveInv, and from it what the scan leaves below and past     *)
(* num_tuples_, and that it is a ColumnBlock::Scan.                        *)
(***************************************************************************)
EXTENDS NaiveScan, BitVectorBlock_proofs

CallOK ==
  /\ call.num \in 1 .. kNumTuplesPerBlock
  /\ call.comparator \in Comparator /\ call.bit_opt \in BitwiseOpt
  /\ call.codes \in [Position -> Nat] /\ call.operand \in [Position -> Nat]
  /\ call.old \subseteq Position
  /\ call.old \cap UnitPositions(call.vnum) \subseteq 0 .. call.vnum - 1
  /\ data_ = BulkLoadArray(call.codes) /\ lit = BulkLoadArray(call.operand)

LoopsOK ==
  /\ offset < call.num + kNumWordBits
  /\ pc = "tuple" => offset < call.num
  /\ pc = "done" => offset >= call.num

WordOK ==
  pc = "tuple" => \A b \in 0 .. i - 1 : b \in word <=> Answer(offset + b)

(* The bit of a position whose word is stored: no answer past the tuples.  *)
Scanned(p) == Combine(call.bit_opt, p \in call.old, p < call.num /\ Answer(p))

BitsOK ==
  \A p \in Position :
    p \in bits <=> IF p < offset THEN Scanned(p) ELSE p \in call.old

NaiveInv == CallOK /\ TypeOK /\ LoopsOK /\ WordOK /\ BitsOK

-----------------------------------------------------------------------------
(* The loops.                                                              *)

LEMMA Offsets ==
  ASSUME CallOK, TypeOK
  PROVE  /\ kNumWordBits \in Nat \ {0} /\ kNumTuplesPerBlock \in Nat
         /\ NumWordUnits(call.num) \in Nat
         /\ call.num <= NumWordUnits(call.num) * kNumWordBits
         /\ NumWordUnits(call.num) * kNumWordBits <= kNumTuplesPerBlock
         /\ offset \in Nat /\ i \in Nat
         /\ \E w \in 0 .. NumWordUnits(call.num) : offset = w * kNumWordBits
<1>1. kNumWordBits \in Nat \ {0} /\ kNumTuplesPerBlock \in Nat
  BY Sizes
<1>2. /\ NumWordUnits(call.num) \in Nat
      /\ call.num <= NumWordUnits(call.num) * kNumWordBits
      /\ NumWordUnits(call.num) * kNumWordBits <= kNumTuplesPerBlock
  BY UnitsCover DEF CallOK
<1>3. \E w \in 0 .. NumWordUnits(call.num) : offset = w * kNumWordBits
  BY DEF TypeOK
<1>4. offset \in Nat
  BY <1>1, <1>2, <1>3
<1> QED BY <1>1, <1>2, <1>3, <1>4 DEF TypeOK

(* A word that holds a tuple is a word of the block.                       *)
LEMMA NextWord ==
  ASSUME CallOK, TypeOK, offset < call.num
  PROVE  /\ offset + kNumWordBits <= kNumTuplesPerBlock
         /\ offset + kNumWordBits \in {w * kNumWordBits : w \in 0 .. NumWordUnits(call.num)}
<1> DEFINE u == NumWordUnits(call.num)
           W == kNumWordBits
<1>1. W \in Nat \ {0} /\ u \in Nat /\ call.num <= u * W /\ u * W <= kNumTuplesPerBlock
  BY Offsets
<1>2. PICK w \in 0 .. u : offset = w * W
  BY Offsets
<1>3. call.num \in Nat /\ kNumTuplesPerBlock \in Nat
  BY Sizes DEF CallOK
<1> HIDE DEF u, W
<1>4. w * W < u * W
  BY <1>1, <1>2, <1>3, Offsets
<1>5. w < u
  BY <1>4, <1>1
<1>6. w + 1 \in 0 .. u /\ offset + W = (w + 1) * W
  BY <1>5, <1>1, <1>2
<1>7. (w + 1) * W <= u * W
  BY <1>6, <1>1
<1>8. offset + W <= kNumTuplesPerBlock
  BY <1>1, <1>2, <1>3, <1>6, <1>7
<1> QED BY <1>6, <1>8 DEF u, W

(* The loop ends at the first word without a tuple.                        *)
LEMMA VisitedIsOffset ==
  ASSUME CallOK, TypeOK, LoopsOK, pc = "done"
  PROVE  Visited = offset
<1>1. PICK w \in Nat : offset = w * kNumWordBits
  BY Offsets
<1>2. w * kNumWordBits >= call.num /\ w * kNumWordBits < call.num + kNumWordBits
  BY <1>1 DEF LoopsOK
<1>3. call.num \in 1 .. kNumTuplesPerBlock /\ w * kNumWordBits \in Nat
  BY <1>1, Offsets DEF CallOK
<1>4. call.num <= w * kNumWordBits
  <2> DEFINE o == w * kNumWordBits
  <2> HIDE DEF o
  <2> QED BY <1>2, <1>3 DEF o
<1>5. CEIL(call.num, kNumWordBits) = w
  BY <1>2, <1>3, <1>4, WordsVisited
<1> QED BY <1>1, <1>5 DEF Visited

-----------------------------------------------------------------------------
(* The steps.                                                              *)

LEMMA CallStays ==
  ASSUME CallOK, UNCHANGED inputs
  PROVE  /\ CallOK'
         /\ \A p \in Position : Answer(p)' = Answer(p) /\ Scanned(p)' = Scanned(p)
  BY DEF CallOK, inputs, Answer, Scanned

LEMMA InitInv ==
  ASSUME Init
  PROVE  NaiveInv
<1>1. CallOK
  <2>1. call.num \in 1 .. kNumTuplesPerBlock
    BY NaiveAssumption DEF Init
  <2>2. call.codes \in [Position -> Nat] /\ call.operand \in [Position -> Nat]
    <3>1. call.codes \in CodeArrays
      BY DEF Init
    <3>2. \/ call.operand \in CodeArrays
          \/ \E l \in Literals : call.operand = [p \in Position |-> l]
      BY DEF Init
    <3> QED BY <3>1, <3>2, NaiveAssumption
  <2>3. call.old \subseteq Position
    BY NaiveAssumption DEF Init
  <2> QED BY <2>1, <2>2, <2>3 DEF Init, CallOK
<1>2. TypeOK
  <2>1. kNumWordBits \in Nat \ {0} /\ NumWordUnits(call.num) \in Nat
    BY <1>1, Sizes, UnitsCover DEF CallOK
  <2>2. 0 \in 0 .. NumWordUnits(call.num) /\ 0 = 0 * kNumWordBits
    BY <2>1
  <2>3. offset \in {w * kNumWordBits : w \in 0 .. NumWordUnits(call.num)}
    BY <2>2 DEF Init
  <2> QED BY <1>1, <2>1, <2>3 DEF Init, TypeOK, CallOK
<1>3. LoopsOK /\ WordOK
  BY <1>1, Sizes DEF Init, LoopsOK, WordOK, CallOK
<1>4. BitsOK
  BY DEF Init, BitsOK, Position
<1> QED BY <1>1, <1>2, <1>3, <1>4 DEF NaiveInv

LEMMA EnterWordInv ==
  ASSUME NaiveInv, EnterWord
  PROVE  NaiveInv'
<1> USE DEF NaiveInv, EnterWord, inputs
<1>1. CallOK' /\ \A p \in Position : Answer(p)' = Answer(p) /\ Scanned(p)' = Scanned(p)
  BY CallStays
<1>2. kNumWordBits \in Nat \ {0} /\ offset \in Nat /\ call.num \in Nat /\ call' = call
  BY Offsets DEF CallOK, inputs
<1>3. TypeOK'
  BY <1>2 DEF TypeOK
<1>4. LoopsOK' /\ WordOK'
  BY <1>2 DEF LoopsOK, WordOK
<1>5. BitsOK'
  BY <1>1 DEF BitsOK
<1> QED BY <1>1, <1>3, <1>4, <1>5

LEMMA ScanTupleInv ==
  ASSUME NaiveInv, ScanTuple
  PROVE  NaiveInv'
<1> USE DEF NaiveInv, ScanTuple, inputs
<1>1. CallOK' /\ \A p \in Position : Answer(p)' = Answer(p) /\ Scanned(p)' = Scanned(p)
  BY CallStays
<1>2. /\ kNumWordBits \in Nat \ {0} /\ offset \in Nat /\ i \in Nat /\ call.num \in Nat
      /\ call' = call /\ word \subseteq 0 .. i - 1
  BY Offsets DEF CallOK, inputs, TypeOK
<1>3. i < kNumWordBits /\ offset + i < call.num
  BY DEF InWord
<1>4. word' \subseteq 0 .. i
  BY <1>2
<1>5. TypeOK'
  BY <1>2, <1>3, <1>4 DEF TypeOK
<1>6. LoopsOK'
  BY <1>2 DEF LoopsOK
<1>7. WordOK'
  <2>1. offset + i \in Position
    BY <1>2, <1>3, Sizes DEF Position, CallOK
  <2>2. /\ data_[offset + i] = call.codes[offset + i] % DtypeRange
        /\ lit[offset + i] = call.operand[offset + i] % DtypeRange
    BY <2>1 DEF CallOK, BulkLoadArray
  <2>3. ASSUME NEW b \in 0 .. i
        PROVE  b \in word' <=> Answer(offset + b)
    <3>1. CASE b = i
      BY <3>1, <2>2, <1>2 DEF Answer
    <3>2. CASE b # i
      <4>1. b \in 0 .. i - 1
        BY <3>2, <1>2
      <4>2. b \in word' <=> b \in word
        BY <3>2
      <4> QED BY <4>1, <4>2 DEF WordOK
    <3> QED BY <3>1, <3>2
  <2>4. i' - 1 = i /\ offset' = offset /\ call' = call
    BY <1>2
  <2>5. ASSUME NEW b \in 0 .. i
        PROVE  Answer(offset + b)' <=> Answer(offset + b)
    BY <2>4 DEF Answer
  <2> QED BY <2>3, <2>4, <2>5 DEF WordOK
<1>8. BitsOK'
  BY <1>1 DEF BitsOK
<1> QED BY <1>1, <1>5, <1>6, <1>7, <1>8

LEMMA StoreWordInv ==
  ASSUME NaiveInv, StoreWord
  PROVE  NaiveInv'
<1> USE DEF NaiveInv, StoreWord, inputs
<1>1. CallOK' /\ \A p \in Position : Answer(p)' = Answer(p) /\ Scanned(p)' = Scanned(p)
  BY CallStays
<1>2. /\ kNumWordBits \in Nat \ {0} /\ offset \in Nat /\ i \in Nat /\ call.num \in Nat
      /\ call' = call /\ i' = i /\ word' = word /\ pc' = "word"
      /\ offset' = offset + kNumWordBits /\ kNumTuplesPerBlock \in Nat
  BY Offsets DEF CallOK, inputs
<1>3. offset < call.num
  BY DEF LoopsOK
<1>4. PICK w \in Nat : offset = w * kNumWordBits
  BY Offsets
<1>5. offset \div kNumWordBits = w
  <2>1. (kNumWordBits * w + 0) \div kNumWordBits = w
    BY <1>2, 0 \in 0 .. kNumWordBits - 1, QuotientUnique
  <2> QED BY <2>1, <1>2, <1>4
<1>6. ASSUME NEW p \in Position
      PROVE  p \in bits' <=> LET b == p - offset IN
                             IF b \in WordBit THEN b \in Stored ELSE p \in bits
  <2>1. p \in Nat /\ Stored \in SUBSET WordBit
    BY DEF Position, Stored
  <2>2. bits' = SetWordUnit(bits, Stored, w)
    BY <1>5
  <2> HIDE DEF StoreWord, NaiveInv
  <2> QED BY <2>1, <2>2, <1>4, StoreOnly
<1>7. ASSUME NEW b \in WordBit
      PROVE  b \in Stored <=> Scanned(offset + b)
  <2>1. offset + kNumWordBits <= kNumTuplesPerBlock
    BY <1>3, NextWord
  <2>2. offset + b \in Position /\ offset + b >= offset /\ b \in Nat
    BY <2>1, <1>2 DEF WordBit, Position
  <2>3. offset + b \in bits <=> offset + b \in call.old
    BY <2>2, <1>2 DEF BitsOK
  <2>4. b \in GetWordUnit(bits, offset \div kNumWordBits) <=> offset + b \in bits
    BY <1>4, <1>5 DEF GetWordUnit
  <2>5. b \in word <=> offset + b < call.num /\ Answer(offset + b)
    <3>1. i >= kNumWordBits \/ offset + i >= call.num
      BY <1>2 DEF InWord
    <3>2. word \subseteq 0 .. i - 1 /\ i <= kNumWordBits /\ offset + i <= call.num
      BY DEF TypeOK
    <3>3. CASE b < i
      <4>1. b \in 0 .. i - 1 /\ offset + b < call.num
        BY <3>2, <3>3, <2>2, <1>2
      <4> QED BY <4>1 DEF WordOK
    <3>4. CASE b >= i
      <4>1. b \notin word
        BY <3>2, <3>4, <2>2, <1>2
      <4>2. b < kNumWordBits
        BY <1>2 DEF WordBit
      <4>3. offset + b >= call.num
        BY <3>1, <3>4, <4>2, <2>2, <1>2
      <4> QED BY <4>1, <4>3, <2>2, <1>2
    <3> QED BY <3>3, <3>4, <2>2, <1>2
  <2>6. b \in Stored <=> Combine(call.bit_opt,
                            b \in GetWordUnit(bits, offset \div kNumWordBits), b \in word)
    BY DEF Stored
  <2>7. call.bit_opt \in BitwiseOpt
    BY DEF CallOK
  <2> QED BY <2>3, <2>4, <2>5, <2>6, <2>7 DEF Scanned, Combine, BitwiseOpt
<1>8. bits' \subseteq Position
  <2>1. offset + kNumWordBits <= kNumTuplesPerBlock
    BY <1>3, NextWord
  <2>2. \A b \in Stored : w * kNumWordBits + b \in Position
    BY <2>1, <1>2, <1>4 DEF Stored, WordBit, Position
  <2> QED BY <2>2, <1>5 DEF SetWordUnit, TypeOK
<1>9. TypeOK'
  <2>1. offset' \in {v * kNumWordBits : v \in 0 .. NumWordUnits(call.num)}
    BY <1>2, <1>3, NextWord
  <2> QED BY <1>2, <1>8, <2>1 DEF TypeOK
<1>10. LoopsOK' /\ WordOK'
  BY <1>2, <1>3 DEF LoopsOK, WordOK
<1>11. BitsOK'
  <2>1. ASSUME NEW p \in Position
        PROVE  p \in bits' <=>
                 IF p < offset + kNumWordBits THEN Scanned(p) ELSE p \in call.old
    <3>1. p \in Nat
      BY DEF Position
    <3>2. CASE p - offset \in WordBit
      <4>1. p < offset + kNumWordBits /\ offset + (p - offset) = p
        BY <3>1, <3>2, <1>2 DEF WordBit
      <4>2. p \in bits' <=> p - offset \in Stored
        BY <1>6, <3>2
      <4>3. p - offset \in Stored <=> Scanned(offset + (p - offset))
        BY <1>7, <3>2
      <4> QED BY <4>1, <4>2, <4>3
    <3>3. CASE p - offset \notin WordBit
      <4>1. p < offset + kNumWordBits <=> p < offset
        BY <3>1, <3>3, <1>2 DEF WordBit
      <4>2. p \in bits' <=> p \in bits
        BY <1>6, <3>3
      <4> QED BY <4>1, <4>2 DEF BitsOK
    <3> QED BY <3>2, <3>3
  <2> QED BY <1>1, <1>2, <2>1 DEF BitsOK
<1> QED BY <1>1, <1>9, <1>10, <1>11

LEMMA ReturnInv ==
  ASSUME NaiveInv, Return
  PROVE  NaiveInv'
<1> USE DEF NaiveInv, Return, inputs
<1>1. CallOK' /\ \A p \in Position : Answer(p)' = Answer(p) /\ Scanned(p)' = Scanned(p)
  BY CallStays
<1>2. TypeOK' /\ LoopsOK' /\ WordOK'
  BY DEF TypeOK, LoopsOK, WordOK, inputs
<1>3. BitsOK'
  BY <1>1 DEF BitsOK
<1> QED BY <1>1, <1>2, <1>3

-----------------------------------------------------------------------------
(* The theorems.                                                           *)

(* The inductive invariant: a word under way holds the answers of its      *)
(* tuples scanned so far, a stored word what bit_opt makes of its old bits *)
(* and of its answers, any other word its old bits.                        *)
THEOREM NaiveInvariance == Safety => []NaiveInv
<1>1. Init => NaiveInv
  BY InitInv
<1>2. NaiveInv /\ [Next]_vars => NaiveInv'
  <2> SUFFICES ASSUME NaiveInv, [Next]_vars
               PROVE  NaiveInv'
    OBVIOUS
  <2>1. CASE EnterWord
    BY <2>1, EnterWordInv
  <2>2. CASE ScanTuple
    BY <2>2, ScanTupleInv
  <2>3. CASE StoreWord
    BY <2>3, StoreWordInv
  <2>4. CASE Return
    BY <2>4, ReturnInv
  <2>5. CASE UNCHANGED vars
    <3> USE <2>5 DEF NaiveInv, vars, inputs
    <3>1. CallOK' /\ \A p \in Position : Answer(p)' = Answer(p) /\ Scanned(p)' = Scanned(p)
      BY CallStays
    <3>2. TypeOK' /\ LoopsOK' /\ BitsOK'
      BY <3>1 DEF TypeOK, LoopsOK, BitsOK
    <3>3. WordOK' = WordOK
      BY DEF WordOK, Answer
    <3> QED BY <3>1, <3>2, <3>3
  <2> QED BY <2>1, <2>2, <2>3, <2>4, <2>5 DEF Next
<1> QED BY <1>1, <1>2, PTL DEF Safety

(* The scan reads and writes within the two blocks' arrays, whatever their *)
(* sizes.                                                                  *)
THEOREM NaiveTypeCorrect == Safety => []TypeOK
<1>1. NaiveInv => TypeOK
  BY DEF NaiveInv
<1> QED BY <1>1, NaiveInvariance, PTL

(* Values and literals of BIT_WIDTH bits get the answers that the bytes of *)
(* a ByteSlice block give: the cast to a DTYPE leaves them whole.          *)
THEOREM NaiveAgrees == Safety => []LayoutsAgree
<1>1. NaiveInv => LayoutsAgree
  <2> SUFFICES ASSUME NaiveInv, pc = "done", NEW p \in 0 .. call.num - 1,
                      call.codes[p] < CodeRange, call.operand[p] < CodeRange
               PROVE  p \in bits <=>
                        Combine(call.bit_opt, p \in call.old,
                                Compare(call.comparator, call.codes[p], call.operand[p]))
    BY DEF LayoutsAgree
  <2>1. p \in Position /\ p < call.num /\ p < offset
    <3>1. call.num \in 1 .. kNumTuplesPerBlock /\ kNumTuplesPerBlock \in Nat
      BY Sizes DEF NaiveInv, CallOK
    <3>2. offset >= call.num /\ offset \in Nat
      BY Offsets DEF NaiveInv, LoopsOK
    <3> QED BY <3>1, <3>2 DEF Position
  <2>2. call.codes[p] \in Nat /\ call.operand[p] \in Nat
    BY <2>1 DEF NaiveInv, CallOK
  <2>3. DtypeRange \in Nat \ {0} /\ CodeRange \in 1 .. DtypeRange
    BY NaiveAssumption
  <2>4. call.codes[p] % DtypeRange = call.codes[p] /\ call.operand[p] % DtypeRange = call.operand[p]
    BY <2>2, <2>3
  <2>5. Answer(p) <=> Compare(call.comparator, call.codes[p], call.operand[p])
    BY <2>4 DEF Answer
  <2>6. p \in bits <=> Scanned(p)
    BY <2>1 DEF NaiveInv, BitsOK
  <2>7. call.bit_opt \in BitwiseOpt
    BY DEF NaiveInv, CallOK
  <2> QED BY <2>1, <2>5, <2>6, <2>7 DEF Scanned, Combine, BitwiseOpt
<1> QED BY <1>1, NaiveInvariance, PTL

(* Nothing is set past the tuples; only kOr, and the words without a       *)
(* tuple, keep what was there.                                             *)
THEOREM NaiveTail == Safety => []TailAsFound
<1>1. NaiveInv => TailAsFound
  <2> SUFFICES ASSUME NaiveInv, NEW p \in Position, p >= call.num, pc = "done"
               PROVE  p \in bits <=> p \in call.old /\ (call.bit_opt = "kOr" \/ p >= Visited)
    BY DEF TailAsFound
  <2>1. Visited = offset
    BY VisitedIsOffset DEF NaiveInv
  <2>2. offset \in Nat /\ p \in Nat /\ call.num \in Nat /\ call.bit_opt \in BitwiseOpt
    BY Offsets DEF NaiveInv, CallOK, Position
  <2>3. ~(p < call.num)
    BY <2>2
  <2>4. p \in bits <=> IF p < offset THEN Scanned(p) ELSE p \in call.old
    BY DEF NaiveInv, BitsOK
  <2>5. Scanned(p) <=> p \in call.old /\ call.bit_opt = "kOr"
    BY <2>2, <2>3 DEF Scanned, Combine, BitwiseOpt
  <2>6. p < offset <=> ~(p >= Visited)
    BY <2>1, <2>2
  <2> QED BY <2>4, <2>5, <2>6
<1> QED BY <1>1, NaiveInvariance, PTL

(* What the scan leaves at every position of the vector's block, whatever  *)
(* sizes the two blocks have, is what ScanSession takes for the one step   *)
(* of a naive block's scan (BlockScanned).                                 *)
THEOREM NaiveLeaves ==
  Safety => [](pc = "done" =>
                 \A p \in Position :
                   p \in bits <=>
                     IF p < Visited
                     THEN Combine(call.bit_opt, p \in call.old, p < call.num /\ Answer(p))
                     ELSE p \in call.old)
<1> DEFINE Left == \A p \in Position :
                     p \in bits <=>
                       IF p < Visited
                       THEN Combine(call.bit_opt, p \in call.old, p < call.num /\ Answer(p))
                       ELSE p \in call.old
<1>1. NaiveInv => (pc = "done" => Left)
  <2> SUFFICES ASSUME NaiveInv, pc = "done" PROVE Left
    OBVIOUS
  <2>1. Visited = offset
    BY VisitedIsOffset DEF NaiveInv
  <2> QED BY <2>1 DEF NaiveInv, BitsOK, Scanned
<1> QED BY <1>1, NaiveInvariance, PTL

-----------------------------------------------------------------------------
(* The scan implements BlockScan.                                          *)

Seen == IF call.vnum = call.num THEN bits \cap UnitPositions(call.vnum) ELSE TupleBits(bits)

(* In a vector of the column's size no bit past the tuples is ever set.    *)
LEMMA SeenIsTuples ==
  ASSUME NaiveInv
  PROVE  Seen = TupleBits(bits)
<1>1. call.num \in 1 .. kNumTuplesPerBlock /\ offset \in Nat
      /\ NumWordUnits(call.num) * kNumWordBits \in Nat
      /\ call.num <= NumWordUnits(call.num) * kNumWordBits
      /\ call.bit_opt \in BitwiseOpt /\ bits \subseteq Position
  BY Offsets DEF NaiveInv, CallOK, TypeOK
<1>2. ASSUME call.vnum = call.num, NEW p \in bits, p \in UnitPositions(call.num)
      PROVE  p \in 0 .. call.num - 1
  <2>1. SUFFICES ASSUME p >= call.num
                 PROVE  FALSE
    BY <1>1, <1>2 DEF UnitPositions
  <2>2. p \notin call.old
    BY <1>1, <1>2, <2>1 DEF NaiveInv, CallOK
  <2>3. ~(p < call.num) /\ p \in Position
    BY <1>1, <2>1 DEF Position
  <2>4. p \in bits <=> IF p < offset THEN Scanned(p) ELSE p \in call.old
    BY <2>3 DEF NaiveInv, BitsOK
  <2> QED BY <1>1, <1>2, <2>2, <2>3, <2>4 DEF Scanned, Combine, BitwiseOpt
<1>3. 0 .. call.num - 1 \subseteq UnitPositions(call.num)
  <2> DEFINE u == NumWordUnits(call.num) * kNumWordBits
  <2>1. u \in Nat /\ call.num <= u
    BY <1>1
  <2> HIDE DEF u
  <2>2. 0 .. call.num - 1 \subseteq 0 .. u - 1
    BY <1>1, <2>1
  <2> QED BY <2>2 DEF UnitPositions, u
<1> QED BY <1>2, <1>3 DEF Seen, TupleBits

LEMMA StoreWordBits ==
  ASSUME NaiveInv, NaiveInv', StoreWord
  PROVE  LET window == {p \in 0 .. call.num - 1 : offset <= p /\ p < offset + kNumWordBits}
         IN  TupleBits(bits)' = (TupleBits(bits) \ window) \cup {p \in window : Scanned(p)}
<1>1. /\ call.num \in 1 .. kNumTuplesPerBlock /\ offset \in Nat
      /\ kNumWordBits \in Nat \ {0} /\ kNumTuplesPerBlock \in Nat
  BY Offsets DEF NaiveInv, CallOK
<1>2. call' = call /\ offset' = offset + kNumWordBits
  BY DEF StoreWord, inputs
<1>3. ASSUME NEW p \in 0 .. call.num - 1
      PROVE  /\ p \in bits <=> IF p < offset THEN Scanned(p) ELSE p \in call.old
             /\ p \in bits' <=>
                  IF p < offset + kNumWordBits THEN Scanned(p) ELSE p \in call.old
  <2>1. p \in Position
    BY <1>1 DEF Position
  <2>2. Scanned(p)' = Scanned(p)
    BY <2>1, CallStays DEF NaiveInv, StoreWord
  <2> QED BY <1>2, <2>1, <2>2 DEF NaiveInv, BitsOK
<1>4. \A p \in 0 .. call.num - 1 : p \in Nat /\ (p < offset => p < offset + kNumWordBits)
  BY <1>1
<1> QED BY <1>1, <1>2, <1>3, <1>4 DEF TupleBits

(* Every step of the naive scan is a word combined once with its old bits, *)
(* in ascending order, or the return, or changes nothing a caller could    *)
(* see: the scan is a ColumnBlock::Scan.                                   *)
THEOREM NaiveRefinement == Safety => BS!Safety
<1> USE DEF BS!vars, BS!Tuples, BS!Window, BS!Answers
<1>1. ASSUME Init
      PROVE  BS!Init
  <2>1. NaiveInv
    BY <1>1, InitInv
  <2>2. Seen = TupleBits(call.old)
    BY <1>1, <2>1, SeenIsTuples DEF Init
  <2>3. TupleBits(call.old) \in SUBSET Position
    BY <2>1 DEF NaiveInv, CallOK, TupleBits
  <2>4. call.num \in Nums /\ call.bit_opt \in BitwiseOpt
    BY <1>1 DEF Init
  <2> QED BY <1>1, <2>2, <2>3, <2>4 DEF Init, BS!Init, Seen
<1>2. NaiveInv => Seen = TupleBits(bits)
  BY SeenIsTuples
<1>3. ASSUME NaiveInv, NaiveInv', Seen = TupleBits(bits), (Seen = TupleBits(bits))',
             [Next]_vars
      PROVE  [BS!Next]_(BS!vars)
  <2> DEFINE hits == {p \in Position : Answer(p)}
             old == TupleBits(call.old)
             tuples == TupleBits(bits)
             mapped == IF call.vnum = call.num THEN bits \cap UnitPositions(call.vnum)
                       ELSE TupleBits(bits)
  <2>1. ASSUME UNCHANGED inputs
        PROVE  call' = call /\ hits' = hits /\ old' = old
    <3>1. call' = call
      BY <2>1 DEF inputs
    <3> QED BY <3>1 DEF Answer, TupleBits
  <2>2. mapped = tuples /\ mapped' = tuples'
    BY <1>3 DEF Seen
  <2>3. ASSUME UNCHANGED inputs, UNCHANGED <<bits, offset>>, pc # "done", pc' # "done"
        PROVE  UNCHANGED BS!vars
    BY <2>1, <2>3 DEF TupleBits
  <2>4. CASE EnterWord
    BY <2>3, <2>4 DEF EnterWord
  <2>5. CASE ScanTuple
    BY <2>3, <2>5 DEF ScanTuple
  <2>6. CASE StoreWord
    <3>1. call' = call /\ hits' = hits /\ old' = old /\ offset' = offset + kNumWordBits
          /\ pc = "tuple" /\ pc' = "word"
      BY <2>1, <2>6 DEF StoreWord
    <3>2. offset < call.num
      BY <1>3, <3>1 DEF NaiveInv, LoopsOK
    <3> DEFINE window == {p \in 0 .. call.num - 1 : offset <= p /\ p < offset + kNumWordBits}
    <3>3. tuples' = (tuples \ window) \cup {p \in window : Scanned(p)}
      BY <1>3, <2>6, StoreWordBits
    <3>4. {p \in window : Scanned(p)}
            = {p \in window : BS!Combine(call.bit_opt, p \in old, p \in hits)}
      <4>1. \A p \in window : p \in Position /\ p < call.num
        <5>1. call.num \in 1 .. kNumTuplesPerBlock /\ kNumTuplesPerBlock \in Nat
          BY <1>3, Offsets DEF NaiveInv, CallOK
        <5> QED BY <5>1 DEF Position
      <4>2. \A p \in window : (p \in hits <=> Answer(p)) /\ (p \in old <=> p \in call.old)
        BY <4>1 DEF TupleBits
      <4>3. call.bit_opt \in BitwiseOpt
        BY <1>3 DEF NaiveInv, CallOK
      <4> HIDE DEF window, hits, old
      <4> QED BY <4>1, <4>2, <4>3 DEF Scanned, Combine, BS!Combine, BitwiseOpt
    <3>5. BS!Window = window
      OBVIOUS
    <3>6. BS!Answers(window)
            = {p \in window : BS!Combine(call.bit_opt, p \in old, p \in hits)}
      OBVIOUS
    <3>7. mapped' = (mapped \ BS!Window) \cup BS!Answers(BS!Window)
      BY <2>2, <3>3, <3>4, <3>5, <3>6
    <3>8. BS!ScanWord
      <4> HIDE DEF BS!Window, BS!Answers, hits, window, old, tuples
      <4> QED BY <3>1, <3>2, <3>7 DEF BS!ScanWord, hits, old
    <3> QED BY <3>8 DEF BS!Next
  <2>7. CASE Return
    <3>1. call' = call /\ hits' = hits /\ old' = old /\ offset' = offset /\ bits' = bits
          /\ pc = "word" /\ pc' = "done" /\ offset >= call.num
      BY <2>1, <2>7 DEF Return
    <3> QED BY <3>1 DEF BS!Next, BS!Return, TupleBits
  <2>8. CASE UNCHANGED vars
    <3>1. hits' = hits
      BY <2>8 DEF vars, Answer
    <3>2. UNCHANGED BS!vars
      BY <2>8, <3>1 DEF vars, TupleBits
    <3> QED BY <3>2
  <2> QED BY <1>3, <2>4, <2>5, <2>6, <2>7, <2>8 DEF Next
<1> QED BY <1>1, <1>2, <1>3, NaiveInvariance, PTL DEF Safety, BS!Safety
=============================================================================

------------------------ MODULE BitVectorBlock_proofs ------------------------
(***************************************************************************)
(* BitVectorBlock, proved for every size of word, register and block:      *)
(* ClearTail clears exactly the positions that hold no tuple, whatever is  *)
(* left of num_ after the whole registers and the whole words.             *)
(***************************************************************************)
EXTENDS BitVectorBlock, TLAPS

LEMMA Quotient ==
  ASSUME NEW a \in Nat, NEW b \in Nat \ {0}
  PROVE  /\ a \div b \in Nat /\ a % b \in 0 .. b - 1
         /\ a = b * (a \div b) + (a % b)
  OBVIOUS

LEMMA QuotientUnique ==
  ASSUME NEW b \in Nat \ {0}, NEW q \in Nat, NEW r \in 0 .. b - 1
  PROVE  /\ (b * q + r) \div b = q
         /\ (b * q + r) % b = r
  OBVIOUS

(* The sizes: A bits a register, W bits a word, k words a register.        *)
LEMMA Sizes ==
  /\ kNumWordBits \in Nat \ {0} /\ kNumAvxBits \in Nat \ {0}
  /\ kNumTuplesPerBlock \in Nat \ {0}
  /\ kNumAvxBits \div kNumWordBits \in Nat \ {0}
  /\ kNumAvxBits = (kNumAvxBits \div kNumWordBits) * kNumWordBits
<1>1. /\ kNumWordBits \in Nat \ {0} /\ kNumAvxBits \in Nat \ {0}
      /\ kNumTuplesPerBlock \in Nat \ {0}
  BY BitVectorAssumption
<1>2. PICK k \in 1 .. kNumAvxBits : kNumAvxBits = k * kNumWordBits
  BY BitVectorAssumption
<1>3. k \in Nat \ {0}
  BY <1>1
<1>4. (kNumWordBits * k + 0) \div kNumWordBits = k
  BY <1>1, <1>3, 0 \in 0 .. kNumWordBits - 1, QuotientUnique
<1>5. kNumWordBits * k + 0 = kNumAvxBits
  BY <1>1, <1>2, <1>3
<1> QED BY <1>1, <1>2, <1>3, <1>4, <1>5

(* CEIL does not wrap on a size of 1 or more: it is the least number of     *)
(* pieces of y that hold x.                                                *)
LEMMA CeilCovers ==
  ASSUME NEW x \in 1 .. SizeRange - 1, NEW y \in Nat \ {0}
  PROVE  /\ CEIL(x, y) = ((x - 1) \div y) + 1
         /\ CEIL(x, y) \in Nat \ {0}
         /\ x <= y * CEIL(x, y) /\ y * (CEIL(x, y) - 1) < x
<1> DEFINE q == (x - 1) \div y
<1>1. x - 1 \in 0 .. SizeRange - 1 /\ x \in Nat /\ SizeRange \in Nat \ {0}
  BY SizeRangeAssumption
<1>2. (x - 1) % SizeRange = x - 1
  BY <1>1
<1>3. q \in Nat /\ x - 1 = y * q + ((x - 1) % y) /\ (x - 1) % y \in 0 .. y - 1
  <2>1. x - 1 \in Nat
    BY <1>1
  <2> QED BY <2>1, Quotient
<1> HIDE DEF q
<1>4. y * q >= q /\ y * q \in Nat
  BY <1>3
<1>5. q + 1 \in 0 .. SizeRange - 1
  BY <1>1, <1>3, <1>4
<1>6. (q + 1) % SizeRange = q + 1
  BY <1>1, <1>5
<1>7. CEIL(x, y) = q + 1
  BY <1>2, <1>6 DEF CEIL, q
<1>8. y * (q + 1) = y * q + y /\ q + 1 - 1 = q
  BY <1>3
<1> QED BY <1>1, <1>3, <1>7, <1>8 DEF q

(* The sizes of a block are such sizes.                                    *)
LEMMA CeilExact ==
  ASSUME NEW num \in 1 .. kNumTuplesPerBlock
  PROVE  CEIL(num, kNumAvxBits) = ((num - 1) \div kNumAvxBits) + 1
<1>1. num \in 1 .. SizeRange - 1
  BY BitVectorAssumption, SizeRangeAssumption
<1> QED BY <1>1, Sizes, CeilCovers

(* The words with a tuple are the fewest that hold the tuples.             *)
LEMMA WordsVisited ==
  ASSUME NEW num \in 1 .. kNumTuplesPerBlock
  PROVE  /\ CEIL(num, kNumWordBits) \in Nat \ {0}
         /\ num <= CEIL(num, kNumWordBits) * kNumWordBits
         /\ (CEIL(num, kNumWordBits) - 1) * kNumWordBits < num
         /\ \A w \in Nat : num <= w * kNumWordBits /\ w * kNumWordBits < num + kNumWordBits
              => w = CEIL(num, kNumWordBits)
<1> DEFINE W == kNumWordBits
           c == CEIL(num, W)
<1>1. num \in 1 .. SizeRange - 1 /\ W \in Nat \ {0} /\ num \in Nat
  BY BitVectorAssumption, SizeRangeAssumption
<1>2. c \in Nat \ {0} /\ num <= W * c /\ W * (c - 1) < num
  BY <1>1, CeilCovers
<1> HIDE DEF c, W
<1>3. W * c = c * W /\ W * (c - 1) = (c - 1) * W /\ c * W \in Nat
  BY <1>1, <1>2
<1>4. ASSUME NEW w \in Nat, num <= w * W, w * W < num + W
      PROVE  w = c
  <2>1. W * (c - 1) < W * w
    BY <1>1, <1>2, <1>4
  <2>2. c - 1 < w
    BY <2>1, <1>1, <1>2
  <2>3. W * (w - 1) < W * c
    <3>1. W * (w - 1) = w * W - W
      BY <1>1
    <3> QED BY <3>1, <1>1, <1>2, <1>4
  <2>4. w - 1 < c
    BY <2>3, <1>1, <1>2
  <2> QED BY <2>2, <2>4, <1>2
<1> QED BY <1>2, <1>3, <1>4 DEF c, W

(* The words in use cover the tuples.                                      *)
LEMMA UnitsCover ==
  ASSUME NEW num \in 1 .. kNumTuplesPerBlock
  PROVE  /\ NumWordUnits(num) \in Nat \ {0}
         /\ num <= NumWordUnits(num) * kNumWordBits
         /\ NumWordUnits(num) * kNumWordBits <= kNumTuplesPerBlock
<1> DEFINE A == kNumAvxBits
           W == kNumWordBits
           q == (num - 1) \div A
           k == A \div W
<1>1. q \in Nat /\ num - 1 = A * q + ((num - 1) % A) /\ (num - 1) % A \in 0 .. A - 1
  <2>1. num - 1 \in Nat
    OBVIOUS
  <2> QED BY <2>1, Sizes, Quotient
<1>2. NumWordUnits(num) = (q + 1) * k
  BY CeilExact DEF NumWordUnits
<1>3. A \in Nat \ {0} /\ W \in Nat \ {0} /\ k \in Nat \ {0} /\ A = k * W
  BY Sizes
<1> HIDE DEF A, W, q, k
<1>4. (q + 1) * k \in Nat \ {0}
  BY <1>1, <1>3
<1>5. ((q + 1) * k) * W = A * q + A
  BY <1>1, <1>3
<1>6. num <= A * q + A
  BY <1>1, <1>3
<1>7. PICK m \in 1 .. kNumTuplesPerBlock : kNumTuplesPerBlock = m * A
  BY BitVectorAssumption DEF A
<1>8. A * q + A <= kNumTuplesPerBlock
  <2>1. A * q <= num - 1 /\ num <= m * A
    BY <1>1, <1>3, <1>7
  <2>2. A * q < A * m
    BY <2>1, <1>1, <1>3, <1>7, Sizes
  <2>3. q < m
    BY <2>2, <1>1, <1>3, <1>7, Sizes
  <2>4. A * (q + 1) <= A * m
    BY <2>3, <1>1, <1>3, <1>7, Sizes
  <2> QED BY <2>4, <1>1, <1>3, <1>7, Sizes
<1> QED BY <1>2, <1>4, <1>5, <1>6, <1>8 DEF W

(* The words in use hold the tuples and stay in the block.                 *)
LEMMA UnitsHold ==
  ASSUME NEW num \in 1 .. kNumTuplesPerBlock
  PROVE  /\ 0 .. num - 1 \subseteq UnitPositions(num)
         /\ UnitPositions(num) \subseteq 0 .. kNumTuplesPerBlock - 1
<1> DEFINE u == NumWordUnits(num) * kNumWordBits
<1>1. num <= u /\ u <= kNumTuplesPerBlock /\ u \in Nat /\ kNumTuplesPerBlock \in Nat
  BY UnitsCover, BitVectorAssumption
<1> HIDE DEF u
<1>2. 0 .. num - 1 \subseteq 0 .. u - 1 /\ 0 .. u - 1 \subseteq 0 .. kNumTuplesPerBlock - 1
  BY <1>1
<1> QED BY <1>2 DEF UnitPositions, u

(* The word that ClearTail masks is the one that num_ ends in, and it      *)
(* keeps the bits below num_.                                              *)
LEMMA TailWord ==
  ASSUME NEW num \in 1 .. kNumTuplesPerBlock, num % kNumAvxBits # 0
  PROVE  LET num_empty == kNumAvxBits - (num % kNumAvxBits)
             i == NumWordUnits(num) - 1 - (num_empty \div kNumWordBits)
             kept == kNumWordBits - (num_empty % kNumWordBits)
         IN  i \in Nat /\ kept \in 1 .. kNumWordBits /\ num = kNumWordBits * i + kept
<1> DEFINE A == kNumAvxBits
           W == kNumWordBits
           k == A \div W
           r == num % A
           q == num \div A
           e == A - r
           t == e \div W
           u == e % W
<1>1. A \in Nat \ {0} /\ W \in Nat \ {0} /\ k \in Nat \ {0} /\ A = k * W
  BY Sizes
<1>2. q \in Nat /\ r \in 1 .. A - 1 /\ num = A * q + r
  <2>1. num \in Nat
    OBVIOUS
  <2>2. q \in Nat /\ r \in 0 .. A - 1 /\ num = A * q + r
    BY <2>1, <1>1, Quotient
  <2> QED BY <2>2, <1>1
<1>3. e \in 1 .. A - 1
  BY <1>1, <1>2
<1>4. t \in Nat /\ u \in 0 .. W - 1 /\ e = W * t + u
  <2>1. e \in Nat
    BY <1>1, <1>3
  <2> HIDE DEF A, e
  <2> QED BY <2>1, <1>1, Quotient
<1>5. (num - 1) \div A = q
  <2> HIDE DEF A, q, r
  <2>1. r - 1 \in 0 .. A - 1
    BY <1>1, <1>2
  <2>2. (A * q + (r - 1)) \div A = q
    BY <1>1, <1>2, <2>1, QuotientUnique
  <2>3. num - 1 = A * q + (r - 1)
    BY <1>1, <1>2
  <2> QED BY <2>2, <2>3
<1>6. NumWordUnits(num) = (q + 1) * k
  BY <1>5, CeilExact DEF NumWordUnits
<1> DEFINE i == (q + 1) * k - 1 - t
<1>7. i \in Nat
  <2> HIDE DEF A, W, k, r, q, e, t, u
  <2>1. W * t < W * k
    BY <1>1, <1>3, <1>4
  <2>2. t < k
    BY <2>1, <1>1, <1>4
  <2>3. (q + 1) * k >= k /\ (q + 1) * k \in Nat
    BY <1>1, <1>2
  <2> QED BY <2>2, <2>3, <1>1, <1>4 DEF i
<1>8. num = W * i + (W - u)
  <2>1. e = A - r
    OBVIOUS
  <2> HIDE DEF A, W, k, r, q, e, t, u
  <2>2. W * i = W * ((q + 1) * k) - W - W * t
    BY <1>1, <1>2, <1>4 DEF i
  <2>3. W * ((q + 1) * k) = A * q + A
    BY <1>1, <1>2
  <2> QED BY <2>1, <2>2, <2>3, <1>1, <1>2, <1>3, <1>4
<1> QED BY <1>4, <1>6, <1>7, <1>8, <1>1

(* After ClearTail the block holds exactly the bits of its num_ tuples:    *)
(* every answer of a scan past them is gone and none below them is lost.   *)
THEOREM ClearTailExact ==
  ASSUME NEW num \in 1 .. kNumTuplesPerBlock,
         NEW bits \in SUBSET UnitPositions(num)
  PROVE  ClearTail(bits, num) = bits \cap (0 .. num - 1)
<1> DEFINE A == kNumAvxBits
           W == kNumWordBits
           e == A - (num % A)
           i == NumWordUnits(num) - 1 - (e \div W)
           kept == W - (e % W)
<1>1. A \in Nat \ {0} /\ W \in Nat \ {0}
  BY Sizes
<1>2. num % A \in 0 .. A - 1 /\ num \in Nat
  BY <1>1
<1>3. CASE num % A = 0
  <2>1. e = A
    BY <1>3, <1>1
  <2>2. ClearTail(bits, num) = bits
    BY <2>1 DEF ClearTail
  <2>3. NumWordUnits(num) * W = num
    <3> DEFINE q == num \div A
               k == A \div W
    <3>1. q \in Nat /\ num = A * q
      <4>1. q \in Nat /\ num = A * q + (num % A)
        BY <1>1, <1>2, Quotient
      <4> QED BY <4>1, <1>1, <1>3
    <3>2. q # 0
      BY <3>1, <1>1
    <3>3. num - 1 = A * (q - 1) + (A - 1) /\ q - 1 \in Nat /\ A - 1 \in 0 .. A - 1
      BY <3>1, <3>2, <1>1
    <3>4. (num - 1) \div A = q - 1
      <4> HIDE DEF A, q
      <4> QED BY <3>3, <1>1, QuotientUnique
    <3>5. NumWordUnits(num) = q * k
      <4>1. NumWordUnits(num) = (q - 1 + 1) * k
        BY <3>4, CeilExact DEF NumWordUnits
      <4>2. q - 1 + 1 = q
        BY <3>1
      <4> QED BY <4>1, <4>2
    <3>6. k \in Nat /\ A = k * W
      BY Sizes
    <3> HIDE DEF A, W, q, k
    <3> QED BY <3>1, <3>5, <3>6, <1>1
  <2> QED BY <2>2, <2>3 DEF UnitPositions
<1>4. CASE num % A # 0
  <2>1. e # A
    BY <1>4, <1>1, <1>2
  <2>2. i \in Nat /\ kept \in 1 .. W /\ num = W * i + kept
    BY <1>4, TailWord
  <2>3. ClearTail(bits, num)
          = {p \in bits : \/ p \div W < i
                          \/ p \div W = i /\ p % W < kept}
    BY <2>1 DEF ClearTail
  <2>4. ASSUME NEW p \in bits
        PROVE  (p \div W < i \/ (p \div W = i /\ p % W < kept)) <=> p \in 0 .. num - 1
    <3>1. p \in Nat
      BY DEF UnitPositions
    <3> DEFINE d == p \div W
               s == p % W
    <3>2. d \in Nat /\ s \in 0 .. W - 1 /\ p = W * d + s
      BY <3>1, <1>1, Quotient
    <3> HIDE DEF A, W, e, i, kept, d, s
    <3>3. CASE d < i
      <4>1. W * (d + 1) <= W * i
        BY <3>3, <3>2, <2>2, <1>1
      <4>2. p < num
        BY <4>1, <3>2, <2>2, <1>1
      <4> QED BY <4>2, <3>1, <3>3, <1>2 DEF d
    <3>4. CASE d = i
      <4>1. (p < num) <=> (s < kept)
        BY <3>4, <3>2, <2>2, <1>1
      <4> QED BY <4>1, <3>1, <3>2, <3>4, <2>2, <1>2 DEF d, s
    <3>5. CASE d > i
      <4>1. W * (i + 1) <= W * d
        BY <3>5, <3>2, <2>2, <1>1
      <4>2. ~(p < num)
        BY <4>1, <3>2, <2>2, <1>1
      <4>3. ~(d < i) /\ d # i
        BY <3>5, <3>2, <2>2
      <4> QED BY <4>2, <4>3, <3>1, <1>2 DEF d, s
    <3> QED BY <3>3, <3>4, <3>5, <3>2, <2>2
  <2> QED BY <2>3, <2>4
<1> QED BY <1>3, <1>4

(* Storing a word touches the positions of that word and no other.         *)
LEMMA StoreOnly ==
  ASSUME NEW w \in Nat, NEW p \in Nat, NEW S, NEW T \in SUBSET WordBit
  PROVE  LET b == p - w * kNumWordBits IN
         p \in SetWordUnit(S, T, w) <=> IF b \in WordBit THEN b \in T ELSE p \in S
<1> DEFINE W == kNumWordBits
           d == p \div W
           s == p % W
           b == p - w * W
<1>1. W \in Nat \ {0}
  BY Sizes
<1>2. d \in Nat /\ s \in 0 .. W - 1 /\ p = W * d + s
  BY <1>1, Quotient
<1>3. d = w <=> b \in 0 .. W - 1
  <2> HIDE DEF W, d, s
  <2>1. CASE d < w
    <3>1. W * (d + 1) <= W * w
      BY <2>1, <1>1, <1>2
    <3> QED BY <3>1, <2>1, <1>1, <1>2
  <2>2. CASE d = w
    BY <2>2, <1>1, <1>2
  <2>3. CASE d > w
    <3>1. W * (w + 1) <= W * d
      BY <2>3, <1>1, <1>2
    <3> QED BY <3>1, <2>3, <1>1, <1>2
  <2> QED BY <2>1, <2>2, <2>3, <1>2
<1>4. p \in {w * W + c : c \in T} <=> b \in T
  <2>1. w * W \in Nat /\ \A c \in T : c \in Nat
    BY <1>1 DEF WordBit
  <2>2. \A c \in T : p = w * W + c <=> b = c
    BY <2>1
  <2> QED BY <2>2
<1>5. p \in SetWordUnit(S, T, w) <=> (p \in S /\ d # w) \/ b \in T
  BY <1>4 DEF SetWordUnit
<1>6. b \in T => b \in WordBit
  OBVIOUS
<1> QED BY <1>3, <1>5, <1>6 DEF WordBit
=============================================================================

------------------------ MODULE ByteSliceScan_proofs -------------------------
(***************************************************************************)
(* ByteSliceColumnBlock, proved for every size of byte, register, word,    *)
(* block and code.  First the codec: comparing the slices of two tuples    *)
(* from the most significant one, as signed bytes, orders the codes they   *)
(* hold.  Then Scan, with and without early stop, whatever the blocks and  *)
(* the bit vector hold: the inductive invariant IInv, and from it the      *)
(* result of the call, the soundness of early stop and the bounds of the   *)
(* accesses.                                                               *)
(***************************************************************************)
EXTENDS ByteSliceScan, BitVectorBlock_proofs

-----------------------------------------------------------------------------
(* Arithmetic of division, used below on the weights of the slices.        *)

LEMMA DivMod ==
  ASSUME NEW a \in Nat, NEW b \in Nat \ {0}
  PROVE  /\ a \div b \in Nat /\ a % b \in 0 .. b - 1
         /\ a = b * (a \div b) + (a % b)
  OBVIOUS

LEMMA DivModUnique ==
  ASSUME NEW b \in Nat \ {0}, NEW q \in Nat, NEW r \in 0 .. b - 1
  PROVE  /\ (b * q + r) \div b = q
         /\ (b * q + r) % b = r
  OBVIOUS

LEMMA DivDiv ==
  ASSUME NEW a \in Nat, NEW b \in Nat \ {0}, NEW c \in Nat \ {0}
  PROVE  (a \div b) \div c = a \div (b * c)
<1> DEFINE q == a \div b
           s == q \div c
           t == q % c
           r == a % b
<1>1. q \in Nat /\ r \in 0 .. b - 1 /\ a = b * q + r
  BY DivMod
<1>2. s \in Nat /\ t \in 0 .. c - 1 /\ q = c * s + t
  BY <1>1, DivMod
<1> HIDE DEF q, s, t, r
<1>3. b * c \in Nat \ {0}
  OBVIOUS
<1>4. b * t + r \in 0 .. b * c - 1
  <2>1. b * t + r \in Nat
    BY <1>1, <1>2
  <2>2. b * t <= b * (c - 1)
    BY <1>2
  <2>3. b * t + r <= b * c - 1
    BY <2>2, <1>1, <1>2
  <2> QED BY <2>1, <2>3, <1>3
<1>5. a = (b * c) * s + (b * t + r)
  <2>1. b * q = (b * c) * s + b * t
    BY <1>2
  <2> QED BY <2>1, <1>1, <1>2
<1>6. a \div (b * c) = s
  BY <1>3, <1>4, <1>5, <1>2, DivModUnique
<1> QED BY <1>6 DEF q, s

(* Comparing by a more significant part first.                             *)
LEMMA Horner ==
  ASSUME NEW m \in Nat \ {0}, NEW x \in Nat, NEW y \in Nat,
         NEW a \in 0 .. m - 1, NEW b \in 0 .. m - 1
  PROVE  /\ x * m + a < y * m + b <=> (x < y \/ (x = y /\ a < b))
         /\ x * m + a = y * m + b <=> (x = y /\ a = b)
  OBVIOUS

-----------------------------------------------------------------------------
(* Bytes.                                                                  *)

LEMMA ByteRangePositive == ByteRange \in Nat \ {0} /\ ByteHalf \in Nat \ {0}
  BY ByteAssumption DEF ByteRange

(* Flipping the top bit turns the unsigned order into the signed one.      *)
LEMMA FlipOrder ==
  ASSUME NEW u \in Byte, NEW v \in Byte
  PROVE  /\ FLIP(u) \in Byte
         /\ FLIP(FLIP(u)) = u
         /\ SignedByte(FLIP(u)) < SignedByte(FLIP(v)) <=> u < v
         /\ SignedByte(FLIP(u)) > SignedByte(FLIP(v)) <=> u > v
         /\ FLIP(u) = FLIP(v) <=> u = v
<1>1. \A w \in Byte : FLIP(w) = IF w < ByteHalf THEN w + ByteHalf ELSE w - ByteHalf
  <2> TAKE w \in Byte
  <2>1. CASE w < ByteHalf
    BY <2>1, ByteAssumption DEF FLIP, Byte, ByteRange
  <2>2. CASE ~(w < ByteHalf)
    <3>1. w + ByteHalf = ByteRange * 1 + (w - ByteHalf)
      BY ByteAssumption DEF Byte, ByteRange
    <3>2. w - ByteHalf \in 0 .. ByteRange - 1
      BY <2>2, ByteAssumption DEF Byte, ByteRange
    <3>3. (ByteRange * 1 + (w - ByteHalf)) % ByteRange = w - ByteHalf
      BY <3>2, 1 \in Nat, DivModUnique, ByteRangePositive
    <3> QED BY <3>1, <3>3, <2>2 DEF FLIP
  <2> QED BY <2>1, <2>2
<1>2. \A w \in Byte : FLIP(w) \in Byte
  BY <1>1, ByteAssumption DEF Byte, ByteRange
<1>3. \A w \in Byte : SignedByte(FLIP(w)) = w - ByteHalf
  BY <1>1, ByteAssumption DEF Byte, ByteRange, SignedByte
<1>4. FLIP(FLIP(u)) = u
  BY <1>1, <1>2, ByteAssumption DEF Byte, ByteRange
<1> QED BY <1>1, <1>2, <1>3, <1>4, ByteAssumption DEF Byte, ByteRange

-----------------------------------------------------------------------------
(* Weights of the slices.                                                  *)

LEMMA WeightValues ==
  /\ Weight(0) = 1
  /\ Weight(1) = ByteRange
  /\ Weight(2) = ByteRange * ByteRange
  /\ Weight(3) = ByteRange * ByteRange * ByteRange
  /\ Weight(4) = ByteRange * ByteRange * ByteRange * ByteRange
  BY DEF Weight

LEMMA WeightStep ==
  ASSUME NEW k \in 0 .. 3
  PROVE  /\ Weight(k) \in Nat \ {0} /\ Weight(k + 1) \in Nat \ {0}
         /\ Weight(k + 1) = Weight(k) * ByteRange
<1>1. k = 0 \/ k = 1 \/ k = 2 \/ k = 3
  OBVIOUS
<1>2. Weight(k + 1) = Weight(k) * ByteRange
  BY <1>1, WeightValues, ByteRangePositive
<1>3. /\ Weight(0) \in Nat \ {0}
      /\ Weight(1) \in Nat \ {0}
      /\ Weight(2) \in Nat \ {0}
      /\ Weight(3) \in Nat \ {0}
      /\ Weight(4) \in Nat \ {0}
  BY WeightValues, ByteRangePositive
<1> QED BY <1>1, <1>2, <1>3

LEMMA WeightSum ==
  ASSUME NEW j \in 0 .. 4, NEW k \in 0 .. 4, j + k <= 4
  PROVE  Weight(j + k) = Weight(j) * Weight(k)
<1>1. \A t \in 0 .. 4 : Weight(t) \in Nat
  BY WeightStep
<1>2. CASE j = 0
  BY <1>2, <1>1, WeightValues
<1>3. CASE j = 1
  BY <1>3, <1>1, WeightValues, ByteRangePositive
<1>4. CASE j = 2
  BY <1>4, <1>1, WeightValues, ByteRangePositive
<1>5. CASE j = 3
  BY <1>5, <1>1, WeightValues, ByteRangePositive
<1>6. CASE j = 4
  BY <1>6, <1>1, WeightValues, ByteRangePositive
<1> QED BY <1>2, <1>3, <1>4, <1>5, <1>6

-----------------------------------------------------------------------------
(* Padded codes and their slices.                                          *)

(* What the slices of a stored value hold: its low BIT_WIDTH bits, padded. *)
Padded(v) == (v % CodeRange) * PadFactor

(* The number that the k most significant slices of a padded code make.    *)
Prefix(z, k) == z \div Weight(kNumBytesPerCode - k)

LEMMA CodeRangeExact ==
  /\ CodeRange \in Nat \ {0}
  /\ Weight(kNumBytesPerCode) = CodeRange * PadFactor
  /\ Weight(kNumBytesPerCode) \in Nat \ {0}
<1> DEFINE n == kNumBytesPerCode
<1>1. PICK k \in 1 .. ByteHalf : ByteHalf = k * PadFactor
  BY CodeAssumption
<1>2. n - 1 \in 0 .. 3 /\ n \in 0 .. 4
  BY CodeAssumption
<1>3. /\ Weight(n - 1) \in Nat \ {0}
      /\ Weight(n) \in Nat \ {0}
      /\ Weight(n) = Weight(n - 1) * ByteRange
  BY <1>2, WeightStep, CodeAssumption
<1> DEFINE q == Weight(n - 1) * (2 * k)
<1>4. q \in Nat \ {0}
  BY <1>3
<1>5. Weight(n) = PadFactor * q
  BY <1>1, <1>3, CodeAssumption DEF ByteRange
<1>6. (PadFactor * q + 0) \div PadFactor = q
  BY <1>4, CodeAssumption, 0 \in 0 .. PadFactor - 1, DivModUnique
<1>7. CodeRange = q
  BY <1>5, <1>6, <1>4, CodeAssumption DEF CodeRange
<1> QED BY <1>3, <1>4, <1>5, <1>7, CodeAssumption

LEMMA PaddedRange ==
  ASSUME NEW v \in Nat
  PROVE  Padded(v) \in 0 .. Weight(kNumBytesPerCode) - 1
<1>1. v % CodeRange \in 0 .. CodeRange - 1
  BY CodeRangeExact
<1>2. (v % CodeRange) * PadFactor <= (CodeRange - 1) * PadFactor
  BY <1>1, CodeRangeExact, CodeAssumption
<1> QED BY <1>1, <1>2, CodeRangeExact, CodeAssumption DEF Padded

(* Padding keeps the order of the codes.                                   *)
LEMMA PaddedOrder ==
  ASSUME NEW v \in Nat, NEW w \in Nat
  PROVE  /\ Padded(v) < Padded(w) <=> v % CodeRange < w % CodeRange
         /\ Padded(v) > Padded(w) <=> v % CodeRange > w % CodeRange
         /\ Padded(v) = Padded(w) <=> v % CodeRange = w % CodeRange
<1>1. v % CodeRange \in Nat /\ w % CodeRange \in Nat
  BY CodeRangeExact
<1> QED BY <1>1, CodeAssumption DEF Padded

(* The bytes that SetTuple keeps are those of the padded code: the casts   *)
(* drop what kCodeMask would have dropped.                                 *)
LEMMA ByteOfPadded ==
  ASSUME NEW v \in Nat, NEW b \in Slice
  PROVE  /\ ByteOf(v * PadFactor, b) = ByteOf(Padded(v), b)
         /\ ByteOf(Padded(v), b) \in Byte
<1> DEFINE n == kNumBytesPerCode
           k == n - 1 - b
           q == v \div CodeRange
           z == Padded(v)
           d == z \div Weight(k)
           r == z % Weight(k)
<1>1. k \in 0 .. 3 /\ b \in 0 .. 3 /\ n \in 0 .. 4
  BY CodeAssumption DEF Slice
<1>2. /\ Weight(k) \in Nat \ {0} /\ Weight(k + 1) \in Nat \ {0}
      /\ Weight(k + 1) = Weight(k) * ByteRange
      /\ Weight(b) \in Nat \ {0}
  BY <1>1, WeightStep
<1>3. Weight(n) = Weight(k + 1) * Weight(b)
  <2>1. (k + 1) + b = n /\ k + 1 \in 0 .. 4 /\ b \in 0 .. 4
    BY <1>1
  <2> QED BY <2>1, <1>1, WeightSum
<1>4. q \in Nat /\ v % CodeRange \in Nat /\ v = CodeRange * q + (v % CodeRange)
  <2>1. CodeRange \in Nat \ {0}
    BY CodeRangeExact
  <2>2. v % CodeRange \in 0 .. CodeRange - 1
    BY <2>1, DivMod
  <2>3. v \div CodeRange \in Nat /\ v = CodeRange * (v \div CodeRange) + (v % CodeRange)
    BY <2>1, DivMod
  <2> QED BY <2>1, <2>2, <2>3
<1>5. z \in Nat
  BY PaddedRange, CodeRangeExact
<1>6. v * PadFactor = Weight(n) * q + z
  <2> DEFINE r0 == v % CodeRange
  <2> HIDE DEF q, r0
  <2>1. (CodeRange * q + r0) * PadFactor = (CodeRange * PadFactor) * q + r0 * PadFactor
    BY <1>4, CodeRangeExact, CodeAssumption DEF r0
  <2> QED BY <2>1, <1>4, CodeRangeExact DEF Padded, r0
<1>7. d \in Nat /\ r \in 0 .. Weight(k) - 1 /\ z = Weight(k) * d + r
  BY <1>2, <1>5, DivMod
<1> DEFINE m == ByteRange * (Weight(b) * q) + d
<1> HIDE DEF q, z, d, r, k, n
<1>8. Weight(b) * q \in Nat
  BY <1>2, <1>4
<1>9. m \in Nat
  BY <1>7, <1>8, ByteRangePositive
<1>10. v * PadFactor = Weight(k) * m + r
  <2>1. Weight(n) * q = Weight(k) * (ByteRange * (Weight(b) * q))
    BY <1>2, <1>3, <1>4, ByteRangePositive
  <2>2. Weight(k) * m = Weight(k) * (ByteRange * (Weight(b) * q)) + Weight(k) * d
    BY <1>2, <1>7, <1>8, ByteRangePositive
  <2>3. Weight(n) * q \in Nat /\ Weight(k) * d \in Nat /\ r \in Nat
    BY <1>2, <1>3, <1>4, <1>7
  <2> QED BY <2>1, <2>2, <2>3, <1>6, <1>7
<1> HIDE DEF m
<1>11. (v * PadFactor) \div Weight(k) = m
  BY <1>2, <1>7, <1>9, <1>10, DivModUnique
<1>12. /\ d \div ByteRange \in Nat /\ d % ByteRange \in 0 .. ByteRange - 1
       /\ d = ByteRange * (d \div ByteRange) + (d % ByteRange)
  BY <1>7, ByteRangePositive, DivMod
<1>13. m % ByteRange = d % ByteRange
  <2>1. m = ByteRange * (Weight(b) * q + (d \div ByteRange)) + (d % ByteRange)
    BY <1>8, <1>12, ByteRangePositive DEF m
  <2>2. Weight(b) * q + (d \div ByteRange) \in Nat
    BY <1>8, <1>12
  <2> QED BY <2>1, <2>2, <1>12, ByteRangePositive, DivModUnique
<1> QED BY <1>11, <1>12, <1>13 DEF ByteOf, Byte, d, z, k, n

(* A prefix of the slices grows by one slice.                              *)
LEMMA PrefixStep ==
  ASSUME NEW v \in Nat, NEW b \in Slice
  PROVE  /\ Prefix(Padded(v), b) \in Nat
         /\ Prefix(Padded(v), b + 1)
              = Prefix(Padded(v), b) * ByteRange + ByteOf(Padded(v), b)
<1> DEFINE n == kNumBytesPerCode
           k == n - 1 - b
           z == Padded(v)
           d == z \div Weight(k)
<1>1. k \in 0 .. 3 /\ n - b = k + 1 /\ n - (b + 1) = k
  BY CodeAssumption DEF Slice
<1>2. /\ Weight(k) \in Nat \ {0} /\ Weight(k + 1) \in Nat \ {0}
      /\ Weight(k + 1) = Weight(k) * ByteRange
  BY <1>1, WeightStep
<1>3. z \in Nat
  BY PaddedRange, CodeRangeExact
<1>4. d \in Nat
  BY <1>2, <1>3, DivMod
<1>5. /\ d \div ByteRange \in Nat
      /\ d = (d \div ByteRange) * ByteRange + (d % ByteRange)
  <2> HIDE DEF d
  <2>1. /\ d \div ByteRange \in Nat
        /\ d = ByteRange * (d \div ByteRange) + (d % ByteRange)
    BY <1>4, ByteRangePositive, DivMod
  <2>2. ByteRange * (d \div ByteRange) = (d \div ByteRange) * ByteRange
    BY <2>1, ByteRangePositive
  <2> QED BY <2>1, <2>2
<1>6. d \div ByteRange = z \div Weight(k + 1)
  BY <1>2, <1>3, ByteRangePositive, DivDiv
<1> QED BY <1>1, <1>5, <1>6 DEF Prefix, ByteOf

LEMMA PrefixEnds ==
  ASSUME NEW v \in Nat
  PROVE  /\ Prefix(Padded(v), 0) = 0
         /\ Prefix(Padded(v), kNumBytesPerCode) = Padded(v)
<1>1. Padded(v) \div Weight(kNumBytesPerCode) = 0
  BY PaddedRange, CodeRangeExact
<1>2. Padded(v) \div 1 = Padded(v)
  BY PaddedRange, CodeRangeExact
<1> QED BY <1>1, <1>2, WeightValues, CodeAssumption DEF Prefix

-----------------------------------------------------------------------------
(* The slices compare as the codes do.                                     *)

(* The first k slices of two tuples are equal, or the first that differs   *)
(* is smaller, or greater, as signed bytes.                                *)
SameFirst(s, t, k) == \A a \in 0 .. k - 1 : s[a] = t[a]
LessFirst(s, t, k) ==
  \E a \in 0 .. k - 1 : SameFirst(s, t, a) /\ SignedByte(s[a]) < SignedByte(t[a])
GreaterFirst(s, t, k) ==
  \E a \in 0 .. k - 1 : SameFirst(s, t, a) /\ SignedByte(s[a]) > SignedByte(t[a])

(* s holds the slices of the code v, padded and flipped.                   *)
Holds(s, v) == \A a \in Slice : s[a] = FLIP(ByteOf(Padded(v), a))

LEMMA FirstStep ==
  ASSUME NEW s, NEW t, NEW k \in Nat
  PROVE  /\ SameFirst(s, t, 0) /\ ~LessFirst(s, t, 0) /\ ~GreaterFirst(s, t, 0)
         /\ SameFirst(s, t, k + 1) <=> SameFirst(s, t, k) /\ s[k] = t[k]
         /\ LessFirst(s, t, k + 1) <=>
              \/ LessFirst(s, t, k)
              \/ SameFirst(s, t, k) /\ SignedByte(s[k]) < SignedByte(t[k])
         /\ GreaterFirst(s, t, k + 1) <=>
              \/ GreaterFirst(s, t, k)
              \/ SameFirst(s, t, k) /\ SignedByte(s[k]) > SignedByte(t[k])
<1>1. 0 .. (k + 1) - 1 = (0 .. k - 1) \cup {k}
  OBVIOUS
<1>2. 0 .. 0 - 1 = {}
  OBVIOUS
<1> QED BY <1>1, <1>2, Zenon DEF SameFirst, LessFirst, GreaterFirst

(* What the first k slices decide is the order of the numbers they make.   *)
LEMMA PrefixOrder ==
  ASSUME NEW v \in Nat, NEW w \in Nat, NEW s, NEW t, Holds(s, v), Holds(t, w),
         NEW k \in 0 .. kNumBytesPerCode
  PROVE  /\ SameFirst(s, t, k) <=> Prefix(Padded(v), k) = Prefix(Padded(w), k)
         /\ LessFirst(s, t, k) <=> Prefix(Padded(v), k) < Prefix(Padded(w), k)
         /\ GreaterFirst(s, t, k) <=> Prefix(Padded(v), k) > Prefix(Padded(w), k)
<1> DEFINE V(c) == Prefix(Padded(v), c)
           W(c) == Prefix(Padded(w), c)
           P(c) == /\ SameFirst(s, t, c) <=> V(c) = W(c)
                   /\ LessFirst(s, t, c) <=> V(c) < W(c)
                   /\ GreaterFirst(s, t, c) <=> V(c) > W(c)
<1>1. P(0)
  BY FirstStep, PrefixEnds
<1>2. ASSUME NEW c \in Slice, P(c)
      PROVE  P(c + 1)
  <2> DEFINE x == ByteOf(Padded(v), c)
             y == ByteOf(Padded(w), c)
  <2>1. x \in Byte /\ y \in Byte
    BY ByteOfPadded
  <2>2. s[c] = FLIP(x) /\ t[c] = FLIP(y)
    BY DEF Holds
  <2>3. /\ V(c) \in Nat /\ V(c + 1) = V(c) * ByteRange + x
        /\ W(c) \in Nat /\ W(c + 1) = W(c) * ByteRange + y
    BY PrefixStep
  <2>4. /\ V(c + 1) < W(c + 1) <=> V(c) < W(c) \/ (V(c) = W(c) /\ x < y)
        /\ W(c + 1) < V(c + 1) <=> W(c) < V(c) \/ (W(c) = V(c) /\ y < x)
        /\ V(c + 1) = W(c + 1) <=> V(c) = W(c) /\ x = y
    <3> HIDE DEF V, W, x, y
    <3>1. x \in 0 .. ByteRange - 1 /\ y \in 0 .. ByteRange - 1
      BY <2>1 DEF Byte
    <3>2. /\ V(c) \in Nat /\ W(c) \in Nat /\ x \in Nat /\ y \in Nat
          /\ x < ByteRange /\ y < ByteRange /\ ByteRange \in Nat \ {0}
      BY <2>3, <3>1, ByteRangePositive
    <3>3. /\ (V(c + 1) < W(c + 1)) <=> (V(c) < W(c) \/ (V(c) = W(c) /\ x < y))
          /\ (V(c + 1) = W(c + 1)) <=> (V(c) = W(c) /\ x = y)
      BY <2>3, <3>2
    <3>4. (W(c + 1) < V(c + 1)) <=> (W(c) < V(c) \/ (W(c) = V(c) /\ y < x))
      BY <2>3, <3>2
    <3> QED BY <3>3, <3>4
  <2>5. /\ s[c] = t[c] <=> x = y
        /\ SignedByte(s[c]) < SignedByte(t[c]) <=> x < y
        /\ SignedByte(s[c]) > SignedByte(t[c]) <=> x > y
    BY <2>1, <2>2, FlipOrder
  <2>6. c \in Nat
    BY DEF Slice
  <2>7. /\ V(c + 1) \in Nat /\ W(c + 1) \in Nat /\ x \in Nat /\ y \in Nat
    <3>1. x \in Nat /\ y \in Nat
      BY <2>1 DEF Byte
    <3> HIDE DEF V, W, x, y
    <3> QED BY <3>1, <2>3, ByteRangePositive
  <2>8. /\ SameFirst(s, t, c + 1) <=> SameFirst(s, t, c) /\ s[c] = t[c]
        /\ LessFirst(s, t, c + 1) <=>
             \/ LessFirst(s, t, c)
             \/ SameFirst(s, t, c) /\ SignedByte(s[c]) < SignedByte(t[c])
        /\ GreaterFirst(s, t, c + 1) <=>
             \/ GreaterFirst(s, t, c)
             \/ SameFirst(s, t, c) /\ SignedByte(s[c]) > SignedByte(t[c])
    BY <2>6, FirstStep
  <2>9. /\ V(c) > W(c) <=> W(c) < V(c)
        /\ V(c + 1) > W(c + 1) <=> W(c + 1) < V(c + 1)
        /\ x > y <=> y < x
    <3> HIDE DEF V, W, x, y
    <3> QED BY <2>3, <2>7
  <2> HIDE DEF V, W, x, y
  <2> QED BY <1>2, <2>4, <2>5, <2>8, <2>9
<1> HIDE DEF P
<1>3. /\ 1 <= kNumBytesPerCode => P(1)
      /\ 2 <= kNumBytesPerCode => P(2)
      /\ 3 <= kNumBytesPerCode => P(3)
      /\ 4 <= kNumBytesPerCode => P(4)
  <2>1. 1 <= kNumBytesPerCode => P(1)
    BY <1>1, <1>2, CodeAssumption, 0 + 1 = 1 DEF Slice
  <2>2. 2 <= kNumBytesPerCode => P(2)
    BY <2>1, <1>2, CodeAssumption, 1 + 1 = 2 DEF Slice
  <2>3. 3 <= kNumBytesPerCode => P(3)
    BY <2>2, <1>2, CodeAssumption, 2 + 1 = 3 DEF Slice
  <2>4. 4 <= kNumBytesPerCode => P(4)
    BY <2>3, <1>2, CodeAssumption, 3 + 1 = 4 DEF Slice
  <2> QED BY <2>1, <2>2, <2>3, <2>4
<1>4. k = 0 \/ k = 1 \/ k = 2 \/ k = 3 \/ k = 4
  BY CodeAssumption
<1>5. P(k)
  BY <1>1, <1>3, <1>4, CodeAssumption
<1> QED BY <1>5 DEF P

(* Comparing two tuples slice by slice, from the most significant one and  *)
(* as signed bytes, orders the codes that the slices hold: what the kernel *)
(* of every ByteSlice scan relies on.                                      *)
THEOREM SliceOrder ==
  ASSUME NEW v \in Nat, NEW w \in Nat, NEW s, NEW t, Holds(s, v), Holds(t, w)
  PROVE  LET n == kNumBytesPerCode IN
         /\ SameFirst(s, t, n) <=> v % CodeRange = w % CodeRange
         /\ LessFirst(s, t, n) <=> v % CodeRange < w % CodeRange
         /\ GreaterFirst(s, t, n) <=> v % CodeRange > w % CodeRange
<1>1. kNumBytesPerCode \in 0 .. kNumBytesPerCode
  BY CodeAssumption
<1> QED BY <1>1, PrefixOrder, PrefixEnds, PaddedOrder

(* SetTuple and the preparation of a literal both leave slices that hold   *)
(* the low BIT_WIDTH bits: one drops the others by casts, one by kCodeMask.*)
THEOREM CodecHolds ==
  ASSUME NEW v \in Nat
  PROVE  Holds(SetTuple(v), v) /\ Holds(LiteralSlices(v), v)
  BY ByteOfPadded DEF Holds, SetTuple, LiteralSlices, Padded

(* GetTuple gives back what SetTuple was given, for every bit width: the   *)
(* value, less what it has above BIT_WIDTH bits.                           *)
THEOREM RoundTrip ==
  ASSUME NEW v \in Nat
  PROVE  GetTuple(SetTuple(v)) = v % CodeRange
<1> DEFINE n == kNumBytesPerCode
           z == Padded(v)
           g(b) == ByteOf(z, b)
           f(b) == FLIP(SetTuple(v)[b])
<1>1. \A b \in Slice : f(b) = g(b) /\ g(b) \in Nat
  <2> TAKE b \in Slice
  <2>1. ByteOf(v * PadFactor, b) = g(b) /\ g(b) \in Byte
    BY ByteOfPadded
  <2>2. SetTuple(v)[b] = FLIP(g(b))
    BY <2>1 DEF SetTuple
  <2>3. FLIP(FLIP(g(b))) = g(b)
    BY <2>1, FlipOrder
  <2>4. Byte \subseteq Nat
    BY ByteRangePositive DEF Byte
  <2> QED BY <2>1, <2>2, <2>3, <2>4
<1> DEFINE p(k) == Prefix(z, k)
<1>2. p(0) = 0 /\ p(n) = z
  BY PrefixEnds
<1>3. \A b \in Slice : p(b) \in Nat /\ p(b + 1) = p(b) * ByteRange + g(b)
  BY PrefixStep
<1> HIDE DEF f, g, p
<1>4. /\ n = 1 => z = g(0)
      /\ n = 2 => z = g(0) * Weight(1) + g(1)
      /\ n = 3 => z = g(0) * Weight(2) + g(1) * Weight(1) + g(2)
      /\ n = 4 => z = g(0) * Weight(3) + g(1) * Weight(2) + g(2) * Weight(1) + g(3)
  <2>1. n = 1 => z = g(0)
    BY <1>1, <1>2, <1>3, ByteRangePositive, 0 + 1 = 1 DEF Slice
  <2>2. n = 2 => z = g(0) * Weight(1) + g(1)
    BY <1>1, <1>2, <1>3, ByteRangePositive, WeightValues, 0 + 1 = 1, 1 + 1 = 2 DEF Slice
  <2>3. n = 3 => z = g(0) * Weight(2) + g(1) * Weight(1) + g(2)
    BY <1>1, <1>2, <1>3, ByteRangePositive, WeightValues,
       0 + 1 = 1, 1 + 1 = 2, 2 + 1 = 3 DEF Slice
  <2>4. n = 4 => z = g(0) * Weight(3) + g(1) * Weight(2) + g(2) * Weight(1) + g(3)
    BY <1>1, <1>2, <1>3, ByteRangePositive, WeightValues,
       0 + 1 = 1, 1 + 1 = 2, 2 + 1 = 3, 3 + 1 = 4 DEF Slice
  <2> QED BY <2>1, <2>2, <2>3, <2>4
<1>5. Joined(SetTuple(v)) = z
  <2>1. /\ f(0) = g(0)
        /\ n >= 2 => f(1) = g(1)
        /\ n >= 3 => f(2) = g(2)
        /\ n >= 4 => f(3) = g(3)
    BY <1>1, CodeAssumption DEF Slice
  <2>2. n = 1 \/ n = 2 \/ n = 3 \/ n = 4
    BY CodeAssumption
  <2>3. /\ n = 1 => Joined(SetTuple(v)) = f(0)
        /\ n = 2 => Joined(SetTuple(v)) = f(0) * Weight(1) + f(1)
        /\ n = 3 => Joined(SetTuple(v)) = f(0) * Weight(2) + f(1) * Weight(1) + f(2)
        /\ n = 4 => Joined(SetTuple(v)) =
             f(0) * Weight(3) + f(1) * Weight(2) + f(2) * Weight(1) + f(3)
    BY DEF Joined, f
  <2> HIDE DEF n, z
  <2>4. CASE n = 1
    BY <2>4, <2>1, <2>3, <1>4
  <2>5. CASE n = 2
    BY <2>5, <2>1, <2>3, <1>4
  <2>6. CASE n = 3
    BY <2>6, <2>1, <2>3, <1>4
  <2>7. CASE n = 4
    BY <2>7, <2>1, <2>3, <1>4
  <2> QED BY <2>2, <2>4, <2>5, <2>6, <2>7
<1>6. z \div PadFactor = v % CodeRange
  <2>1. v % CodeRange \in Nat
    BY CodeRangeExact
  <2>2. PadFactor \in Nat \ {0}
    BY CodeAssumption
  <2>3. (PadFactor * (v % CodeRange) + 0) \div PadFactor = v % CodeRange
    BY <2>1, <2>2, DivModUnique
  <2>4. z = PadFactor * (v % CodeRange) + 0
    BY <2>1, <2>2 DEF Padded
  <2> QED BY <2>3, <2>4
<1> QED BY <1>5, <1>6 DEF GetTuple

-----------------------------------------------------------------------------
(* Where the loops can be.                                                 *)

LEMMA LaneSizes ==
  /\ kNumLanes \in Nat \ {0} /\ kNumWordBits \in Nat \ {0}
  /\ \E k \in Nat : kNumWordBits = k * kNumLanes
  /\ \E k \in Nat : kNumTuplesPerBlock = k * kNumWordBits
<1>1. \E k \in Nat : kNumWordBits = k * kNumLanes
  BY RegisterAssumption, BitVectorAssumption
<1>2. PICK k \in 1 .. kNumTuplesPerBlock : kNumTuplesPerBlock = k * kNumAvxBits
  BY BitVectorAssumption
<1>3. PICK j \in 1 .. kNumAvxBits : kNumAvxBits = j * kNumWordBits
  BY BitVectorAssumption
<1>4. k * j \in Nat /\ kNumTuplesPerBlock = (k * j) * kNumWordBits
  BY <1>2, <1>3, BitVectorAssumption
<1> QED BY <1>1, <1>4, LanesAssumption, BitVectorAssumption

(* A multiple below a larger multiple leaves room for one more.            *)
LEMMA RoomForOne ==
  ASSUME NEW m \in Nat \ {0}, NEW a \in Nat, NEW b \in Nat, a * m < b * m
  PROVE  a * m + m <= b * m
<1>1. a < b
  OBVIOUS
<1>2. (a + 1) * m <= b * m
  BY <1>1
<1> QED BY <1>2

LEMMA Bounds ==
  ASSUME TypeOK, InputsOK, LoopsOK
  PROVE  /\ call.num \in 1 .. kNumTuplesPerBlock
         /\ offset < call.num =>
              /\ offset + kNumWordBits <= kNumTuplesPerBlock
              /\ offset + kNumWordBits <= NumWordUnits(call.num) * kNumWordBits
              /\ bv_word_id < NumWordUnits(call.num)
         /\ i < kNumWordBits => i + kNumLanes <= kNumWordBits
<1>1. call.num \in 1 .. kNumTuplesPerBlock
  BY InputAssumption DEF InputsOK
<1>2. bv_word_id \in Nat /\ offset = bv_word_id * kNumWordBits
  BY DEF TypeOK, LoopsOK
<1>3. ASSUME offset < call.num
      PROVE  /\ offset + kNumWordBits <= kNumTuplesPerBlock
             /\ offset + kNumWordBits <= NumWordUnits(call.num) * kNumWordBits
             /\ bv_word_id < NumWordUnits(call.num)
  <2>1. PICK k \in Nat : kNumTuplesPerBlock = k * kNumWordBits
    BY LaneSizes
  <2>2. offset + kNumWordBits <= kNumTuplesPerBlock
    <3>1. bv_word_id * kNumWordBits < k * kNumWordBits
      BY <1>1, <1>2, <1>3, <2>1, LaneSizes
    <3> QED BY <3>1, <2>1, <1>2, LaneSizes, RoomForOne
  <2>3. NumWordUnits(call.num) \in Nat /\ call.num <= NumWordUnits(call.num) * kNumWordBits
    BY <1>1, UnitsCover
  <2>4. bv_word_id * kNumWordBits < NumWordUnits(call.num) * kNumWordBits
    BY <1>1, <1>2, <1>3, <2>3, LaneSizes
  <2>5. offset + kNumWordBits <= NumWordUnits(call.num) * kNumWordBits
    BY <2>3, <2>4, <1>2, LaneSizes, RoomForOne
  <2>6. bv_word_id < NumWordUnits(call.num)
    <3> DEFINE u == NumWordUnits(call.num)
    <3> HIDE DEF u
    <3> QED BY <2>3, <2>4, <1>2, LaneSizes DEF u
  <2> QED BY <2>2, <2>5, <2>6
<1>4. ASSUME i < kNumWordBits
      PROVE  i + kNumLanes <= kNumWordBits
  <2>1. PICK k \in Nat : kNumWordBits = k * kNumLanes
    BY LaneSizes
  <2>2. PICK j \in Nat : i = j * kNumLanes
    BY DEF LoopsOK, TypeOK
  <2>3. j * kNumLanes < k * kNumLanes
    BY <1>4, <2>1, <2>2
  <2> QED BY <2>1, <2>2, <2>3, LaneSizes, RoomForOne
<1> QED BY <1>1, <1>3, <1>4

(* The tuples of the word being scanned are tuples of the block.           *)
LEMMA WordPositions ==
  ASSUME TypeOK, InputsOK, LoopsOK, pc \in {"group", "slice"}
  PROVE  /\ \A b \in WordBit : offset + b \in Position
         /\ pc = "slice" => \A l \in Lane : i + l \in WordBit /\ offset + i + l \in Position
<1>1. offset < call.num /\ offset \in Nat /\ i \in Nat
  BY DEF LoopsOK, TypeOK
<1>2. offset + kNumWordBits <= kNumTuplesPerBlock
  BY <1>1, Bounds
<1>3. \A b \in WordBit : offset + b \in Position
  BY <1>1, <1>2, LaneSizes, BitVectorAssumption DEF WordBit, Position
<1>4. pc = "slice" => i + kNumLanes <= kNumWordBits
  BY Bounds DEF LoopsOK
<1>5. ASSUME pc = "slice", NEW l \in Lane
      PROVE  i + l \in WordBit /\ offset + i + l \in Position
  <2>1. i + l \in WordBit
    BY <1>1, <1>4, <1>5, LaneSizes DEF WordBit, Lane
  <2>2. offset + (i + l) \in Position
    BY <2>1, <1>3
  <2> QED BY <2>1, <2>2, <1>1 DEF Lane
<1> QED BY <1>3, <1>5

-----------------------------------------------------------------------------
(* What the slices of a tuple decide.                                      *)

Bytes(slices, p) == [a \in Slice |-> slices[a][p]]

LEMMA SlicesHold ==
  ASSUME InputsOK, NEW p \in Position
  PROVE  /\ call.codes[p] \in Nat /\ call.operand[p] \in Nat
         /\ Holds(Bytes(data_, p), call.codes[p])
         /\ Holds(Bytes(other, p), call.operand[p])
<1>1. call.codes[p] \in Nat /\ call.operand[p] \in Nat
  BY DEF InputsOK
<1>2. /\ Holds(SetTuple(call.codes[p]), call.codes[p])
      /\ Holds(SetTuple(call.operand[p]), call.operand[p])
      /\ Holds(LiteralSlices(call.operand[p]), call.operand[p])
  BY <1>1, CodecHolds
<1>3. \A a \in Slice : data_[a][p] = SetTuple(call.codes[p])[a]
  BY DEF InputsOK, BulkLoadArray
<1>4. \/ \A a \in Slice : other[a][p] = SetTuple(call.operand[p])[a]
      \/ \A a \in Slice : other[a][p] = LiteralSlices(call.operand[p])[a]
  <2>1. CASE other = BulkLoadArray(call.operand)
    BY <2>1 DEF BulkLoadArray
  <2>2. CASE other = [b \in Slice |-> [q \in Position |-> LiteralSlices(call.operand[q])[b]]]
    BY <2>2
  <2> QED BY <2>1, <2>2 DEF InputsOK
<1> QED BY <1>1, <1>2, <1>3, <1>4 DEF Holds, Bytes

LEMMA AboveIsFirst ==
  ASSUME NEW p \in Position, NEW k \in 0 .. kNumBytesPerCode
  PROVE  /\ SameAbove(k, p) <=> SameFirst(Bytes(data_, p), Bytes(other, p), k)
         /\ LessAbove(k, p) <=> LessFirst(Bytes(data_, p), Bytes(other, p), k)
         /\ GreaterAbove(k, p) <=> GreaterFirst(Bytes(data_, p), Bytes(other, p), k)
<1>1. \A a \in 0 .. k - 1 : a \in Slice
  BY CodeAssumption DEF Slice
<1>2. \A a \in 0 .. k - 1 : \A c \in 0 .. a - 1 : c \in Slice
  BY CodeAssumption DEF Slice
<1>3. \A a \in Slice : Bytes(data_, p)[a] = data_[a][p] /\ Bytes(other, p)[a] = other[a][p]
  BY DEF Bytes
<1>4. \A a \in 0 .. k - 1 :
        SameAbove(a, p) <=> SameFirst(Bytes(data_, p), Bytes(other, p), a)
  BY <1>2, <1>3 DEF SameAbove, SameFirst
<1> QED BY <1>1, <1>3, <1>4 DEF SameAbove, LessAbove, GreaterAbove,
        SameFirst, LessFirst, GreaterFirst

(* All the slices of a tuple give the comparison's answer.                 *)
LEMMA SlicesAnswer ==
  ASSUME InputsOK, NEW p \in Position
  PROVE  Answer(p) <=>
           LET n == kNumBytesPerCode IN
           CASE call.comparator = "kEqual"        -> SameAbove(n, p)
             [] call.comparator = "kInequal"      -> ~SameAbove(n, p)
             [] call.comparator = "kLess"         -> LessAbove(n, p)
             [] call.comparator = "kGreater"      -> GreaterAbove(n, p)
             [] call.comparator = "kLessEqual"    -> LessAbove(n, p) \/ SameAbove(n, p)
             [] call.comparator = "kGreaterEqual" -> GreaterAbove(n, p) \/ SameAbove(n, p)
<1> DEFINE x == call.codes[p] % CodeRange
           y == call.operand[p] % CodeRange
           n == kNumBytesPerCode
<1>1. /\ SameAbove(n, p) <=> x = y
      /\ LessAbove(n, p) <=> x < y
      /\ GreaterAbove(n, p) <=> x > y
  <2>1. n \in 0 .. n
    BY CodeAssumption
  <2> QED BY <2>1, SlicesHold, AboveIsFirst, SliceOrder
<1>2. x \in Nat /\ y \in Nat
  BY SlicesHold, CodeRangeExact
<1>3. Answer(p) <=> Compare(call.comparator, x, y)
  BY DEF Answer
<1> HIDE DEF x, y, n
<1>4. /\ x <= y <=> (x < y \/ x = y)
      /\ x >= y <=> (x > y \/ x = y)
  BY <1>2
<1>5. call.comparator \in Comparator
  BY DEF InputsOK
<1> QED BY <1>1, <1>3, <1>4, <1>5 DEF Compare, Comparator, n

(* One more slice.                                                         *)
LEMMA AboveStep ==
  ASSUME NEW p \in Position, NEW k \in Nat
  PROVE  /\ SameAbove(0, p) /\ ~LessAbove(0, p) /\ ~GreaterAbove(0, p)
         /\ SameAbove(k + 1, p) <=> SameAbove(k, p) /\ data_[k][p] = other[k][p]
         /\ LessAbove(k + 1, p) <=>
              \/ LessAbove(k, p)
              \/ SameAbove(k, p) /\ SignedByte(data_[k][p]) < SignedByte(other[k][p])
         /\ GreaterAbove(k + 1, p) <=>
              \/ GreaterAbove(k, p)
              \/ SameAbove(k, p) /\ SignedByte(data_[k][p]) > SignedByte(other[k][p])
<1>1. 0 .. (k + 1) - 1 = (0 .. k - 1) \cup {k}
  OBVIOUS
<1>2. 0 .. 0 - 1 = {}
  OBVIOUS
<1> QED BY <1>1, <1>2, Zenon DEF SameAbove, LessAbove, GreaterAbove

(* A tuple that the first k slices set apart stays as they order it.       *)
LEMMA AboveDecided ==
  ASSUME NEW p \in Position, NEW k \in 0 .. kNumBytesPerCode, ~SameAbove(k, p)
  PROVE  LET n == kNumBytesPerCode IN
         /\ ~SameAbove(n, p)
         /\ LessAbove(n, p) <=> LessAbove(k, p)
         /\ GreaterAbove(n, p) <=> GreaterAbove(k, p)
<1>1. \A a \in 0 .. kNumBytesPerCode - 1 : SameAbove(a, p) => a \in 0 .. k - 1
  BY CodeAssumption DEF SameAbove
<1>2. 0 .. k - 1 \subseteq 0 .. kNumBytesPerCode - 1
  BY CodeAssumption
<1> QED BY <1>1, <1>2 DEF SameAbove, LessAbove, GreaterAbove

-----------------------------------------------------------------------------
(* Early stop.                                                             *)

(* A register's comparison ends with the verdict of every lane that can    *)
(* change a bit: the lanes left equal are irrelevant or have no more slice.*)
LEMMA StopDecides ==
  ASSUME TypeOK, InputsOK, LoopsOK, MasksOK, InputMaskOK, pc = "slice", ~MoreSlices,
         NEW l \in Relevant
  PROVE  l \in m_result <=> Answer(offset + i + l)
<1> DEFINE p == offset + i + l
           n == kNumBytesPerCode
           k == byte_id
<1>1. l \in Lane /\ p \in Position
  BY WordPositions DEF Relevant
<1>2. k \in 0 .. n /\ n \in 1 .. 4
  BY CodeAssumption DEF TypeOK
<1>3. /\ UsesLess => (l \in m_less <=> LessAbove(k, p))
      /\ UsesGreater => (l \in m_greater <=> GreaterAbove(k, p))
      /\ (k = 0 \/ NeedsEqual(k - 1)) => (l \in m_equal <=> SameAbove(k, p))
  BY <1>1 DEF MasksOK
<1>4. l \in m_equal \/ l \notin m_equal
  OBVIOUS
<1>5. call.comparator \in Comparator /\ call.bit_opt \in BitwiseOpt
  BY DEF InputsOK
<1>6. CASE k = n
  <2>1. NeedsEqual(k - 1) <=> call.comparator \notin {"kLess", "kGreater"}
    BY <1>2, <1>6 DEF NeedsEqual
  <2>2. l \in m_result <=> Answer(p)
    <3> HIDE DEF p
    <3> QED BY <1>1, <1>3, <1>5, <1>6, <2>1, SlicesAnswer
         DEF m_result, avx_not, UsesLess, UsesGreater, Comparator
  <2> QED BY <2>2
<1>7. CASE k # n
  <2>1. k < n /\ ~Continue
    BY <1>2, <1>7 DEF MoreSlices
  <2>2. k # 0
    <3>1. SUFFICES ASSUME k = 0
                   PROVE  FALSE
      OBVIOUS
    <3>2. call.bit_opt # "kSet" /\ input_mask = {}
      BY <2>1, <3>1 DEF Continue
    <3>3. input_mask = Relevant
      BY <3>2 DEF InputMaskOK
    <3> QED BY <3>2, <3>3
  <2>3. l \notin m_equal
    <3>1. CASE call.bit_opt = "kSet"
      BY <2>1, <2>2, <3>1, <1>2 DEF Continue, avx_zero
    <3>2. CASE call.bit_opt # "kSet"
      <4>1. l \in input_mask
        BY <3>2 DEF InputMaskOK
      <4> QED BY <2>1, <2>2, <3>2, <4>1, <1>2 DEF Continue
    <3> QED BY <3>1, <3>2
  <2>4. NeedsEqual(k - 1)
    BY <2>1, <1>2 DEF NeedsEqual
  <2>5. ~SameAbove(k, p)
    BY <1>3, <2>3, <2>4
  <2>6. /\ ~SameAbove(n, p)
        /\ LessAbove(n, p) <=> LessAbove(k, p)
        /\ GreaterAbove(n, p) <=> GreaterAbove(k, p)
    BY <1>1, <1>2, <2>5, AboveDecided
  <2>7. l \in m_result <=> Answer(p)
    <3> HIDE DEF p
    <3> QED BY <1>1, <1>3, <1>5, <2>3, <2>6, SlicesAnswer
         DEF m_result, avx_not, UsesLess, UsesGreater, Comparator
  <2> QED BY <2>7
<1> QED BY <1>6, <1>7

-----------------------------------------------------------------------------
(* The steps.                                                              *)

(* The inputs of the call, and what they ask for, do not change.           *)
LEMMA InputsStay ==
  ASSUME InputsOK, UNCHANGED inputs
  PROVE  /\ InputsOK'
         /\ \A p \in Position : Answer(p)' = Answer(p) /\ Expected(p)' = Expected(p)
  BY DEF InputsOK, inputs, Answer, Expected

LEMMA InitInv ==
  ASSUME Init
  PROVE  IInv
<1>1. InputsOK
  BY InputAssumption DEF Init, InputsOK
<1>2. call.num \in 1 .. kNumTuplesPerBlock
  BY <1>1, InputAssumption DEF InputsOK
<1>3. TypeOK
  BY <1>1, CodeAssumption DEF Init, InputsOK, TypeOK, avx_zero
<1>4. LoopsOK
  BY <1>2, LaneSizes DEF Init, LoopsOK
<1>5. MasksOK /\ InputMaskOK /\ WordOK /\ ResultCorrect
  BY DEF Init, MasksOK, InputMaskOK, WordOK, ResultCorrect
<1>6. BitsOK
  BY DEF Init, BitsOK, Position
<1> QED BY <1>1, <1>3, <1>4, <1>5, <1>6 DEF IInv

LEMMA EnterWordInv ==
  ASSUME IInv, EnterWord
  PROVE  IInv'
<1> USE DEF IInv, EnterWord, inputs, registers
<1>1. InputsOK' /\ \A p \in Position : Answer(p)' = Answer(p) /\ Expected(p)' = Expected(p)
  BY InputsStay
<1>2. TypeOK'
  BY DEF TypeOK
<1>3. LoopsOK'
  BY LaneSizes DEF LoopsOK
<1>4. MasksOK' /\ InputMaskOK' /\ ResultCorrect'
  BY DEF MasksOK, InputMaskOK, ResultCorrect
<1>5. WordOK'
  BY DEF WordOK
<1>6. BitsOK'
  BY <1>1 DEF BitsOK
<1> QED BY <1>1, <1>2, <1>3, <1>4, <1>5, <1>6

LEMMA BeginGroupInv ==
  ASSUME IInv, BeginGroup
  PROVE  IInv'
<1> USE DEF IInv, BeginGroup, inputs
<1>1. InputsOK' /\ \A p \in Position : Answer(p)' = Answer(p) /\ Expected(p)' = Expected(p)
  BY InputsStay
<1>2. OldLanes = {l \in Lane : offset + i + l \in bits}
  <2>1. ASSUME NEW l \in Lane
        PROVE  i + l \in GetWordUnit(bits, bv_word_id) <=> offset + i + l \in bits
    <3>1. i + kNumLanes <= kNumWordBits
      BY Bounds
    <3>2. i + l \in WordBit
      BY <3>1, LaneSizes DEF Lane, WordBit, TypeOK
    <3>3. bv_word_id * kNumWordBits + (i + l) = offset + i + l
      BY LaneSizes DEF LoopsOK, TypeOK, Lane
    <3> QED BY <3>2, <3>3 DEF GetWordUnit
  <2> QED BY <2>1 DEF OldLanes
<1>3. TypeOK'
  <2>1. input_mask' \subseteq Lane
    BY DEF InputMasks, OldLanes, InputsOK, BitwiseOpt
  <2> QED BY <2>1, CodeAssumption DEF TypeOK, avx_zero, avx_ones
<1>4. LoopsOK'
  BY DEF LoopsOK
<1>5. MasksOK'
  <2>1. ASSUME NEW p
        PROVE  /\ SameAbove(byte_id, p)'
               /\ ~LessAbove(byte_id, p)' /\ ~GreaterAbove(byte_id, p)'
    <3>1. 0 .. byte_id' - 1 = {}
      OBVIOUS
    <3> QED BY <3>1 DEF SameAbove, LessAbove, GreaterAbove
  <2>2. ASSUME NEW l \in Lane
        PROVE  l \notin m_less' /\ l \notin m_greater' /\ l \in m_equal'
    BY DEF avx_zero, avx_ones
  <2> QED BY <2>1, <2>2, Zenon DEF MasksOK
<1>6. InputMaskOK'
  BY <1>2 DEF InputMaskOK, InputMasks, Relevant, InputsOK, BitwiseOpt
<1>7. WordOK' /\ ResultCorrect'
  <2>1. WordOK'
    <3>1. \A b \in 0 .. i - 1 : offset + b \in Position
      <4>1. \A b \in 0 .. i - 1 : b \in WordBit
        BY LaneSizes DEF LoopsOK, TypeOK, WordBit
      <4> QED BY <4>1, WordPositions
    <3> QED BY <1>1, <3>1 DEF WordOK
  <2> QED BY <2>1 DEF ResultCorrect
<1>8. BitsOK'
  BY <1>1 DEF BitsOK
<1> QED BY <1>1, <1>3, <1>4, <1>5, <1>6, <1>7, <1>8

LEMMA ScanSliceInv ==
  ASSUME IInv, ScanSlice
  PROVE  IInv'
<1> USE DEF IInv, ScanSlice, inputs
<1>1. InputsOK' /\ \A p \in Position : Answer(p)' = Answer(p) /\ Expected(p)' = Expected(p)
  BY InputsStay
<1>2. byte_id \in 0 .. kNumBytesPerCode - 1 /\ byte_id \in Nat
  BY CodeAssumption DEF MoreSlices, TypeOK
<1>3. TypeOK'
  <2>1. m_less' \subseteq Lane /\ m_greater' \subseteq Lane /\ m_equal' \subseteq Lane
    BY DEF ScanKernel2, TypeOK, avx_cmplt, avx_cmpgt
  <2> QED BY <1>2, <2>1, CodeAssumption DEF TypeOK
<1>4. LoopsOK'
  BY DEF LoopsOK
<1>5. MasksOK'
  <2>1. ASSUME NEW l \in Lane
        PROVE  LET p == offset + i + l IN
               /\ UsesLess => (l \in m_less' <=> LessAbove(byte_id + 1, p))
               /\ UsesGreater => (l \in m_greater' <=> GreaterAbove(byte_id + 1, p))
               /\ NeedsEqual(byte_id) => (l \in m_equal' <=> SameAbove(byte_id + 1, p))
    <3> DEFINE p == offset + i + l
               x == data_[byte_id][p]
               y == other[byte_id][p]
    <3>1. p \in Position
      BY WordPositions
    <3>2. byte_id = 0 \/ NeedsEqual(byte_id - 1)
      BY <1>2, CodeAssumption DEF NeedsEqual
    <3>3. /\ UsesLess => (l \in m_less <=> LessAbove(byte_id, p))
          /\ UsesGreater => (l \in m_greater <=> GreaterAbove(byte_id, p))
          /\ l \in m_equal <=> SameAbove(byte_id, p)
      BY <3>2 DEF MasksOK
    <3>4. Load(data_, byte_id)[l] = x /\ Load(other, byte_id)[l] = y
      BY DEF Load
    <3>5. /\ l \in avx_cmplt(Load(data_, byte_id), Load(other, byte_id))
               <=> SignedByte(x) < SignedByte(y)
          /\ l \in avx_cmpgt(Load(data_, byte_id), Load(other, byte_id))
               <=> SignedByte(x) > SignedByte(y)
          /\ l \in avx_cmpeq(Load(data_, byte_id), Load(other, byte_id)) <=> x = y
      BY <3>4 DEF avx_cmplt, avx_cmpgt, avx_cmpeq
    <3>6. /\ SameAbove(byte_id + 1, p) <=> SameAbove(byte_id, p) /\ x = y
          /\ LessAbove(byte_id + 1, p) <=>
               \/ LessAbove(byte_id, p)
               \/ SameAbove(byte_id, p) /\ SignedByte(x) < SignedByte(y)
          /\ GreaterAbove(byte_id + 1, p) <=>
               \/ GreaterAbove(byte_id, p)
               \/ SameAbove(byte_id, p) /\ SignedByte(x) > SignedByte(y)
      BY <1>2, <3>1, AboveStep
    <3> HIDE DEF p, x, y
    <3>7. /\ UsesLess => (l \in m_less' <=> LessAbove(byte_id + 1, p))
          /\ UsesGreater => (l \in m_greater' <=> GreaterAbove(byte_id + 1, p))
          /\ NeedsEqual(byte_id) => (l \in m_equal' <=> SameAbove(byte_id + 1, p))
      BY <3>3, <3>5, <3>6 DEF ScanKernel2
    <3> QED BY <3>7 DEF p
  <2>2. byte_id' = byte_id + 1 /\ byte_id' - 1 = byte_id /\ byte_id' # 0
    BY <1>2
  <2>3. /\ UsesLess' <=> UsesLess
        /\ UsesGreater' <=> UsesGreater
        /\ (byte_id = 0 \/ NeedsEqual(byte_id - 1))' <=> NeedsEqual(byte_id)
    BY <2>2 DEF UsesLess, UsesGreater, NeedsEqual
  <2>4. offset' = offset /\ i' = i
    OBVIOUS
  <2>5. ASSUME NEW l \in Lane
        PROVE  (LET p == offset + i + l IN
                /\ UsesLess => (l \in m_less <=> LessAbove(byte_id, p))
                /\ UsesGreater => (l \in m_greater <=> GreaterAbove(byte_id, p))
                /\ (byte_id = 0 \/ NeedsEqual(byte_id - 1)) =>
                     (l \in m_equal <=> SameAbove(byte_id, p)))'
    <3>1. /\ LessAbove(byte_id, offset + i + l)' <=> LessAbove(byte_id + 1, offset + i + l)
          /\ GreaterAbove(byte_id, offset + i + l)' <=> GreaterAbove(byte_id + 1, offset + i + l)
          /\ SameAbove(byte_id, offset + i + l)' <=> SameAbove(byte_id + 1, offset + i + l)
      BY <2>2, <2>4 DEF LessAbove, GreaterAbove, SameAbove
    <3> QED BY <2>1, <2>3, <2>4, <3>1
  <2> QED BY <2>5 DEF MasksOK
<1>6. InputMaskOK'
  BY DEF InputMaskOK, Relevant
<1>7. WordOK'
  <2>1. \A b \in 0 .. i - 1 : offset + b \in Position
    <3>1. \A b \in 0 .. i - 1 : b \in WordBit
      BY LaneSizes DEF LoopsOK, TypeOK, WordBit
    <3> QED BY <3>1, WordPositions
  <2> QED BY <1>1, <2>1 DEF WordOK
<1>8. BitsOK'
  BY <1>1 DEF BitsOK
<1>9. ResultCorrect'
  BY DEF ResultCorrect
<1> QED BY <1>1, <1>3, <1>4, <1>5, <1>6, <1>7, <1>8, <1>9

LEMMA EndGroupInv ==
  ASSUME IInv, EndGroup
  PROVE  IInv'
<1> USE DEF IInv, EndGroup, inputs, registers
<1>1. InputsOK' /\ \A p \in Position : Answer(p)' = Answer(p) /\ Expected(p)' = Expected(p)
  BY InputsStay
<1>2. i + kNumLanes <= kNumWordBits /\ i \in Nat /\ kNumLanes \in Nat \ {0}
  BY Bounds, LaneSizes DEF LoopsOK, TypeOK
<1>3. m_result \subseteq Lane
  BY DEF m_result, avx_not, TypeOK, InputsOK, Comparator
<1>4. TypeOK'
  <2>1. \A l \in Lane : i + l \in WordBit
    BY <1>2, LaneSizes DEF Lane, WordBit
  <2> QED BY <1>2, <1>3, <2>1 DEF TypeOK
<1>5. LoopsOK'
  <2>1. PICK k \in 0 .. i : i = k * kNumLanes
    BY DEF LoopsOK
  <2>2. k + 1 \in 0 .. i + kNumLanes /\ i + kNumLanes = (k + 1) * kNumLanes
    BY <1>2, <2>1
  <2> QED BY <1>2, <2>2 DEF LoopsOK
<1>6. MasksOK' /\ InputMaskOK' /\ ResultCorrect'
  BY DEF MasksOK, InputMaskOK, ResultCorrect
<1>7. WordOK'
  <2>1. bitvector_word' \subseteq 0 .. i' - 1
    <3>1. bitvector_word \subseteq 0 .. i - 1
      BY DEF WordOK
    <3>2. \A l \in Lane : i + l \in 0 .. i' - 1
      BY <1>2 DEF Lane
    <3>3. 0 .. i - 1 \subseteq 0 .. i' - 1
      BY <1>2
    <3> QED BY <1>3, <3>1, <3>2, <3>3
  <2>2. ASSUME NEW b \in 0 .. i' - 1
        PROVE  Combine(call.bit_opt, offset + b \in bits, b \in bitvector_word')
                 <=> Expected(offset + b)
    <3>1. CASE b < i
      <4>1. b \in bitvector_word' <=> b \in bitvector_word
        BY <3>1, <1>2, <1>3 DEF Lane
      <4>2. b \in 0 .. i - 1
        BY <3>1, <1>2
      <4> QED BY <4>1, <4>2 DEF WordOK
    <3>2. CASE b >= i
      <4> DEFINE l == b - i
                 p == offset + i + l
      <4>1. l \in Lane /\ i + l = b /\ p = offset + b
        BY <3>2, <1>2 DEF Lane, TypeOK
      <4>2. b \in bitvector_word' <=> l \in m_result
        <5>1. bitvector_word \subseteq 0 .. i - 1
          BY DEF WordOK
        <5>2. b \notin bitvector_word
          BY <5>1, <3>2, <1>2
        <5>3. \A c \in m_result : i + c = b => c = l
          BY <1>2, <1>3, <4>1 DEF Lane
        <5> QED BY <5>2, <5>3, <4>1
      <4>3. p \in Position
        BY <4>1, WordPositions
      <4>4. p \in bits <=> p \in call.old
        <5>1. ~(p < offset)
          BY <4>1, <1>2 DEF TypeOK, Lane
        <5> QED BY <5>1, <4>3 DEF BitsOK
      <4>5. l \in Relevant => (l \in m_result <=> Answer(p))
        BY StopDecides
      <4>6. Relevant
              = {c \in Lane : \/ call.bit_opt = "kSet"
                              \/ call.bit_opt = "kAnd" /\ offset + i + c \in bits
                              \/ call.bit_opt = "kOr" /\ offset + i + c \notin bits}
        BY DEF Relevant
      <4>7. l \in Relevant <=> \/ call.bit_opt = "kSet"
                               \/ call.bit_opt = "kAnd" /\ p \in bits
                               \/ call.bit_opt = "kOr" /\ p \notin bits
        BY <4>1, <4>6
      <4>8. call.bit_opt \in BitwiseOpt
        BY DEF InputsOK
      <4>9. Combine(call.bit_opt, p \in bits, b \in bitvector_word') <=> Expected(p)
        <5> HIDE DEF l, p
        <5> QED BY <4>2, <4>4, <4>5, <4>7, <4>8 DEF Combine, Expected, BitwiseOpt
      <4> QED BY <4>1, <4>9
    <3> QED BY <3>1, <3>2, <1>2
  <2>3. \A b \in 0 .. i' - 1 : offset + b \in Position
    <3>1. \A b \in 0 .. i' - 1 : b \in WordBit
      BY <1>2, LaneSizes DEF WordBit
    <3> QED BY <3>1, WordPositions
  <2>4. offset' = offset /\ bits' = bits /\ call' = call
    OBVIOUS
  <2> QED BY <1>1, <2>1, <2>2, <2>3, <2>4 DEF WordOK
<1>8. BitsOK'
  BY <1>1 DEF BitsOK
<1> QED BY <1>1, <1>4, <1>5, <1>6, <1>7, <1>8

(* The words of the block partition its positions.                         *)
LEMMA WordOf ==
  ASSUME NEW p \in Nat, NEW id \in Nat
  PROVE  /\ p \div kNumWordBits = id
              <=> id * kNumWordBits <= p /\ p < id * kNumWordBits + kNumWordBits
         /\ p % kNumWordBits \in WordBit
         /\ p = (p \div kNumWordBits) * kNumWordBits + (p % kNumWordBits)
<1> DEFINE d == p \div kNumWordBits
           r == p % kNumWordBits
           W == kNumWordBits
<1>1. d \in Nat /\ r \in 0 .. W - 1 /\ p = W * d + r /\ W \in Nat \ {0}
  BY LaneSizes, Quotient
<1> HIDE DEF d, r, W
<1>2. p = d * W + r
  BY <1>1
<1>3. (d = id) <=> (id * W <= p /\ p < id * W + W)
  <2>1. CASE d < id
    <3>1. (d + 1) * W <= id * W
      BY <2>1, <1>1
    <3> QED BY <3>1, <2>1, <1>1, <1>2
  <2>2. CASE d = id
    BY <2>2, <1>1, <1>2
  <2>3. CASE d > id
    <3>1. (id + 1) * W <= d * W
      BY <2>3, <1>1
    <3> QED BY <3>1, <2>3, <1>1, <1>2
  <2> QED BY <2>1, <2>2, <2>3, <1>1
<1> QED BY <1>1, <1>2, <1>3 DEF d, r, W, WordBit

LEMMA StoreWordInv ==
  ASSUME IInv, StoreWord
  PROVE  IInv'
<1> USE DEF IInv, StoreWord, inputs, registers
<1>1. InputsOK' /\ \A p \in Position : Answer(p)' = Answer(p) /\ Expected(p)' = Expected(p)
  BY InputsStay
<1>2. /\ offset \in Nat /\ bv_word_id \in Nat /\ kNumWordBits \in Nat \ {0}
      /\ offset = bv_word_id * kNumWordBits /\ i = kNumWordBits
  BY LaneSizes DEF LoopsOK, TypeOK
<1>3. offset < call.num /\ call.num \in 1 .. kNumTuplesPerBlock
  BY Bounds DEF LoopsOK
<1> DEFINE word == GetWordUnit(bits, bv_word_id)
           x == {b \in WordBit : Combine(call.bit_opt, b \in word, b \in bitvector_word)}
<1>4. bits' = {p \in bits : p \div kNumWordBits # bv_word_id} \cup {offset + b : b \in x}
  BY <1>2 DEF SetWordUnit
<1>5. ASSUME NEW p \in Nat, ~(offset <= p /\ p < offset + kNumWordBits)
      PROVE  p \in bits' <=> p \in bits
  <2>1. p \div kNumWordBits # bv_word_id
    BY <1>2, <1>5, WordOf
  <2>2. \A b \in WordBit : offset + b # p
    BY <1>2, <1>5 DEF WordBit
  <2> QED BY <1>4, <2>1, <2>2
<1>6. ASSUME NEW b \in WordBit
      PROVE  offset + b \in bits' <=> Expected(offset + b)
  <2>1. b \in Nat /\ b < kNumWordBits
    BY <1>2 DEF WordBit
  <2>2. (offset + b) \div kNumWordBits = bv_word_id
    BY <1>2, <2>1, WordOf
  <2>3. \A c \in WordBit : offset + c = offset + b => c = b
    BY <1>2 DEF WordBit
  <2>4. offset + b \in bits' <=> b \in x
    BY <1>4, <2>2, <2>3
  <2>5. b \in word <=> offset + b \in bits
    BY <1>2 DEF GetWordUnit
  <2>6. b \in 0 .. i - 1
    BY <1>2, <2>1
  <2>7. Combine(call.bit_opt, offset + b \in bits, b \in bitvector_word)
          <=> Expected(offset + b)
    BY <2>6 DEF WordOK
  <2>8. Combine(call.bit_opt, b \in word, b \in bitvector_word)
          <=> Combine(call.bit_opt, offset + b \in bits, b \in bitvector_word)
    BY <2>5 DEF Combine, InputsOK, BitwiseOpt
  <2> QED BY <2>4, <2>7, <2>8
<1>7. TypeOK'
  <2>1. \A b \in WordBit : offset + b \in Position
    BY WordPositions
  <2>2. bits' \subseteq Position
    BY <1>4, <2>1 DEF TypeOK
  <2> QED BY <1>2, <2>2 DEF TypeOK
<1>8. LoopsOK'
  <2>1. offset' = (bv_word_id + 1) * kNumWordBits /\ offset' < call.num + kNumWordBits
    BY <1>2, <1>3
  <2>2. call' = call /\ i' = i /\ pc' = "word" /\ bv_word_id' = bv_word_id + 1
    OBVIOUS
  <2> QED BY <1>2, <2>1, <2>2 DEF LoopsOK
<1>9. MasksOK' /\ InputMaskOK' /\ WordOK' /\ ResultCorrect'
  BY DEF MasksOK, InputMaskOK, WordOK, ResultCorrect
<1>10. BitsOK'
  <2>1. ASSUME NEW p \in Position
        PROVE  p \in bits' <=>
                 IF p < offset + kNumWordBits THEN Expected(p) ELSE p \in call.old
    <3>1. p \in Nat
      BY DEF Position
    <3>2. CASE offset <= p /\ p < offset + kNumWordBits
      <4>1. p - offset \in WordBit /\ offset + (p - offset) = p
        BY <1>2, <3>1, <3>2 DEF WordBit
      <4>2. p \in bits' <=> Expected(p)
        BY <4>1, <1>6
      <4> QED BY <3>2, <4>2
    <3>3. CASE ~(offset <= p /\ p < offset + kNumWordBits)
      <4>1. p \in bits' <=> p \in bits
        BY <3>1, <3>3, <1>5
      <4>2. p \in bits <=> IF p < offset THEN Expected(p) ELSE p \in call.old
        BY DEF BitsOK
      <4>3. p < offset <=> p < offset + kNumWordBits
        BY <1>2, <3>1, <3>3
      <4> QED BY <4>1, <4>2, <4>3
    <3> QED BY <3>2, <3>3
  <2>2. offset' = offset + kNumWordBits /\ call' = call
    OBVIOUS
  <2> QED BY <1>1, <2>1, <2>2 DEF BitsOK
<1> QED BY <1>1, <1>7, <1>8, <1>9, <1>10

(* The scan ends at the first word without a tuple.                        *)
LEMMA VisitedIsOffset ==
  ASSUME TypeOK, InputsOK, LoopsOK, offset >= call.num
  PROVE  Visited = offset
<1> DEFINE w == bv_word_id
<1>1. w \in Nat /\ offset = w * kNumWordBits /\ call.num \in 1 .. kNumTuplesPerBlock
  BY Bounds DEF TypeOK, LoopsOK
<1>2. call.num <= w * kNumWordBits /\ w * kNumWordBits < call.num + kNumWordBits
  <2> DEFINE o == w * kNumWordBits
  <2>1. o = offset /\ o \in Nat /\ call.num \in Nat
    BY <1>1 DEF TypeOK
  <2>2. o >= call.num /\ o < call.num + kNumWordBits
    BY <2>1 DEF LoopsOK
  <2> HIDE DEF o
  <2>3. call.num <= o /\ o < call.num + kNumWordBits
    BY <2>1, <2>2
  <2> QED BY <2>3 DEF o
<1>3. CEIL(call.num, kNumWordBits) = w
  BY <1>1, <1>2, WordsVisited
<1> QED BY <1>1, <1>3 DEF Visited

(* ClearTail leaves the tuples of the vector's block alone, clears what is *)
(* past them in the words it has in use, and reaches no other word.        *)
LEMMA FinishBits ==
  ASSUME IInv, Finish
  PROVE  /\ 0 .. call.vnum - 1 \subseteq UnitPositions(call.vnum)
         /\ UnitPositions(call.vnum) \subseteq Position
         /\ bits' = (bits \cap (0 .. call.vnum - 1)) \cup (bits \ UnitPositions(call.vnum))
<1>1. call.vnum \in 1 .. kNumTuplesPerBlock
  BY InputAssumption DEF IInv, InputsOK
<1>2. /\ 0 .. call.vnum - 1 \subseteq UnitPositions(call.vnum)
      /\ UnitPositions(call.vnum) \subseteq Position
  BY <1>1, UnitsHold DEF Position
<1>3. ClearTail(bits \cap UnitPositions(call.vnum), call.vnum)
        = bits \cap UnitPositions(call.vnum) \cap (0 .. call.vnum - 1)
  BY <1>1, ClearTailExact
<1> QED BY <1>2, <1>3 DEF Finish

(* The bits past the tuples that the last word's answers set are cleared.  *)
LEMMA FinishInv ==
  ASSUME IInv, Finish
  PROVE  IInv'
<1> USE DEF IInv, Finish, inputs, registers
<1>1. InputsOK' /\ \A p \in Position : Answer(p)' = Answer(p) /\ Expected(p)' = Expected(p)
  BY InputsStay
<1>2. /\ 0 .. call.vnum - 1 \subseteq UnitPositions(call.vnum)
      /\ UnitPositions(call.vnum) \subseteq Position
      /\ bits' = (bits \cap (0 .. call.vnum - 1)) \cup (bits \ UnitPositions(call.vnum))
  BY FinishBits
<1>3. call' = call /\ offset' = offset /\ pc = "word" /\ pc' = "done"
  OBVIOUS
<1>4. TypeOK'
  <2>1. bits' \subseteq Position
    BY <1>2 DEF TypeOK
  <2> QED BY <2>1 DEF TypeOK
<1>5. LoopsOK'
  BY DEF LoopsOK
<1>6. MasksOK' /\ InputMaskOK' /\ WordOK' /\ BitsOK'
  BY DEF MasksOK, InputMaskOK, WordOK, BitsOK
<1>7. ResultCorrect'
  <2>1. Visited = offset
    BY VisitedIsOffset
  <2>2. Visited' = Visited
    BY <1>3 DEF Visited
  <2>3. bits' \cap UnitPositions(call.vnum) = bits \cap (0 .. call.vnum - 1)
    BY <1>2
  <2>4. ASSUME NEW p \in 0 .. call.vnum - 1
        PROVE  p \in bits <=> IF p < Visited THEN Expected(p)' ELSE p \in call.old
    <3>1. p \in Position
      BY <1>2
    <3> QED BY <1>1, <1>3, <2>1, <3>1 DEF BitsOK
  <2> HIDE DEF Finish, IInv
  <2>5. bits' \cap UnitPositions(call.vnum)
          = {p \in 0 .. call.vnum - 1 : IF p < Visited THEN Expected(p)' ELSE p \in call.old}
    BY <2>3, <2>4
  <2> QED BY <1>3, <2>2, <2>5 DEF ResultCorrect
<1> QED BY <1>1, <1>4, <1>5, <1>6, <1>7

-----------------------------------------------------------------------------
(* The theorems.                                                           *)

(* The inductive invariant: the masks order the codes by the slices seen   *)
(* so far, the word and the block hold the answers of the tuples scanned   *)
(* so far and the old bits of the others.                                  *)
THEOREM Invariance == Safety => []IInv
<1>1. Init => IInv
  BY InitInv
<1>2. IInv /\ [Next]_vars => IInv'
  <2> SUFFICES ASSUME IInv, [Next]_vars
               PROVE  IInv'
    OBVIOUS
  <2>1. CASE EnterWord
    BY <2>1, EnterWordInv
  <2>2. CASE BeginGroup
    BY <2>2, BeginGroupInv
  <2>3. CASE ScanSlice
    BY <2>3, ScanSliceInv
  <2>4. CASE EndGroup
    BY <2>4, EndGroupInv
  <2>5. CASE StoreWord
    BY <2>5, StoreWordInv
  <2>6. CASE Finish
    BY <2>6, FinishInv
  <2>7. CASE UNCHANGED vars
    <3>1. InputsOK' /\ \A p \in Position : Answer(p)' = Answer(p) /\ Expected(p)' = Expected(p)
      BY <2>7, InputsStay DEF IInv, vars, inputs
    <3> USE <2>7 DEF IInv, vars
    <3>2. TypeOK' /\ LoopsOK' /\ InputMaskOK' /\ BitsOK'
      BY <3>1 DEF TypeOK, LoopsOK, InputMaskOK, BitsOK, Relevant
    <3>3. MasksOK' = MasksOK
      BY DEF MasksOK, UsesLess, UsesGreater, NeedsEqual, SameAbove, LessAbove, GreaterAbove
    <3>4. WordOK' = WordOK /\ ResultCorrect' = ResultCorrect
      BY DEF WordOK, ResultCorrect, Expected, Answer, Visited
    <3> QED BY <3>1, <3>2, <3>3, <3>4
  <2> QED BY <2>1, <2>2, <2>3, <2>4, <2>5, <2>6, <2>7 DEF Next
<1> QED BY <1>1, <1>2, PTL DEF Safety

(* The words and the masks of a scan stay within their registers and the   *)
(* bits it writes within the vector's block, whatever the sizes.           *)
THEOREM TypeCorrect == Safety => []TypeOK
<1>1. IInv => TypeOK
  BY DEF IInv
<1> QED BY <1>1, Invariance, PTL

(* Every scan leaves exactly the bits its comparison and bit_opt ask for,  *)
(* and none past the tuples in the words that the vector's block has in    *)
(* use, whatever sizes the two blocks have.                                *)
THEOREM ScanCorrect == Safety => []ResultCorrect
<1>1. IInv => ResultCorrect
  BY DEF IInv
<1> QED BY <1>1, Invariance, PTL

(* Early stop never leaves a lane whose bit can change without the verdict *)
(* of all the slices of its code.                                          *)
THEOREM EarlyStop == Safety => []EarlyStopSound
<1>1. IInv => EarlyStopSound
  BY StopDecides DEF IInv, EarlyStopSound
<1> QED BY <1>1, Invariance, PTL

(* No register is loaded and no word stored outside the blocks' arrays.    *)
THEOREM InBounds == Safety => []AccessesInBounds
<1>1. IInv => AccessesInBounds
  <2> SUFFICES ASSUME IInv
               PROVE  AccessesInBounds
    OBVIOUS
  <2>1. ASSUME pc \in {"group", "slice"}
        PROVE  /\ offset + kNumWordBits <= kNumTuplesPerBlock
               /\ bv_word_id < NumWordUnits(call.num)
    BY <2>1, Bounds DEF IInv, LoopsOK
  <2>2. ASSUME pc = "slice"
        PROVE  i + kNumLanes <= kNumWordBits
    BY <2>2, Bounds DEF IInv, LoopsOK
  <2>3. /\ offset \in Nat /\ i \in Nat
        /\ kNumLanes \in Nat /\ kNumWordBits \in Nat /\ kNumTuplesPerBlock \in Nat
    BY LaneSizes, BitVectorAssumption DEF IInv, TypeOK
  <2> QED BY <2>1, <2>2, <2>3 DEF AccessesInBounds
<1> QED BY <1>1, Invariance, PTL

-----------------------------------------------------------------------------
(* The scan implements BlockScan, on the tuples that both blocks have.     *)

LEMMA BothSizes ==
  ASSUME IInv
  PROVE  /\ Both \in 1 .. kNumTuplesPerBlock /\ Both \in Nums
         /\ Both <= call.num /\ Both <= call.vnum
         /\ 0 .. Both - 1 \subseteq Position
         /\ BothVisited \in Nat /\ Both <= BothVisited
<1>1. call.num \in Nums /\ call.vnum \in Nums
  BY DEF IInv, InputsOK
<1>2. /\ call.num \in 1 .. kNumTuplesPerBlock /\ call.vnum \in 1 .. kNumTuplesPerBlock
      /\ kNumTuplesPerBlock \in Nat
  BY <1>1, InputAssumption, BitVectorAssumption
<1>3. /\ Both \in 1 .. kNumTuplesPerBlock /\ Both \in Nums
      /\ Both <= call.num /\ Both <= call.vnum
  BY <1>1, <1>2 DEF Both
<1>4. 0 .. Both - 1 \subseteq Position
  BY <1>2, <1>3 DEF Position
<1>5. BothVisited \in Nat /\ Both <= BothVisited
  <2>1. CEIL(Both, kNumWordBits) \in Nat /\ kNumWordBits \in Nat
    BY <1>3, WordsVisited, LaneSizes
  <2>2. CEIL(Both, kNumWordBits) * kNumWordBits \in Nat
    BY <2>1
  <2> QED BY <1>3, <2>2, WordsVisited DEF BothVisited
<1> QED BY <1>3, <1>4, <1>5

(* A word that starts before the last common one ends has a common tuple.  *)
LEMMA BothCursor ==
  ASSUME IInv, offset < BothVisited
  PROVE  offset < Both /\ offset + kNumWordBits <= BothVisited
<1> DEFINE c == CEIL(Both, kNumWordBits)
           W == kNumWordBits
           w == bv_word_id
<1>1. Both \in 1 .. kNumTuplesPerBlock
  BY BothSizes
<1>2. c \in Nat \ {0} /\ (c - 1) * W < Both /\ W \in Nat \ {0}
  BY <1>1, WordsVisited, LaneSizes
<1>3. w \in Nat /\ offset = w * W /\ BothVisited = c * W
  BY DEF IInv, TypeOK, LoopsOK, BothVisited
<1> HIDE DEF c, W, w
<1>4. w * W < c * W
  BY <1>3
<1>5. w <= c - 1
  BY <1>2, <1>3, <1>4
<1>6. w * W <= (c - 1) * W
  BY <1>2, <1>3, <1>5
<1>7. w * W + W <= c * W
  BY <1>2, <1>3, <1>4, RoomForOne
<1>8. w * W \in Nat /\ (c - 1) * W \in Nat /\ Both \in Nat
  BY <1>1, <1>2, <1>3
<1>9. w * W < Both
  <2> DEFINE a == w * W
             b == (c - 1) * W
  <2>1. a \in Nat /\ b \in Nat /\ a <= b /\ b < Both
    BY <1>2, <1>6, <1>8
  <2> HIDE DEF a, b
  <2>2. a < Both
    BY <2>1, <1>8
  <2> QED BY <2>2 DEF a
<1> QED BY <1>3, <1>7, <1>9 DEF W

Seen ==
  IF pc = "done" /\ call.vnum = call.num THEN bits \cap UnitPositions(call.vnum)
  ELSE BothBits(bits)

(* ClearTail leaves no bit past the tuples in a vector of their number.    *)
LEMMA SeenIsBoth ==
  ASSUME IInv
  PROVE  Seen = BothBits(bits)
<1>1. CASE pc = "done" /\ call.vnum = call.num
  <2>1. call.vnum \in 1 .. kNumTuplesPerBlock
    BY InputAssumption DEF IInv, InputsOK
  <2>2. Both = call.vnum
    BY <1>1 DEF Both
  <2>3. bits \cap UnitPositions(call.vnum) \subseteq 0 .. call.vnum - 1
    BY <1>1 DEF IInv, ResultCorrect
  <2>4. 0 .. call.vnum - 1 \subseteq UnitPositions(call.vnum)
    BY <2>1, UnitsHold
  <2> QED BY <1>1, <2>2, <2>3, <2>4 DEF Seen, BothBits
<1>2. CASE ~(pc = "done" /\ call.vnum = call.num)
  BY <1>2 DEF Seen
<1> QED BY <1>1, <1>2

LEMMA StoreWordBits ==
  ASSUME IInv, IInv', StoreWord
  PROVE  LET window == {p \in 0 .. Both - 1 : offset <= p /\ p < offset + kNumWordBits}
         IN  BothBits(bits)' = (BothBits(bits) \ window) \cup {p \in window : Expected(p)}
<1>1. /\ Both \in Nat /\ 0 .. Both - 1 \subseteq Position /\ offset \in Nat
      /\ kNumWordBits \in Nat \ {0}
  BY BothSizes, LaneSizes DEF IInv, TypeOK
<1>2. /\ call' = call /\ offset' = offset + kNumWordBits
      /\ pc' = "word" /\ pc = "group"
  BY DEF StoreWord, inputs
<1>3. ASSUME NEW p \in 0 .. Both - 1
      PROVE  /\ p \in bits <=> IF p < offset THEN Expected(p) ELSE p \in call.old
             /\ p \in bits' <=>
                  IF p < offset + kNumWordBits THEN Expected(p) ELSE p \in call.old
  <2>1. p \in Position
    BY <1>1
  <2>2. Expected(p)' = Expected(p)
    BY <2>1, InputsStay DEF IInv, StoreWord
  <2> QED BY <1>2, <2>1, <2>2 DEF IInv, BitsOK
<1>4. \A p \in 0 .. Both - 1 : p \in Nat /\ (p < offset => p < offset + kNumWordBits)
  BY <1>1
<1>5. BothBits(bits)' = bits' \cap (0 .. Both - 1)
  BY <1>2 DEF BothBits, Both
<1> QED BY <1>1, <1>3, <1>4, <1>5 DEF BothBits

(* Every step of the scan is a word combined once with its old bits, in    *)
(* ascending order, or the return, or changes nothing a caller could see:  *)
(* the scan is a ColumnBlock::Scan of the tuples that both blocks have,    *)
(* and of all that a vector of the column's size may show.                 *)
THEOREM Refinement == Safety => BS!Safety
<1> USE DEF BS!vars, BS!Tuples, BS!Window, BS!Answers
<1>1. ASSUME Init
      PROVE  BS!Init
  <2>1. IInv
    BY <1>1, InitInv
  <2>2. Seen = BothBits(call.old)
    BY <1>1, <2>1, SeenIsBoth DEF Init
  <2>3. /\ BothBits(call.old) \in SUBSET Position /\ Both \in Nums
        /\ call.bit_opt \in BitwiseOpt
    BY <2>1, BothSizes DEF IInv, InputsOK, BothBits
  <2>4. (IF offset < BothVisited THEN offset ELSE BothVisited) = 0
    BY <1>1, <2>1, BothSizes DEF Init
  <2> QED BY <1>1, <2>2, <2>3, <2>4 DEF Init, BS!Init, Seen
<1>2. IInv => Seen = BothBits(bits)
  BY SeenIsBoth
<1>3. ASSUME IInv, IInv', Seen = BothBits(bits), (Seen = BothBits(bits))', [Next]_vars
      PROVE  [BS!Next]_(BS!vars)
  <2> DEFINE hits == {p \in Position : Answer(p)}
             old == BothBits(call.old)
             both == BothBits(bits)
             mapped == IF pc = "done" /\ call.vnum = call.num
                       THEN bits \cap UnitPositions(call.vnum) ELSE BothBits(bits)
             cursor == IF offset < BothVisited THEN offset ELSE BothVisited
  <2>1. ASSUME UNCHANGED inputs
        PROVE  /\ call' = call /\ hits' = hits /\ old' = old
               /\ Both' = Both /\ BothVisited' = BothVisited
    <3>1. call' = call
      BY <2>1 DEF inputs
    <3> QED BY <3>1 DEF Answer, BothBits, Both, BothVisited
  <2>2. mapped = both /\ mapped' = both'
    BY <1>3 DEF Seen
  <2>3. /\ offset \in Nat /\ kNumWordBits \in Nat \ {0} /\ Both \in Nat /\ call.num \in Nat
        /\ BothVisited \in Nat /\ Both <= BothVisited
        /\ Both <= call.num /\ Both <= call.vnum
    BY <1>3, BothSizes, LaneSizes, Bounds DEF IInv, TypeOK
  <2>4. offset < BothVisited => offset < Both /\ offset + kNumWordBits <= BothVisited
    BY <1>3, BothCursor
  <2>5. ASSUME UNCHANGED inputs, both' = both, cursor' = cursor, pc # "done", pc' # "done"
        PROVE  UNCHANGED BS!vars
    <3> HIDE DEF both, cursor
    <3> QED BY <2>1, <2>2, <2>5 DEF both, cursor
  <2>6. ASSUME UNCHANGED inputs, UNCHANGED <<bits, offset>>
        PROVE  both' = both /\ cursor' = cursor
    BY <2>1, <2>6 DEF BothBits
  <2>7. CASE EnterWord
    BY <2>5, <2>6, <2>7 DEF EnterWord
  <2>8. CASE BeginGroup
    BY <2>5, <2>6, <2>8 DEF BeginGroup
  <2>9. CASE ScanSlice
    BY <2>5, <2>6, <2>9 DEF ScanSlice
  <2>10. CASE EndGroup
    BY <2>5, <2>6, <2>10 DEF EndGroup
  <2>11. CASE StoreWord
    <3>1. /\ call' = call /\ hits' = hits /\ old' = old /\ offset' = offset + kNumWordBits
          /\ Both' = Both /\ BothVisited' = BothVisited
          /\ pc = "group" /\ pc' = "word" /\ UNCHANGED inputs
      BY <2>1, <2>11 DEF StoreWord
    <3> DEFINE window == {p \in 0 .. Both - 1 : offset <= p /\ p < offset + kNumWordBits}
    <3>2. both' = (both \ window) \cup {p \in window : Expected(p)}
      BY <1>3, <2>11, StoreWordBits
    <3>3. CASE offset < BothVisited
      <4>1. offset < Both /\ cursor = offset /\ cursor' = offset + kNumWordBits
        BY <2>3, <2>4, <3>1, <3>3
      <4>2. {p \in window : Expected(p)}
              = {p \in window : BS!Combine(call.bit_opt, p \in old, p \in hits)}
        <5>1. \A p \in window : p \in Position
          BY <1>3, BothSizes
        <5>2. \A p \in window : (p \in hits <=> Answer(p)) /\ (p \in old <=> p \in call.old)
          BY <5>1 DEF BothBits
        <5>3. call.bit_opt \in BitwiseOpt
          BY <1>3 DEF IInv, InputsOK
        <5> HIDE DEF window, hits, old
        <5> QED BY <5>2, <5>3 DEF Expected, Combine, BS!Combine, BitwiseOpt
      <4>3. BS!Window = window
        BY <4>1
      <4>4. BS!Answers(window)
              = {p \in window : BS!Combine(call.bit_opt, p \in old, p \in hits)}
        OBVIOUS
      <4>5. mapped' = (mapped \ BS!Window) \cup BS!Answers(BS!Window)
        BY <2>2, <3>2, <4>2, <4>3, <4>4
      <4>6. BS!ScanWord
        <5> HIDE DEF BS!Window, BS!Answers, hits, window, old, both
        <5> QED BY <3>1, <4>1, <4>5 DEF BS!ScanWord, hits, old
      <4> QED BY <4>6 DEF BS!Next
    <3>4. CASE ~(offset < BothVisited)
      <4>1. window = {}
        BY <2>3, <3>4
      <4>2. both' = both
        <5> HIDE DEF both, window
        <5> QED BY <3>2, <4>1
      <4>3. cursor' = cursor
        BY <2>3, <3>1, <3>4
      <4> QED BY <2>5, <3>1, <4>2, <4>3
    <3> QED BY <3>3, <3>4
  <2>12. CASE Finish
    <3>1. /\ call' = call /\ hits' = hits /\ old' = old /\ offset' = offset
          /\ Both' = Both /\ BothVisited' = BothVisited
          /\ pc = "word" /\ pc' = "done" /\ offset >= call.num
      BY <2>1, <2>12 DEF Finish
    <3>2. ~(offset < Both) /\ cursor = BothVisited /\ cursor' = cursor
      BY <2>3, <2>4, <3>1
    <3>3. both' = both
      <4>1. call.vnum \in Nat
        <5>1. call.vnum \in Nums
          BY <1>3 DEF IInv, InputsOK
        <5>2. call.vnum \in 1 .. kNumTuplesPerBlock
          BY <5>1, InputAssumption
        <5> HIDE DEF BS!vars, BS!Tuples, BS!Window, BS!Answers
        <5> QED BY <5>2
      <4>2. 0 .. Both - 1 \subseteq 0 .. call.vnum - 1
        BY <2>3, <4>1
      <4>3. /\ 0 .. call.vnum - 1 \subseteq UnitPositions(call.vnum)
            /\ bits' = (bits \cap (0 .. call.vnum - 1)) \cup (bits \ UnitPositions(call.vnum))
        BY <1>3, <2>12, FinishBits
      <4>4. both' = bits' \cap (0 .. Both - 1) /\ both = bits \cap (0 .. Both - 1)
        BY <3>1 DEF BothBits
      <4> HIDE DEF both
      <4> QED BY <4>2, <4>3, <4>4
    <3>4. mapped' = mapped
      BY <2>2, <3>3
    <3>5. cursor >= Both
      BY <2>3, <3>2
    <3>6. BS!Return
      <4> HIDE DEF hits, old, both, mapped, cursor
      <4> QED BY <3>1, <3>2, <3>4, <3>5 DEF BS!Return, hits, old, mapped, cursor
    <3> QED BY <3>6 DEF BS!Next
  <2>13. CASE UNCHANGED vars
    <3>1. UNCHANGED inputs /\ UNCHANGED <<bits, offset, pc>>
      BY <2>13 DEF vars, inputs
    <3>2. call' = call /\ hits' = hits /\ old' = old /\ both' = both /\ cursor' = cursor
          /\ Both' = Both /\ mapped' = mapped
      BY <2>1, <2>2, <2>6, <3>1
    <3>3. UNCHANGED BS!vars
      <4> HIDE DEF hits, old, both, mapped, cursor
      <4> QED BY <3>1, <3>2 DEF hits, old, mapped, cursor
    <3> QED BY <3>3
  <2> QED BY <1>3, <2>7, <2>8, <2>9, <2>10, <2>11, <2>12, <2>13 DEF Next
<1> QED BY <1>1, <1>2, <1>3, Invariance, PTL DEF Safety, BS!Safety
=============================================================================

------------------------ MODULE ByteSliceColumnBlock ------------------------
(***************************************************************************)
(* How a ByteSliceColumnBlock<BIT_WIDTH, kRight> stores a code: shifted    *)
(* left by kNumPaddingBits, cut into kNumBytesPerCode bytes, each with its *)
(* top bit flipped so that the signed byte comparison of AVX2 orders them. *)
(* Byte b of the tuple at pos is data_[b][pos], byte 0 the most            *)
(* significant.                                                            *)
(***************************************************************************)
EXTENDS AvxUtility, BitVectorBlock

CONSTANTS
  kNumBytesPerCode,   \* CEIL(BIT_WIDTH, 8)
  PadFactor           \* 2^kNumPaddingBits

(* A code fills all its bytes but for the padding, which is always less    *)
(* than a byte: PadFactor divides the weight of a byte's top bit.          *)
ASSUME CodeAssumption ==
  /\ kNumBytesPerCode \in 1 .. 4
  /\ PadFactor \in Nat \ {0}
  /\ \E k \in 1 .. ByteHalf : ByteHalf = k * PadFactor

ASSUME RegisterAssumption ==
  \E k \in 1 .. kNumWordBits : kNumWordBits = k * kNumLanes

Slice == 0 .. kNumBytesPerCode - 1
Position == 0 .. kNumTuplesPerBlock - 1

(* 2^(8k), as the shifts of the codec use it.                              *)
Weight(k) ==
  CASE k = 0 -> 1
    [] k = 1 -> ByteRange
    [] k = 2 -> ByteRange * ByteRange
    [] k = 3 -> ByteRange * ByteRange * ByteRange
    [] k = 4 -> ByteRange * ByteRange * ByteRange * ByteRange

(* kCodeMask is CodeRange - 1.                                             *)
CodeRange == Weight(kNumBytesPerCode) \div PadFactor

(* Byte b of a padded code: a shift and the cast to ByteUnit.              *)
ByteOf(padded, b) ==
  (padded \div Weight(kNumBytesPerCode - 1 - b)) % ByteRange

(* The padded value is cast, never masked with kCodeMask: what a value has *)
(* above BIT_WIDTH bits is dropped by the casts.                           *)
SetTuple_NoFlip(value) == [b \in Slice |-> ByteOf(value * PadFactor, b)]
SetTuple(value) == [b \in Slice |-> FLIP(ByteOf(value * PadFactor, b))]

(* mask_literal: the slices of a literal, masked first.                    *)
LiteralSlices_NotPadded(literal) ==
  [b \in Slice |-> FLIP(ByteOf(literal % CodeRange, b))]
LiteralSlices(literal) ==
  [b \in Slice |-> FLIP(ByteOf((literal % CodeRange) * PadFactor, b))]

(* The bytes put together again, and the padding shifted out.              *)
Joined(bytes) ==
  LET f(b) == FLIP(bytes[b])
  IN  CASE kNumBytesPerCode = 1 -> f(0)
        [] kNumBytesPerCode = 2 -> f(0) * Weight(1) + f(1)
        [] kNumBytesPerCode = 3 -> f(0) * Weight(2) + f(1) * Weight(1) + f(2)
        [] kNumBytesPerCode = 4 ->
             f(0) * Weight(3) + f(1) * Weight(2) + f(2) * Weight(1) + f(3)

GetTuple(bytes) == Joined(bytes) \div PadFactor

(* BulkLoadArray over the whole block: data_ from the codes.               *)
BulkLoadArray(codes) == [b \in Slice |-> [p \in Position |-> SetTuple(codes[p])[b]]]
=============================================================================

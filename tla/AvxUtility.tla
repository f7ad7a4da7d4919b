----------------------------- MODULE AvxUtility -----------------------------
(***************************************************************************)
(* The 256-bit registers of avx-utility.h as the scan uses them.  A        *)
(* register of bytes is a function from lanes to bytes; a comparison mask, *)
(* whose lanes are 0xff or 0x00, is the set of the lanes that are 0xff, so *)
(* avx_and, avx_or, avx_zero and avx_iszero are the set operations and     *)
(* movemask reads the set off.                                             *)
(***************************************************************************)
EXTENDS Types

CONSTANTS
  kNumLanes,    \* bytes in a register: kNumAvxBits/8, 32 in the build
  ByteHalf      \* the weight of a byte's top bit: 128 in the build

ASSUME LanesAssumption == kNumLanes \in Nat \ {0}
ASSUME ByteAssumption  == ByteHalf \in Nat \ {0}

Lane == 0 .. kNumLanes - 1

ByteRange == 2 * ByteHalf
Byte == 0 .. ByteRange - 1

(* value ^ 0x80: toggling the top bit adds its weight modulo the range.    *)
FLIP_Identity(value) == value
FLIP(value) == (value + ByteHalf) % ByteRange

(* The epi8 instructions read a byte as two's complement.                  *)
SignedByte(value) == IF value < ByteHalf THEN value ELSE value - ByteRange

avx_cmplt_Swapped(a, b) == {l \in Lane : SignedByte(a[l]) > SignedByte(b[l])}
avx_cmplt(a, b) == {l \in Lane : SignedByte(a[l]) < SignedByte(b[l])}
avx_cmpgt(a, b) == {l \in Lane : SignedByte(a[l]) > SignedByte(b[l])}
avx_cmpeq(a, b) == {l \in Lane : a[l] = b[l]}
avx_set1(byte) == [l \in Lane |-> byte]
avx_zero == {}
avx_ones == Lane
avx_not(a) == Lane \ a
=============================================================================

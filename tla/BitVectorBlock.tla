--------------------------- MODULE BitVectorBlock ---------------------------
(***************************************************************************)
(* The operations of a BitVectorBlock.  A block is the set of the          *)
(* positions whose bit is 1 in the words 0 .. num_word_units_ - 1 of       *)
(* data_; bit b of word w is position w*kNumWordBits + b (the "bit         *)
(* sequence" warning of bitvector_block.h).  A word is the set of its bits *)
(* that are 1.  The words above num_word_units_ are allocated and never    *)
(* initialised.  Of the operations here none writes them and only And and  *)
(* Or with a smaller block read them, the smaller one's (ScanSession).     *)
(***************************************************************************)
EXTENDS Types

CONSTANTS
  kNumTuplesPerBlock,   \* 1024*1024 in the build
  kNumWordBits,         \* 64
  kNumAvxBits           \* 256

ASSUME BitVectorAssumption ==
  /\ kNumTuplesPerBlock \in Nat \ {0}
  /\ kNumWordBits \in Nat \ {0}
  /\ kNumAvxBits \in Nat \ {0}
  /\ \E k \in 1 .. kNumAvxBits : kNumAvxBits = k * kNumWordBits
  /\ \E k \in 1 .. kNumTuplesPerBlock : kNumTuplesPerBlock = k * kNumAvxBits
  /\ kNumTuplesPerBlock < SizeRange

WordBit == 0 .. kNumWordBits - 1

(* The words in use: whole AVX registers, enough for num bits.             *)
NumWordUnits(num) == CEIL(num, kNumAvxBits) * (kNumAvxBits \div kNumWordBits)

(* The positions that the words in use hold, those past num included.      *)
UnitPositions(num) == 0 .. NumWordUnits(num) * kNumWordBits - 1

GetWordUnit(bits, id) == {b \in WordBit : id * kNumWordBits + b \in bits}

SetWordUnit(bits, word, id) ==
  {p \in bits : p \div kNumWordBits # id} \cup {id * kNumWordBits + b : b \in word}

(* ClearTail walks down from the last word: it zeroes a word for every     *)
(* kNumWordBits of num_empty and masks the next one with what is left.     *)
ClearTail_KeepsLastWord(bits, num) ==
  LET num_empty == kNumAvxBits - (num % kNumAvxBits)
      i == NumWordUnits(num) - 1 - (num_empty \div kNumWordBits)
      kept == kNumWordBits - (num_empty % kNumWordBits)
  IN  {p \in bits : \/ num_empty = kNumAvxBits
                    \/ p \div kNumWordBits # i
                    \/ p % kNumWordBits < kept}

ClearTail(bits, num) ==
  LET num_empty == kNumAvxBits - (num % kNumAvxBits)
      i == NumWordUnits(num) - 1 - (num_empty \div kNumWordBits)
      kept == kNumWordBits - (num_empty % kNumWordBits)
  IN  {p \in bits : \/ num_empty = kNumAvxBits
                    \/ p \div kNumWordBits < i
                    \/ p \div kNumWordBits = i /\ p % kNumWordBits < kept}

SetOnes(num) == ClearTail(UnitPositions(num), num)
SetZeros == {}
And(bits, other, num) == ClearTail(bits \cap other, num)
Or(bits, other, num) == ClearTail(bits \cup other, num)
=============================================================================

------------------------ MODULE MCBitVectorIterator -------------------------
(***************************************************************************)
(* A small BitVectorIterator: any vector of 9 tuples in blocks of 4, the   *)
(* last one nearly empty; words of 2 bits, registers of 4.                 *)
(***************************************************************************)
EXTENDS BitVectorIterator

MCVectors == SUBSET Tuple

(* Both bits of one word, and the only tuple of the last block.            *)
MCTouched == {2, 3, 8}
=============================================================================

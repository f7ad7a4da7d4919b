-------------------------- MODULE MCByteSliceScan ---------------------------
(***************************************************************************)
(* A small ByteSliceScan: 2-bit bytes, codes of 3 bits in 2 bytes, 8       *)
(* tuples a block, 2 lanes a register, 2 registers a word, 2 words a block.*)
(***************************************************************************)
EXTENDS ByteSliceScan

(* Code 5 is what a tuple that was never set reads as: its bytes are 0.    *)
(* The three codes agree and differ in the first slice and in the second;  *)
(* 9 has more bits than BIT_WIDTH.                                         *)
MCCodeArrays ==
  { [p \in Position |-> IF p % 3 = 0 THEN 5 ELSE IF p % 3 = 1 THEN 4 ELSE 1],
    [p \in Position |-> IF p % 2 = 0 THEN 9 ELSE 5],
    [p \in Position |-> IF p < 4 THEN 4 ELSE 6] }

MCLiterals == {4, 5, 9}

MCBitPatterns == {{}, {1, 2}, {1, 2, 4}, 0 .. 7, {0, 5, 6}}

MCNums == {3, 5, 8}
=============================================================================

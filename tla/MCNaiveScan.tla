---------------------------- MODULE MCNaiveScan -----------------------------
(***************************************************************************)
(* A small NaiveScan: blocks of 8 tuples, words of 2 bits, registers of 4, *)
(* 3-bit codes in a DTYPE of 4 bits.                                       *)
(***************************************************************************)
EXTENDS NaiveScan

(* 9 has more bits than BIT_WIDTH, 21 more than a DTYPE.                   *)
MCCodeArrays ==
  { [p \in Position |-> IF p % 3 = 0 THEN 5 ELSE IF p % 3 = 1 THEN 4 ELSE 1],
    [p \in Position |-> IF p % 2 = 0 THEN 9 ELSE 21] }

MCLiterals == {4, 9}

(* In a vector of 3, positions 4 to 7 are in words not in use.             *)
MCBitPatterns == {{}, 0 .. 2, {1, 4, 7}, 0 .. 7, {0, 2, 4}}

MCNums == {1, 3, 5, 8}
=============================================================================

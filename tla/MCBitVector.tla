---------------------------- MODULE MCBitVector -----------------------------
(***************************************************************************)
(* A small BitVector: 9 tuples in blocks of 4, the last one nearly empty;  *)
(* words of 2 bits, registers of 4.                                        *)
(***************************************************************************)
EXTENDS BitVector

(* The answers of a scan, those past num_tuples_ included.                 *)
MCAnswers == [b \in BlockId |-> {0, 3}]

(* Another vector's bits: only tuples.                                     *)
MCOther == [b \in BlockId |-> {1, 3} \cap (0 .. BlockNum(b) - 1)]

MCNone == [b \in BlockId |-> {}]

MCCalls ==
  [op : {"Scan"}, opt : BitwiseOpt, arg : {MCAnswers}]
    \cup [op : {"And", "Or"}, opt : {"kSet"}, arg : {MCOther}]
    \cup [op : {"SetOnes", "SetZeros", "CountOnes"}, opt : {"kSet"}, arg : {MCNone}]

MCBits == {8}
=============================================================================

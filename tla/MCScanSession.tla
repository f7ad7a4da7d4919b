--------------------------- MODULE MCScanSession ----------------------------
(***************************************************************************)
(* Columns of at most 6 tuples in blocks of 4, words and registers of 2    *)
(* bits: one block or two, their last words full or not.                   *)
(***************************************************************************)
EXTENDS ScanSession

MCArrays == {<<1, 0, 1, 1, 0, 1>>}

(* The second column has one block or two, or one tuple less in its last   *)
(* block than the first may have.                                          *)
MCOther(num) ==
  [b \in DOMAIN SizesFor(num) |->
     Block(SizesFor(num)[b], [p \in Position |-> p % 2])]
MCOthers == {MCOther(3), MCOther(6)}
=============================================================================

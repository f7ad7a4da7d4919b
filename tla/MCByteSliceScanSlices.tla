----------------------- MODULE MCByteSliceScanSlices ------------------------
(***************************************************************************)
(* A ByteSliceScan of more slices: 1-bit bytes, codes of 3 bits in 3       *)
(* bytes, 8 tuples a block, a word a register, in the build with           *)
(* NEARLYSTOP: the scan of a literal never stops early, that of two blocks *)
(* may stop after either of two slices.                                    *)
(***************************************************************************)
EXTENDS ByteSliceScan

(* Every code against every distance to it.                                *)
MCCodeArrays ==
  { [p \in Position |-> p], [p \in Position |-> 7 - p],
    [p \in Position |-> (p + 4) % 8], [p \in Position |-> p - (p % 2)] }

MCLiterals == 0 .. 7

MCBitPatterns == {{}, {0, 1, 2, 3, 4, 5}, {1, 2, 4}}

MCNums == {3, 6, 8}
=============================================================================

---------------------------- MODULE MCColumnFile ----------------------------
(***************************************************************************)
(* Columns of no block to two, codes of one byte, slices of two cells.     *)
(***************************************************************************)
EXTENDS ColumnFile
=============================================================================

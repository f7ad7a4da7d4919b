------------------------------ MODULE MCColumn ------------------------------
(***************************************************************************)
(* A small Column: blocks of 2 tuples, up to 5 tuples, words of 1 bit, two *)
(* codes; arrays that span three blocks, two, or a part of one.            *)
(***************************************************************************)
EXTENDS Column

MCArrays == {<<1, 1, 1, 1>>, <<1, 0, 1>>, <<0>>}
=============================================================================

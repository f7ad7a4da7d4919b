----------------------------- MODULE BlockScan ------------------------------
(***************************************************************************)
(* What ColumnBlock::Scan promises, whatever the layout of the block: word *)
(* by word of the bit vector, in ascending order, the bit of each tuple    *)
(* becomes what bit_opt makes of the old bit and of the comparison's       *)
(* answer, and when the call returns no bit past num_tuples_ is set.       *)
(***************************************************************************)
EXTENDS Types

CONSTANTS
  WordBits,     \* the tuples whose bits are stored together
  Requests      \* the calls: [num |-> n, opt |-> o, old |-> P, hits |-> Q]

VARIABLES
  request,      \* the call being served
  bits,         \* the bits of the tuples
  cursor,       \* how many tuples are done
  returned      \* TRUE once the call has returned

vars == <<request, bits, cursor, returned>>

Tuples == 0 .. request.num - 1
Window == {p \in Tuples : cursor <= p /\ p < cursor + WordBits}

(* The bits the call must leave for the tuples of P.                       *)
Answers(P) ==
  {p \in P : Combine(request.opt, p \in request.old, p \in request.hits)}

Init ==
  /\ request \in Requests
  /\ bits = request.old
  /\ cursor = 0
  /\ returned = FALSE

ScanWord ==
  /\ ~returned
  /\ cursor < request.num
  /\ bits' = (bits \ Window) \cup Answers(Window)
  /\ cursor' = cursor + WordBits
  /\ UNCHANGED <<request, returned>>

Return ==
  /\ ~returned
  /\ cursor >= request.num
  /\ returned' = TRUE
  /\ UNCHANGED <<request, bits, cursor>>

Next == ScanWord \/ Return

Safety == Init /\ [][Next]_vars
Spec == Safety /\ WF_vars(Next)
=============================================================================

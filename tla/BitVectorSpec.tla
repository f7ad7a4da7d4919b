--------------------------- MODULE BitVectorSpec ----------------------------
(***************************************************************************)
(* What a bit vector promises to its single caller: one bit per tuple, and *)
(* operations that take effect at once, whatever number of threads carries *)
(* them out, and always return.                                            *)
(***************************************************************************)
EXTENDS Types, FiniteSets

CONSTANTS
  Tuples,       \* the tuple ids
  NoCall        \* no operation is running

VARIABLES
  bits,         \* the tuples whose bit is 1
  call,         \* the operation running: [op, opt, arg], arg a set of tuples
  result        \* what the last CountOnes returned

vars == <<bits, call, result>>

CallsOf(T) == [op : {"Scan", "And", "Or", "SetOnes", "SetZeros", "CountOnes"},
               opt : BitwiseOpt, arg : SUBSET T]

Effect(c, old) ==
  CASE c.op = "Scan"      -> {t \in Tuples : Combine(c.opt, t \in old, t \in c.arg)}
    [] c.op = "And"       -> old \cap c.arg
    [] c.op = "Or"        -> old \cup c.arg
    [] c.op = "SetOnes"   -> Tuples
    [] c.op = "SetZeros"  -> {}
    [] c.op = "CountOnes" -> old

Init == bits = Tuples /\ call = NoCall /\ result = 0

Begin ==
  /\ call = NoCall
  /\ call' \in CallsOf(Tuples)
  /\ UNCHANGED <<bits, result>>

End ==
  /\ call # NoCall
  /\ bits' = Effect(call, bits)
  /\ result' = IF call.op = "CountOnes" THEN Cardinality(bits) ELSE result
  /\ call' = NoCall

Change ==
  /\ call = NoCall
  /\ \E t \in Tuples : bits' \in {bits \cup {t}, bits \ {t}}
  /\ UNCHANGED <<call, result>>

Next == Begin \/ End \/ Change

Safety == Init /\ [][Next]_vars
Spec == Safety /\ WF_vars(End)
=============================================================================

------------------------------- MODULE Types -------------------------------
(***************************************************************************)
(* The enumerations of types.h with what each value asks for, and the      *)
(* rounding macro of macros.h.  Every other module extends this one.       *)
(***************************************************************************)
EXTENDS Integers

CONSTANT SizeRange      \* size_t counts modulo SizeRange (2^64 in the build)

ASSUME SizeRangeAssumption == SizeRange \in Nat \ {0, 1}

Comparator ==
  {"kEqual", "kInequal", "kLess", "kGreater", "kLessEqual", "kGreaterEqual"}

BitwiseOpt == {"kSet", "kAnd", "kOr"}

(* What a comparator asks of a tuple's value and the operand's.            *)
Compare(cmp, value, operand) ==
  CASE cmp = "kEqual"        -> value = operand
    [] cmp = "kInequal"      -> value # operand
    [] cmp = "kLess"         -> value < operand
    [] cmp = "kGreater"      -> value > operand
    [] cmp = "kLessEqual"    -> value <= operand
    [] cmp = "kGreaterEqual" -> value >= operand

(* How a scan's answer for a tuple meets the bit the vector already holds. *)
Combine(opt, old, answer) ==
  CASE opt = "kSet" -> answer
    [] opt = "kAnd" -> old /\ answer
    [] opt = "kOr"  -> old \/ answer

(* CEIL(X,Y) computed in size_t: for X = 0 the subtraction wraps.          *)
CEIL(x, y) == ((((x - 1) % SizeRange) \div y) + 1) % SizeRange
=============================================================================

------------------------------- MODULE Words -------------------------------
(***************************************************************************)
(* The integers of C: a word is an unsigned number below 2 * top, where    *)
(* top is its sign bit (0x80000000 for int, 0x8000000000000000 for long).  *)
(***************************************************************************)
EXTENDS Integers

CONSTANT IntTop        \* the sign bit of int, 0x80000000

ASSUME IntTopAssumption == IntTop \in Nat \ {0}

LongTop == 2 * IntTop * IntTop

Word(top) == 0 .. 2 * top - 1
Wrap(top, i) == i % (2 * top)
Negative(top, u) == u >= top
Signed(top, u) == IF Negative(top, u) THEN u - 2 * top ELSE u
Neg(top, u) == IF u = 0 THEN 0 ELSE 2 * top - u
Magnitude(top, u) == IF Negative(top, u) THEN Neg(top, u) ELSE u
=============================================================================

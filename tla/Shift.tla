------------------------------- MODULE Shift -------------------------------
(***************************************************************************)
(* Shifts of a long in nostdlib.c, one bit at a time over its two halves   *)
(* (the union u8u4).                                                       *)
(***************************************************************************)
EXTENDS Words

CONSTANT LongBits      \* 64: a count is masked with 0x3f

ASSUME LongBitsAssumption == LongBits \in Nat \ {0}

\* What 2^k is, for provers that do not know it.
ASSUME DoublingAssumption ==
  2^0 = 1 /\ \A k \in 0 .. LongBits : 2^k \in Nat \ {0} /\ 2^(k + 1) = 2 * 2^k

VARIABLES request,     \* the function called and its arguments
          hi, lo, shift,
          spc          \* "idle", "shift" or "done"

svars == <<request, hi, lo, shift, spc>>

ShiftFunction == {"__ashldi3", "__ashrdi3", "__lshrdi3"}
Half == 2 * IntTop     \* the values of a half

NoShift == [fn |-> "__ashldi3", u |-> 0, s |-> 0]

ShiftIdle == request = NoShift /\ hi = 0 /\ lo = 0 /\ shift = 0 /\ spc = "idle"

StartShift(fn, u, s) ==
  /\ spc = "idle"
  /\ request' = [fn |-> fn, u |-> u, s |-> s]
  /\ hi' = u \div Half /\ lo' = u % Half
  /\ shift' = s % LongBits
  /\ spc' = "shift"

Bit(test) == IF test THEN 1 ELSE 0

\* The bit that leaves the lower half enters the upper one.
ShiftLeft ==
  /\ hi' = Wrap(IntTop, 2 * hi) + Bit(Negative(IntTop, lo))
  /\ lo' = Wrap(IntTop, 2 * lo)

\* Faulty: the bit that leaves the upper half is dropped.
HalfShiftRight == lo' = lo \div 2

\* The bit that leaves the upper half becomes the sign bit of the lower one.
LowerHalfRight == lo' = lo \div 2 + IntTop * Bit(hi % 2 = 1)

\* The sign bit of the upper half stays.
ArithmeticShiftRight ==
  /\ hi' = hi \div 2 + IntTop * Bit(Negative(IntTop, hi))
  /\ LowerHalfRight

LogicShiftRight == hi' = hi \div 2 /\ LowerHalfRight

ShiftStep ==
  /\ spc = "shift" /\ shift # 0
  /\ \/ request.fn = "__ashldi3" /\ ShiftLeft
     \/ request.fn = "__ashrdi3" /\ ArithmeticShiftRight
     \/ request.fn = "__lshrdi3" /\ LogicShiftRight
  /\ shift' = shift - 1
  /\ UNCHANGED <<request, spc>>

EndShift ==
  /\ spc = "shift" /\ shift = 0
  /\ spc' = "done"
  /\ UNCHANGED <<request, hi, lo, shift>>

Shifted == hi * Half + lo

ReturnShifted ==
  /\ spc = "done"
  /\ request' = NoShift /\ hi' = 0 /\ lo' = 0 /\ shift' = 0
  /\ spc' = "idle"
=============================================================================

------------------------------ MODULE Division ------------------------------
(***************************************************************************)
(* Division and remainder of nostdlib.c, for a processor without them.     *)
(* __udivsi3 doubles the divisor until it reaches the dividend or its sign *)
(* bit is set, then halves it back, subtracting it wherever it fits.  The  *)
(* functions for long are the same code on wider words, except __moddi3.   *)
(*                                                                         *)
(* past is a history variable: the values b went through, which it goes    *)
(* back through when it is halved.                                         *)
(***************************************************************************)
EXTENDS Words, Sequences

VARIABLES call,        \* the function called, its arguments and the sign it found
          a, b, count, res,
          past,
          pc           \* "idle", "double", "subtract", "done" or "exit"

dvars == <<call, a, b, count, res, past, pc>>

Function == {"__divsi3", "__modsi3", "__divdi3", "__moddi3"}
Top(fn) == IF fn \in {"__divsi3", "__modsi3"} THEN IntTop ELSE LongTop

NoCall == [fn |-> "__divsi3", x |-> 0, n |-> 1, negative |-> FALSE]

Idle ==
  /\ call = NoCall
  /\ a = 0 /\ b = 0 /\ count = 0 /\ res = 0 /\ past = <<>>
  /\ pc = "idle"

\* What __modsi3 makes of its arguments before it divides; the arguments of
\* __moddi3 are unsigned, which leaves them as they are.
Passed(fn, u) == IF fn = "__modsi3" THEN Magnitude(Top(fn), u) ELSE u

\* The sign of the quotient.  The most negative int has no negation: it is still
\* negative when __divsi3 tests it again, unless the compiler drops that test of
\* a number known to have been negated (known).
SignOf(fn, x, n, known) ==
  /\ ~known
  /\ Negative(Top(fn), Passed(fn, x)) # Negative(Top(fn), Passed(fn, n))

\* From the call to the loop of __udivsi3, which exits for divisor 0.
Divide(fn, x, n) ==
  /\ pc = "idle"
  /\ \E known \in IF fn = "__modsi3" THEN BOOLEAN ELSE {FALSE} :
       call' = [fn |-> fn, x |-> x, n |-> n, negative |-> SignOf(fn, x, n, known)]
  /\ a' = Magnitude(Top(fn), x)
  /\ b' = Magnitude(Top(fn), n)
  /\ count' = 1 /\ res' = 0 /\ past' = <<Magnitude(Top(fn), n)>>
  /\ pc' = IF n = 0 THEN "exit" ELSE "double"

CanDouble(top) == b < a /\ ~Negative(top, b)

Double ==
  /\ pc = "double" /\ CanDouble(Top(call.fn))
  /\ b' = Wrap(Top(call.fn), 2 * b)
  /\ count' = count + 1
  /\ past' = Append(past, b')
  /\ UNCHANGED <<call, a, res, pc>>

EndDouble ==
  /\ pc = "double" /\ ~CanDouble(Top(call.fn))
  /\ pc' = "subtract"
  /\ UNCHANGED <<call, a, b, count, res, past>>

\* Faulty: what is left may be as large as the divisor.
FitsStrictly == a > b

\* The divisor goes once more into what is left.
Fits == a >= b

Subtract ==
  /\ pc = "subtract" /\ count > 0
  /\ IF Fits THEN a' = a - b /\ res' = Wrap(Top(call.fn), 2 * res + 1)
             ELSE a' = a /\ res' = Wrap(Top(call.fn), 2 * res)
  /\ b' = b \div 2
  /\ count' = count - 1
  /\ UNCHANGED <<call, past, pc>>

EndSubtract ==
  /\ pc = "subtract" /\ count = 0
  /\ pc' = "done"
  /\ UNCHANGED <<call, a, b, count, res, past>>

DivisionStep == Double \/ EndDouble \/ Subtract \/ EndSubtract

Quotient == IF call.negative THEN Neg(Top(call.fn), res) ELSE res

\* a - n * (a / n), negated again for a negative a.
Remainder(top) ==
  LET r == Wrap(top, Passed(call.fn, call.x) - Passed(call.fn, call.n) * Quotient)
  IN IF call.fn = "__modsi3" /\ Negative(top, call.x) THEN Neg(top, r) ELSE r

Result == IF call.fn \in {"__divsi3", "__divdi3"} THEN Quotient
                                                  ELSE Remainder(Top(call.fn))

Return ==
  /\ pc = "done"
  /\ call' = NoCall /\ a' = 0 /\ b' = 0 /\ count' = 0 /\ res' = 0 /\ past' = <<>>
  /\ pc' = "idle"

Next ==
  \/ \E fn \in Function : \E x, n \in Word(Top(fn)) : Divide(fn, x, n)
  \/ DivisionStep
  \/ Return

DivisionSpec == Idle /\ [][Next]_dvars
-----------------------------------------------------------------------------
\* q is x / n, rounded towards zero.
Truncated(x, n, q) ==
  LET r == x - q * n
      size == IF r < 0 THEN -r ELSE r
  IN /\ size < (IF n < 0 THEN -n ELSE n)
     /\ (r < 0 => x < 0) /\ (r > 0 => x > 0)

X == Signed(Top(call.fn), call.x)
N == Signed(Top(call.fn), call.n)
R == Signed(Top(call.fn), Result)

\* What __divsi3 and __divdi3 return is the truncated quotient; the one quotient
\* too large for a word wraps to the most negative number.
QuotientExact ==
  pc = "done" /\ call.fn \in {"__divsi3", "__divdi3"} =>
    \/ Truncated(X, N, R)
    \/ X = -Top(call.fn) /\ N = -1 /\ R = X

\* What __modsi3 and __moddi3 return is the remainder of that quotient, except
\* for __modsi3 of the most negative dividend.
RemainderExact ==
  pc = "done" /\ call.fn \in {"__modsi3", "__moddi3"}
              /\ (call.fn = "__modsi3" => X # -IntTop) =>
    \E q \in -Top(call.fn) .. Top(call.fn) : Truncated(X, N, q) /\ R = X - q * N

\* The division of nostdlib.c computes what the division of Java is defined as,
\* for every dividend, divisor and width of words.
DivisionExact == QuotientExact /\ RemainderExact
=============================================================================

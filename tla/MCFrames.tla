------------------------------ MODULE MCFrames ------------------------------
(* A start method, one with an argument, a handler and a result, and one   *)
(* with two variables for a long; two nested ranges of handlers.           *)
EXTENDS Frames

CONSTANTS zero, error

MCWord == {zero, error}
MCThrowable == {error}

startMethod == [class |-> 1, first |-> 1, last |-> 2, args |-> 0, locals |-> 0, results |-> 0]
f == [class |-> 2, first |-> 3, last |-> 4, args |-> 1, locals |-> 1, results |-> 1]
g == [class |-> 3, first |-> 5, last |-> 6, args |-> 0, locals |-> 2, results |-> 0]
MCMethod == {startMethod, f, g}

Entry(class, from, to, pc) ==
  [classId |-> class, startPC |-> from, endPC |-> to, catches |-> {error}, handlerPC |-> pc]
MCHandlers == <<Entry(1, 1, 2, 2), Entry(2, 3, 4, 4), Entry(2, 3, 5, 3)>>
=============================================================================

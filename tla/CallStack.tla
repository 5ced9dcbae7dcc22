----------------------------- MODULE CallStack -----------------------------
(***************************************************************************)
(* What a Java stack promises, with no addresses of words: a sequence of   *)
(* calls, each with local variables and operands of its own.  Invoking     *)
(* takes the arguments off the caller's operands, returning puts the       *)
(* result there, an exception ends calls down to one that handles it.      *)
(*                                                                         *)
(* pc is that of the next instruction; an instruction in C code has been   *)
(* fetched, so pc is behind it.                                            *)
(***************************************************************************)
EXTENDS Program, SequencesExt

VARIABLES calls,       \* outermost first
          returning    \* execute() is to return: a call made by C has ended

vars == <<calls, returning>>

NewCall(m, args, returnFromVM) ==
  [class |-> m.class, pc |-> m.first, returnFromVM |-> returnFromVM,
   locals |-> args \o [i \in 1 .. m.locals - m.args |-> Zero], operands |-> <<>>]

Init == calls = <<NewCall(start, <<>>, TRUE)>> /\ returning = FALSE

Running == calls # <<>> /\ ~ returning
Top == Last(calls)
Count == Len(Top.operands)
Below(n) == SubSeq(Top.operands, 1, Count - n)
Taken(n) == SubSeq(Top.operands, Count - n + 1, Count)
Become(call) == calls' = Append(Front(calls), call) /\ UNCHANGED returning

Body == MethodAt(Top.pc).first .. MethodAt(Top.pc).last
Variables == IF calls = <<>> THEN {} ELSE DOMAIN Top.locals

\* Another instruction follows.  For C code to run, one has been fetched.
GoesOn == Top.pc + 1 \in Body
InC == Top.pc - 1 \in Body
Fetched(operands) == [Top EXCEPT !.pc = @ + 1, !.operands = operands]

-----------------------------------------------------------------------------
(* Instructions that stay in the call                                      *)

\* n operands make place for results: constants, arithmetic, fields, arrays, natives.
Operate(n, results) == Running /\ GoesOn /\ n <= Count /\ Become(Fetched(Below(n) \o results))

Branch(n, target) ==
  /\ Running /\ target \in Body /\ n <= Count
  /\ Become([Top EXCEPT !.pc = target, !.operands = Below(n)])

\* n copies of the topmost operands go below skip others.
Dup(n, skip) ==
  /\ Running /\ GoesOn /\ n + skip <= Count
  /\ Become(Fetched(Below(n + skip) \o Taken(n) \o Taken(n + skip)))

\* n = 2 for a long.
Load(v, n) ==
  /\ Running /\ GoesOn /\ v + n - 1 \in Variables
  /\ Become(Fetched(Top.operands \o SubSeq(Top.locals, v, v + n - 1)))

Store(v, n) ==
  /\ Running /\ GoesOn /\ v + n - 1 \in Variables /\ n <= Count
  /\ Become([Fetched(Below(n)) EXCEPT
               !.locals = SubSeq(@, 1, v - 1) \o Taken(n) \o SubSeq(@, v + n, Len(@))])

Increment(v, w) ==
  /\ Running /\ GoesOn
  /\ Become([Fetched(Top.operands) EXCEPT !.locals[v] = w])

-----------------------------------------------------------------------------
(* Calls                                                                   *)

Invoke(m) ==
  /\ Running /\ GoesOn /\ m.args <= Count
  /\ calls' = Front(calls) \o
                <<Fetched(Below(m.args)), NewCall(m, Taken(m.args), FALSE)>>
  /\ UNCHANGED returning

\* C code calls Java, with arguments it puts on its caller's operands.
CallFromC(m, args) ==
  /\ Running /\ InC
  /\ calls' = Append(calls, NewCall(m, args, TRUE))
  /\ UNCHANGED returning

Return(results) ==
  /\ Running /\ results <= Count
  /\ LET callers == Front(calls)
     IN calls' = IF callers = <<>> THEN <<>>
                 ELSE Append(Front(callers),
                             [Last(callers) EXCEPT !.operands = @ \o Taken(results)])
  /\ returning' = Top.returnFromVM

\* execute() has returned to the C code that called it.
ReturnFromVM == returning /\ returning' = FALSE /\ UNCHANGED calls

\* Calls end until one has a handler for e; pc(i) is behind the instruction call i
\* is at.  The other operands of the handling call stay below the exception, and
\* only the last call to end can make execute() return.
Throw(e, pc(_), operands(_)) ==
  LET Handling == {i \in DOMAIN calls : Hits(calls[i].class, pc(i), e) # {}}
      h == Max(Handling)
  IN  /\ Running /\ Handling # {}
      /\ calls' = Append(SubSeq(calls, 1, h - 1),
                    [calls[h] EXCEPT !.pc = HandlerPC(calls[h].class, pc(h), e),
                                     !.operands = Append(operands(h), e)])
      /\ returning' = (h < Len(calls) /\ calls[h + 1].returnFromVM)

athrow(e) ==
  /\ Running /\ Count > 0 /\ Last(Top.operands) = e
  /\ Throw(e, LAMBDA i : IF i = Len(calls) THEN Top.pc + 1 ELSE calls[i].pc,
             LAMBDA i : IF i = Len(calls) THEN Below(1) ELSE calls[i].operands)

ThrowFromC(e) ==
  Running /\ InC /\ Throw(e, LAMBDA i : calls[i].pc, LAMBDA i : calls[i].operands)

Next ==
  \/ \E n \in 0 .. 2 : \E results \in SeqOf(Word, 2) : Operate(n, results)
  \/ \E n \in 0 .. 2 : \E target \in Addresses : Branch(n, target)
  \/ \E n \in 1 .. 2 : \E skip \in 0 .. 1 : Dup(n, skip)
  \/ \E v \in Variables : \E n \in 1 .. 2 : Load(v, n) \/ Store(v, n)
  \/ \E v \in Variables : \E w \in Word : Increment(v, w)
  \/ \E m \in Method : Invoke(m) \/ \E args \in [1 .. m.args -> Word] : CallFromC(m, args)
  \/ \E n \in 0 .. 2 : Return(n)
  \/ \E e \in Throwable : athrow(e) \/ ThrowFromC(e)
  \/ ReturnFromVM

Spec == Init /\ [][Next]_vars
=============================================================================

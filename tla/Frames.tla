------------------------------- MODULE Frames -------------------------------
(***************************************************************************)
(* operandstack.c and frame.c: the calls of a thread in one array of       *)
(* words.  push_frame saves the context in five words between the local    *)
(* variables and the operands; fp is the first local variable (or where    *)
(* it would be), cp the first operand:                                     *)
(*                                                                         *)
(*   | locals | fp pc ci cp flags | operands |                             *)
(*   fp                           cp         sp                            *)
(*                                                                         *)
(* The arguments of a call are the caller's topmost operands and the       *)
(* callee's first local variables at once.  What C code does is its calls  *)
(* of Java and the exceptions it throws.  Words that were popped stay in   *)
(* the array; whatever they are is Stale here, a word of its own, so that  *)
(* one that is read again shows.                                           *)
(***************************************************************************)
EXTENDS Program, SequencesExt

CONSTANTS STACK_SIZE,
          Stale,           \* any word that lies above the stack pointer
          MaxOperands      \* bound on the operands of a frame, exceptions aside

ASSUME FramesAssumption == STACK_SIZE \in Nat /\ STACK_SIZE >= 5 /\ MaxOperands \in Nat

VARIABLES stack, context

vars == <<stack, context>>

\* The operators below take a machine and return what it is like afterwards.
Machine == [stack |-> stack, context |-> context]

\* A word beyond STACK_SIZE is no word: see Become.
push(m, w) ==
  [m EXCEPT !.stack[m.context.stackPointer] = w, !.context.stackPointer = @ + 1]
pushAll(m, words) ==
  LET sp == m.context.stackPointer
  IN [stack |-> [a \in DOMAIN m.stack |-> IF a \in sp .. sp + Len(words) - 1
                                          THEN words[a - sp + 1] ELSE m.stack[a]],
      context |-> [m.context EXCEPT !.stackPointer = @ + Len(words)]]
popped(m, n) == [m EXCEPT !.context.stackPointer = @ - n]
top(m, n) == [i \in 1 .. n |-> m.stack[m.context.stackPointer - n + i - 1]]
operands(m) == m.context.stackPointer - m.context.contextPointer
fetch(m) == [m EXCEPT !.context.programCounter = @ + 1]

\* Faulty: the new frame pointer ignores one of the registers.
push_frameShort(m, method, returnFromVM) ==
  LET c == m.context
      pushed == pushAll(m, <<c.framePointer, c.programCounter, c.classIndex,
                             c.contextPointer, IF returnFromVM THEN 1 ELSE 0>>)
      sp == pushed.context.stackPointer
  IN [pushed EXCEPT !.context =
        [programCounter |-> method.first, classIndex |-> method.class,
         stackPointer |-> sp, contextPointer |-> sp,
         framePointer |-> sp - (method.locals % 256) - 4, flags |-> 0]]

\* The number of local variables is passed as a u1.
push_frame(m, method, returnFromVM) ==
  LET c == m.context
      pushed == pushAll(m, <<c.framePointer, c.programCounter, c.classIndex,
                             c.contextPointer, IF returnFromVM THEN 1 ELSE 0>>)
      sp == pushed.context.stackPointer
  IN [pushed EXCEPT !.context =
        [programCounter |-> method.first, classIndex |-> method.class,
         stackPointer |-> sp, contextPointer |-> sp,
         framePointer |-> sp - (method.locals % 256) - 5, flags |-> 0]]

\* Popping changes no word, only the context.
pop_frame(m) ==
  LET c == m.context
      saved(i) == m.stack[c.contextPointer - i]
  IN [stack |-> m.stack,
      context |-> [flags |-> saved(1), contextPointer |-> saved(2), classIndex |-> saved(3),
                   programCounter |-> saved(4), framePointer |-> saved(5),
                   stackPointer |-> c.framePointer]]

\* Faulty: room is made for the local variables, and nothing written there.
invokeCommonUncleared(m, method, returnFromVM) ==
  push_frame([m EXCEPT !.context.stackPointer = @ + method.locals - method.args],
             method, returnFromVM)

invokeCommon(m, method, returnFromVM) ==
  push_frame(pushAll(m, [i \in 1 .. method.locals - method.args |-> Zero]),
             method, returnFromVM)

\* Faulty: the stack is never full.
BecomeUnchecked(m) ==
  /\ stack' = [a \in DOMAIN stack |-> IF a < m.context.stackPointer THEN m.stack[a] ELSE Stale]
  /\ context' = m.context

\* The machine exits when a push finds the stack full, so no step follows.
Become(m) ==
  /\ m.context.stackPointer <= STACK_SIZE
  /\ stack' = [a \in DOMAIN stack |-> IF a < m.context.stackPointer THEN m.stack[a] ELSE Stale]
  /\ context' = m.context

\* thinjvm_run pushes the frame of the start method: its frame pointer is 0, which
\* is how walks along the frames end.
Init ==
  LET cleared == [programCounter |-> start.first, classIndex |-> start.class,
                  stackPointer |-> 0, framePointer |-> 0, contextPointer |-> 0, flags |-> 0]
      first == push_frame([stack |-> [i \in 0 .. STACK_SIZE - 1 |-> Stale],
                           context |-> cleared], start, TRUE)
  IN stack = first.stack /\ context = first.context

\* Once the start method has returned there is no frame.
Running == context.contextPointer > 0 /\ context.flags = 0
Body == MethodAt(context.programCounter).first .. MethodAt(context.programCounter).last
GoesOn == context.programCounter + 1 \in Body
InC == context.programCounter - 1 \in Body
Variables == 0 .. context.contextPointer - 6 - context.framePointer

-----------------------------------------------------------------------------
(* Instructions that stay in the frame                                     *)

\* n operands make place for results: constants, arithmetic, fields, arrays, natives.
Operate(n, results) ==
  /\ Running /\ GoesOn /\ n <= operands(Machine)
  /\ operands(Machine) - n + Len(results) <= MaxOperands
  /\ Become(pushAll(popped(fetch(Machine), n), results))

Branch(n, target) ==
  /\ Running /\ target \in Body /\ n <= operands(Machine)
  /\ Become([popped(Machine, n) EXCEPT !.context.programCounter = target])

\* dup, dup_x1 (skip 1), dup2, dup2_x1: pop n and skip words, push n, skip and n.
Dup(n, skip) ==
  /\ Running /\ GoesOn /\ n + skip <= operands(Machine)
  /\ operands(Machine) + n <= MaxOperands
  /\ LET words == top(Machine, n + skip)
     IN Become(pushAll(popped(fetch(Machine), n + skip), SubSeq(words, skip + 1, skip + n) \o words))

\* A long takes two variables and two words, the low half first.
Load(v, n) ==
  /\ Running /\ GoesOn /\ v + n - 1 \in Variables
  /\ operands(Machine) + n <= MaxOperands
  /\ Become(pushAll(fetch(Machine), [i \in 1 .. n |-> stack[v + i - 1 + context.framePointer]]))

Store(v, n) ==
  /\ Running /\ GoesOn /\ v + n - 1 \in Variables /\ n <= operands(Machine)
  /\ LET words == top(Machine, n)
         variable(i) == v + i - 1 + context.framePointer
         m == popped(fetch(Machine), n)
     IN Become([m EXCEPT !.stack =
                  [a \in DOMAIN @ |-> IF \E i \in 1 .. n : a = variable(i)
                                      THEN words[a - variable(0)] ELSE @[a]]])

Increment(v, w) ==
  /\ Running /\ GoesOn /\ v \in Variables
  /\ Become([fetch(Machine) EXCEPT !.stack[v + context.framePointer] = w])

-----------------------------------------------------------------------------
(* Calls                                                                   *)

Invoke(method) ==
  /\ Running /\ GoesOn /\ method.args <= operands(Machine)
  /\ Become(invokeCommon(fetch(Machine), method, FALSE))

CallFromC(method, args) ==
  /\ Running /\ InC
  /\ Become(invokeCommon(pushAll(Machine, args), method, TRUE))

Return(n) ==
  /\ Running /\ n = MethodAt(context.programCounter).results /\ n <= operands(Machine)
  /\ Become(pushAll(pop_frame(popped(fetch(Machine), n)), top(Machine, n)))

ReturnFromVM ==
  /\ context.flags = 1
  /\ context' = [context EXCEPT !.flags = 0] /\ UNCHANGED stack

\* The machine after k calls of pop_frame, which stop at frame pointer 0.
Walk(m) ==
  LET walk[k \in Nat] ==
        IF k = 0 THEN m
        ELSE LET up == walk[k - 1]
             IN IF up.context.framePointer = 0 THEN up ELSE pop_frame(up)
  IN walk

\* The number of frames the stack has room for.
Depths == 0 .. STACK_SIZE \div 5

getExceptionHandler(m, e) ==
  Hits(m.context.classIndex, m.context.programCounter, e)

\* Frames are popped until one has a handler.  The exception goes on top of what
\* that frame's operands were.  Uncaught, it ends the machine.
throwException(m, e) ==
  \E k \in Depths :
    LET frame == Walk(m)[k]
        handler == HandlerPC(frame.context.classIndex, frame.context.programCounter, e)
    IN  /\ getExceptionHandler(frame, e) # {}
        /\ \A j \in 0 .. k - 1 : getExceptionHandler(Walk(m)[j], e) = {}
        /\ Become([push(frame, e) EXCEPT !.context.programCounter = handler])

athrow(e) ==
  /\ Running /\ operands(Machine) > 0 /\ top(Machine, 1) = <<e>>
  /\ throwException(popped(fetch(Machine), 1), e)

ThrowFromC(e) == Running /\ InC /\ throwException(Machine, e)

Next ==
  \/ \E n \in 0 .. 2 : \E results \in SeqOf(Word, 2) : Operate(n, results)
  \/ \E n \in 0 .. 2 : \E target \in Addresses : Branch(n, target)
  \/ \E n \in 1 .. 2 : \E skip \in 0 .. 1 : Dup(n, skip)
  \/ \E v \in Variables : \E n \in 1 .. 2 : Load(v, n) \/ Store(v, n)
  \/ \E v \in Variables : \E w \in Word : Increment(v, w)
  \/ \E m \in Method : Invoke(m) \/ \E args \in [1 .. m.args -> Word] : CallFromC(m, args)
  \/ \E n \in 0 .. 2 : Return(n)
  \/ \E e \in Throwable : athrow(e) \/ ThrowFromC(e)
  \/ ReturnFromVM

Spec == Init /\ [][Next]_vars

-----------------------------------------------------------------------------
(* Java_java_lang_Throwable.c: both restore the context they walked with.  *)

\* Faulty: the frame of the start method is not counted.
getStackTraceDepthShort(m) ==
  Min({k \in Depths : Walk(m)[k].context.framePointer = 0})

getStackTraceDepth(m) ==
  1 + Min({k \in Depths : Walk(m)[k].context.framePointer = 0})

getStackTraceElement(m, index) == Walk(m)[index].context.programCounter - 1

-----------------------------------------------------------------------------
(* The calls in the stack, found along the saved context pointers.         *)

Context ==
  [programCounter : Nat, classIndex : Nat, flags : 0 .. 1, stackPointer : 0 .. STACK_SIZE,
   framePointer : 0 .. STACK_SIZE, contextPointer : 0 .. STACK_SIZE]

WordsIn(s, from, to) == [i \in 1 .. to - from |-> s[from + i - 1]]

Call(s, c) ==
  [class |-> c.classIndex, pc |-> c.programCounter,
   returnFromVM |-> s[c.contextPointer - 1] = 1,
   locals |-> WordsIn(s, c.framePointer, c.contextPointer - 5),
   operands |-> WordsIn(s, c.contextPointer, c.stackPointer)]

\* The context pointers that are saved decrease down to 0 (FramesNested).
CallsIn(s, top_context) ==
  LET callsTo[c \in Context] ==
        LET up == pop_frame([stack |-> s, context |-> c]).context
        IN IF c.contextPointer = 0 THEN <<>>
           ELSE IF up \in Context /\ up.contextPointer < c.contextPointer
             THEN Append(callsTo[up], Call(s, c)) ELSE <<Call(s, c)>>
  IN callsTo[top_context]

calls == CallsIn(stack, context)

CallStack == INSTANCE CallStack WITH calls <- calls, returning <- (context.flags = 1)

-----------------------------------------------------------------------------
(* Properties                                                              *)

\* The stack holds words and saved registers, and no register leaves it.
TypeOK ==
  /\ stack \in [0 .. STACK_SIZE - 1 -> Word \cup {Zero, Stale} \cup Nat]
  /\ context \in Context

\* The frames below each other: every one has its method's class and local
\* variables, the five registers above them, and ends above its caller's registers.
FramesNested ==
  context.contextPointer > 0 =>
    \A k \in Depths :
      LET c == Walk(Machine)[k].context
          method == MethodAt(c.programCounter)
      IN  /\ c.programCounter \in Addresses /\ c.classIndex = method.class
          /\ c.framePointer + method.locals + 5 = c.contextPointer
          /\ c.contextPointer <= c.stackPointer
          /\ c.framePointer > 0 => stack[c.contextPointer - 2] <= c.framePointer

\* However calls, returns and exceptions follow each other, the words of the stack
\* are a stack of calls with variables and operands of their own: new variables are
\* 0, a caller finds its operands and its context as it left them.
ImplementsCallStack == CallStack!Spec

\* A stack trace has one element for every call, and each is the address of the
\* instruction that call is at; walking the frames for it leaves no trace.
StackTraceExact ==
  calls # <<>> =>
    /\ getStackTraceDepth(Machine) = Len(calls)
    /\ \A i \in DOMAIN calls :
         getStackTraceElement(Machine, Len(calls) - i) = calls[i].pc - 1
=============================================================================

------------------------------ MODULE Execute ------------------------------
(***************************************************************************)
(* execute() is a C function that runs Java frames; a native it calls may  *)
(* call Java in turn, by a frame pushed with returnFromVM = TRUE and a     *)
(* nested execute() (call_static_method, call_instance_method).  Every     *)
(* thread has its own Java stack and context, but all run on one C stack:  *)
(* tryYield switches the context under whatever execute() is innermost.    *)
(*                                                                         *)
(* A Java frame is the flag it was pushed with.  An exception may be       *)
(* handled in any frame; one that no frame handles ends the machine.       *)
(*                                                                         *)
(* execute() and the frames can lose step with each other.  The history    *)
(* variable astray records that they did; nothing in the model reads it.   *)
(***************************************************************************)
EXTENDS Naturals, Sequences, SequencesExt

CONSTANTS Thread, main,
          MaxFrames,   \* the frames a thread's stack has room for
          MaxDepth     \* bound on the C stack

ASSUME ExecuteAssumption ==
  /\ main \in Thread
  /\ MaxFrames \in Nat \ {0} /\ MaxDepth \in Nat \ {0}

VARIABLES
  frames,     \* frames[t]: what each frame of t was pushed with as returnFromVM
  flag,       \* RETURN_FROM_VM in the context of t: "clear", or set, and then by
              \* what: a frame that "returned", or one an exception "unwound"
  thrown,     \* exceptionThrown in the context of t
  cstack,     \* the C functions that run: execute() and natives in turn, with the
              \* thread that called them and how many frames it had then
  cur,        \* the thread whose context is loaded
  astray      \* a RETURN_FROM_VM was lost, a native went on without its caller's
              \* frame, or an execute() returned for another thread

vars == <<frames, flag, thrown, cstack, cur, astray>>

C(f, depth) == [function |-> f, thread |-> cur, depth |-> depth]

\* thinjvm_run pushes the frame of the start method.  The other threads, made by
\* the natives of java.lang.Thread, are at the first frame of their run().
Init ==
  /\ frames = [t \in Thread |-> <<t = main>>]
  /\ flag = [t \in Thread |-> "clear"]
  /\ thrown = [t \in Thread |-> FALSE]
  /\ cur = main
  /\ cstack = <<C("execute", 1)>>
  /\ astray = FALSE

GoesAstray(b) == astray' = (astray \/ b)
In(function) == cstack # <<>> /\ Last(cstack).function = function

-----------------------------------------------------------------------------
(* frame.c and exceptions.c                                                *)

\* Faulty: the flag stays set in the new frame.
push_frameDirty(t, returnFromVM) ==
  /\ frames' = [frames EXCEPT ![t] = Append(@, returnFromVM)]
  /\ flag' = [flag EXCEPT ![t] = IF returnFromVM THEN "returned" ELSE @]

\* Faulty: the stack overflows unnoticed.
push_frameUnchecked(t, returnFromVM) ==
  /\ frames' = [frames EXCEPT ![t] = Append(@, returnFromVM)]
  /\ flag' = [flag EXCEPT ![t] = "clear"]

\* The stack is full at MaxFrames: the machine exits, so no step follows.
\* A flag that is set gets lost: the frame is pushed with returnFromVM, set or not.
push_frame(t, returnFromVM) ==
  /\ Len(frames[t]) < MaxFrames
  /\ frames' = [frames EXCEPT ![t] = Append(@, returnFromVM)]
  /\ flag' = [flag EXCEPT ![t] = "clear"]

\* The flag is that of the frame popped last, whatever was popped above it.
pop_frames(t, n, how) ==
  /\ frames' = [frames EXCEPT ![t] = SubSeq(@, 1, n)]
  /\ flag' = IF n = Len(frames[t]) THEN flag
             ELSE [flag EXCEPT ![t] = IF frames[t][n + 1] THEN how ELSE "clear"]

\* A set flag is overwritten: that of a frame popped before the last one, or the
\* context's own.
PopsLose(t, n) ==
  \/ \E i \in n + 2 .. Len(frames[t]) : frames[t][i]
  \/ flag[t] # "clear" /\ n < Len(frames[t])

\* getExceptionHandler pops frames until one has a handler.
throwException ==
  /\ \E n \in 1 .. Len(frames[cur]) :
       /\ pop_frames(cur, n, "unwound")
       /\ GoesAstray(PopsLose(cur, n))
  /\ thrown' = [thrown EXCEPT ![cur] = TRUE]

-----------------------------------------------------------------------------
(* execute()                                                               *)

\* The test of the flag comes first, then exceptionThrown is reset.
Instruction == In("execute") /\ flag[cur] = "clear" /\ UNCHANGED cur
ResetThrown == thrown' = [thrown EXCEPT ![cur] = FALSE]

Invoke ==
  /\ Instruction /\ ResetThrown
  /\ push_frame(cur, FALSE)
  /\ UNCHANGED <<cstack, astray>>

\* The first frame of another thread does not return: its native ends the thread.
Return ==
  /\ Instruction /\ ResetThrown
  /\ Len(frames[cur]) > IF cur = main THEN 0 ELSE 1
  /\ pop_frames(cur, Len(frames[cur]) - 1, "returned")
  /\ UNCHANGED <<cstack, astray>>

athrow == Instruction /\ throwException /\ UNCHANGED cstack

\* A native method, or an instruction that goes on in C: one that throws
\* constructs its exception in Java.
InvokeNative ==
  /\ Instruction /\ ResetThrown
  /\ Len(cstack) < MaxDepth
  /\ cstack' = Append(cstack, C("native", Len(frames[cur])))
  /\ UNCHANGED <<frames, flag, astray>>

\* Faulty: exceptionThrown is reset before the flag is tested.
ReturnFromVMResets ==
  /\ In("execute") /\ flag[cur] # "clear"
  /\ flag' = [flag EXCEPT ![cur] = "clear"]
  /\ cstack' = Front(cstack)
  /\ GoesAstray(Last(cstack).thread # cur)
  /\ ResetThrown
  /\ UNCHANGED <<frames, cur>>

\* When the outermost execute() returns, thinjvm_run exits.
ReturnFromVM ==
  /\ In("execute") /\ flag[cur] # "clear"
  /\ flag' = [flag EXCEPT ![cur] = "clear"]
  /\ cstack' = Front(cstack)
  /\ GoesAstray(Last(cstack).thread # cur)
  /\ UNCHANGED <<frames, thrown, cur>>

\* tryYield comes before the test of the flag.
tryYield ==
  /\ In("execute")
  /\ \E t \in Thread \ {cur} : cur' = t
  /\ UNCHANGED <<frames, flag, thrown, cstack, astray>>

-----------------------------------------------------------------------------
(* Natives                                                                 *)

Native == In("native") /\ UNCHANGED cur

call_method ==
  /\ Native
  /\ Len(cstack) < MaxDepth
  /\ push_frame(cur, TRUE)
  /\ cstack' = Append(cstack, C("execute", Len(frames[cur]) + 1))
  /\ GoesAstray(flag[cur] # "clear" \/ Len(frames[cur]) < Last(cstack).depth)
  /\ UNCHANGED thrown

NativeThrow == Native /\ throwException /\ UNCHANGED cstack

\* Faulty: the native takes its caller's frame with it.
NativeReturnPops ==
  /\ Native
  /\ cstack' = Front(cstack)
  /\ frames' = [frames EXCEPT ![cur] = Front(@)]
  /\ UNCHANGED <<flag, thrown, astray>>

NativeReturn ==
  /\ Native
  /\ cstack' = Front(cstack)
  /\ UNCHANGED <<frames, flag, thrown, astray>>

Next ==
  \/ Invoke \/ Return \/ athrow \/ InvokeNative \/ ReturnFromVM \/ tryYield
  \/ call_method \/ NativeThrow \/ NativeReturn

Spec == Init /\ [][Next]_vars

-----------------------------------------------------------------------------
(* Properties                                                              *)

\* Every variable has the values its declaration allows.
TypeOK ==
  /\ frames \in [Thread -> Seq(BOOLEAN)]
  /\ \A t \in Thread : Len(frames[t]) <= MaxFrames
  /\ flag \in [Thread -> {"clear", "returned", "unwound"}]
  /\ thrown \in [Thread -> BOOLEAN]
  /\ cstack \in Seq([function : {"execute", "native"}, thread : Thread, depth : Nat])
  /\ cur \in Thread
  /\ astray \in BOOLEAN

ExecuteFrames(t) ==
  {c.depth : c \in {c \in ToSet(cstack) : c.function = "execute" /\ c.thread = t}}
ReturningFrames(t) == {i \in DOMAIN frames[t] : frames[t][i]}

\* frame.h:55, "When a frame is popped and this is true, the execute() function
\* will return": every execute() still has the frame it was called for, or that
\* frame is the one just popped and the flag that lets it return is set.
EveryExecuteHasItsFrame ==
  \A t \in Thread :
    ExecuteFrames(t) = ReturningFrames(t) \cup
                       IF flag[t] = "clear" THEN {} ELSE {Len(frames[t]) + 1}

\* Only three things part an execute() from its frame: a set flag is overwritten, a
\* native whose caller's frame is gone calls Java, an execute() returns for another
\* thread.
FramesMatch == ~ astray => EveryExecuteHasItsFrame

\* A native goes on only in the thread that called it, ...
NativeKeepsItsThread == In("native") => cur = Last(cstack).thread

\* ... with its caller's frame on top; if frames are gone, an exception unwound them
\* and ExceptionCheck says so.
NativeGoesOnInItsCaller ==
  In("native") =>
    LET depth == Last(cstack).depth
    IN  /\ NativeKeepsItsThread
        /\ Len(frames[cur]) <= depth
        /\ Len(frames[cur]) < depth => thrown[cur]

\* But for the same three events every native goes on in its caller.
NativesGoOn == ~ astray => NativeGoesOnInItsCaller

\* When an exception ends the Java code a native called, the native can tell by
\* ExceptionCheck: execute() returns before it resets exceptionThrown.
NativeSeesException ==
  [][\A t \in Thread :
       flag[t] = "unwound" /\ flag'[t] = "clear" => thrown'[t]]_vars
=============================================================================

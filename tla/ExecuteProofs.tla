--------------------------- MODULE ExecuteProofs ---------------------------
(***************************************************************************)
(* execute() and the natives keep in step, for any number of threads, any  *)
(* stack sizes and any depth of native calls, until a step of the three    *)
(* kinds that astray records.  What natives learn of exceptions holds      *)
(* always.                                                                 *)
(***************************************************************************)
EXTENDS Execute, TLAPS

FlagValue == {"clear", "returned", "unwound"}
CFrame == [function : {"execute", "native"}, thread : Thread, depth : Nat]

-----------------------------------------------------------------------------
(* Types                                                                   *)

LEMMA PrefixType ==
  ASSUME NEW S, NEW s \in Seq(S), NEW n \in 0 .. Len(s)
  PROVE  /\ SubSeq(s, 1, n) \in Seq(S)
         /\ Len(SubSeq(s, 1, n)) = n
         /\ \A i \in 1 .. n : SubSeq(s, 1, n)[i] = s[i]
OBVIOUS

LEMMA FrontType ==
  ASSUME NEW S, NEW s \in Seq(S), s # <<>>
  PROVE  /\ Front(s) \in Seq(S)
         /\ Len(Front(s)) = Len(s) - 1
         /\ \A i \in 1 .. Len(s) - 1 : Front(s)[i] = s[i]
<1>1. Len(s) - 1 \in 0 .. Len(s)
  OBVIOUS
<1>2. QED
  BY <1>1, PrefixType DEF Front

LEMMA PushType ==
  ASSUME TypeOK, NEW t \in Thread, NEW b \in BOOLEAN, push_frame(t, b)
  PROVE  /\ frames' \in [Thread -> Seq(BOOLEAN)]
         /\ \A u \in Thread : Len(frames'[u]) <= MaxFrames
         /\ flag' \in [Thread -> FlagValue]
<1>1. Append(frames[t], b) \in Seq(BOOLEAN) /\ Len(Append(frames[t], b)) = Len(frames[t]) + 1
  BY DEF TypeOK
<1>2. QED
  BY <1>1, ExecuteAssumption DEF TypeOK, push_frame, FlagValue

LEMMA PopType ==
  ASSUME TypeOK, NEW t \in Thread, NEW n \in 0 .. Len(frames[t]),
         NEW how \in FlagValue, pop_frames(t, n, how)
  PROVE  /\ frames' \in [Thread -> Seq(BOOLEAN)]
         /\ \A u \in Thread : Len(frames'[u]) <= MaxFrames
         /\ flag' \in [Thread -> FlagValue]
<1>1. frames[t] \in Seq(BOOLEAN) /\ Len(frames[t]) <= MaxFrames
  BY DEF TypeOK
<1>2. SubSeq(frames[t], 1, n) \in Seq(BOOLEAN) /\ Len(SubSeq(frames[t], 1, n)) = n
  BY <1>1, PrefixType
<1>3. QED
  BY <1>1, <1>2, ExecuteAssumption DEF TypeOK, pop_frames, FlagValue

LEMMA AstrayType ==
  ASSUME NEW b, GoesAstray(b)
  PROVE  astray' \in BOOLEAN
BY Zenon DEF GoesAstray

LEMMA ThrowType ==
  ASSUME TypeOK, throwException
  PROVE  /\ frames' \in [Thread -> Seq(BOOLEAN)]
         /\ \A u \in Thread : Len(frames'[u]) <= MaxFrames
         /\ flag' \in [Thread -> FlagValue]
         /\ thrown' \in [Thread -> BOOLEAN]
         /\ astray' \in BOOLEAN
<1>1. PICK n \in 1 .. Len(frames[cur]) :
        pop_frames(cur, n, "unwound") /\ GoesAstray(PopsLose(cur, n))
  BY DEF throwException
<1>2. cur \in Thread /\ Len(frames[cur]) \in Nat /\ "unwound" \in FlagValue
  BY DEF TypeOK, FlagValue
<1>3. n \in 0 .. Len(frames[cur])
  BY <1>2
<1>4. QED
  BY <1>1, <1>2, <1>3, PopType, AstrayType DEF TypeOK, throwException

LEMMA CallType ==
  ASSUME TypeOK, NEW f \in {"execute", "native"}, NEW d \in Nat
  PROVE  /\ Append(cstack, C(f, d)) \in Seq(CFrame)
         /\ Len(Append(cstack, C(f, d))) = Len(cstack) + 1
         /\ Append(cstack, C(f, d))[Len(cstack) + 1] = C(f, d)
         /\ \A k \in 1 .. Len(cstack) : Append(cstack, C(f, d))[k] = cstack[k]
BY DEF TypeOK, CFrame, C

LEMMA TypeStep == TypeOK /\ [Next]_vars => TypeOK'
<1>1. SUFFICES ASSUME TypeOK, [Next]_vars PROVE TypeOK'
  OBVIOUS
<1> USE <1>1
<1>2. cur \in Thread /\ frames[cur] \in Seq(BOOLEAN) /\ Len(frames[cur]) \in Nat
  BY DEF TypeOK
<1>3. CASE Invoke
  BY <1>2, <1>3, PushType DEF Invoke, Instruction, ResetThrown, TypeOK, FlagValue
<1>4. CASE Return
  <2>1. Len(frames[cur]) - 1 \in 0 .. Len(frames[cur])
    BY <1>2, <1>4 DEF Return
  <2>2. QED
    BY <1>2, <1>4, <2>1, PopType DEF Return, Instruction, ResetThrown, TypeOK, FlagValue
<1>5. CASE athrow
  BY <1>5, ThrowType DEF athrow, Instruction, TypeOK, FlagValue
<1>6. CASE InvokeNative
  BY <1>2, <1>6, CallType DEF InvokeNative, Instruction, ResetThrown, TypeOK, CFrame
<1>7. CASE ReturnFromVM
  <2>1. astray' \in BOOLEAN
    BY <1>7, AstrayType DEF ReturnFromVM
  <2>2. QED
    BY <1>7, <2>1, FrontType DEF ReturnFromVM, In, TypeOK
<1>8. CASE tryYield
  BY <1>8 DEF tryYield, TypeOK
<1>9. CASE call_method
  <2>1. TRUE \in BOOLEAN /\ Len(frames[cur]) + 1 \in Nat
    BY <1>2
  <2>2. /\ frames' \in [Thread -> Seq(BOOLEAN)]
        /\ \A t \in Thread : Len(frames'[t]) <= MaxFrames
        /\ flag' \in [Thread -> FlagValue]
    BY <1>2, <1>9, <2>1, PushType DEF call_method
  <2>3. cstack' \in Seq(CFrame)
    BY <1>9, <2>1, CallType DEF call_method
  <2>4. astray' \in BOOLEAN
    BY <1>9, AstrayType DEF call_method
  <2>5. QED
    BY <1>9, <2>2, <2>3, <2>4 DEF call_method, Native, TypeOK, CFrame, FlagValue
<1>10. CASE NativeThrow
  BY <1>10, ThrowType DEF NativeThrow, Native, TypeOK, FlagValue
<1>11. CASE NativeReturn
  BY <1>11, FrontType DEF NativeReturn, Native, In, TypeOK
<1>12. CASE UNCHANGED vars
  BY <1>12 DEF vars, TypeOK
<1>13. QED
  BY <1>3, <1>4, <1>5, <1>6, <1>7, <1>8, <1>9, <1>10, <1>11, <1>12 DEF Next

LEMMA InitType == Init => TypeOK
<1>1. SUFFICES ASSUME Init PROVE TypeOK
  OBVIOUS
<1>2. astray \in BOOLEAN
  BY <1>1, Zenon DEF Init
<1>3. QED
  BY <1>1, <1>2, ExecuteAssumption DEF Init, TypeOK, C

\* The frames, flags and C stack keep their types, and no thread has more frames
\* than its stack has room for.
THEOREM TypeCorrect == Spec => []TypeOK
<1>1. Init => TypeOK
  BY InitType
<1>2. QED
  BY <1>1, TypeStep, PTL DEF Spec

-----------------------------------------------------------------------------
(* Exceptions                                                              *)

\* An unwound frame that is still to end its execute() means a pending exception.
UnwoundIsThrown == \A t \in Thread : flag[t] = "unwound" => thrown[t]

LEMMA ThrowSetsThrown ==
  ASSUME TypeOK, UnwoundIsThrown, throwException
  PROVE  UnwoundIsThrown' /\ \A t \in Thread : thrown[t] => thrown'[t]
BY DEF TypeOK, UnwoundIsThrown, throwException, pop_frames

LEMMA UnwoundStep ==
  ASSUME TypeOK, UnwoundIsThrown, [Next]_vars
  PROVE  /\ UnwoundIsThrown'
         /\ \A t \in Thread : flag[t] = "unwound" /\ flag'[t] = "clear" => thrown'[t]
<1>1. cur \in Thread /\ flag \in [Thread -> FlagValue] /\ thrown \in [Thread -> BOOLEAN]
  BY DEF TypeOK, FlagValue
<1>2. CASE Invoke
  BY <1>1, <1>2 DEF Invoke, Instruction, ResetThrown, push_frame, UnwoundIsThrown
<1>3. CASE Return
  BY <1>1, <1>3 DEF Return, Instruction, ResetThrown, pop_frames, UnwoundIsThrown
<1>4. CASE athrow
  BY <1>4, ThrowSetsThrown DEF athrow, UnwoundIsThrown
<1>5. CASE InvokeNative
  BY <1>1, <1>5 DEF InvokeNative, Instruction, ResetThrown, UnwoundIsThrown
<1>6. CASE ReturnFromVM
  BY <1>1, <1>6 DEF ReturnFromVM, UnwoundIsThrown
<1>7. CASE tryYield
  BY <1>7 DEF tryYield, UnwoundIsThrown
<1>8. CASE call_method
  BY <1>1, <1>8 DEF call_method, push_frame, UnwoundIsThrown
<1>9. CASE NativeThrow
  BY <1>9, ThrowSetsThrown DEF NativeThrow, UnwoundIsThrown
<1>10. CASE NativeReturn
  BY <1>10 DEF NativeReturn, UnwoundIsThrown
<1>11. CASE UNCHANGED vars
  BY <1>11 DEF vars, UnwoundIsThrown
<1>12. QED
  BY <1>2, <1>3, <1>4, <1>5, <1>6, <1>7, <1>8, <1>9, <1>10, <1>11 DEF Next

\* A native can always tell that an exception ended the Java code it called,
\* whatever natives and threads do.
THEOREM ExceptionsAreSeen == Spec => NativeSeesException
<1>1. Init => UnwoundIsThrown
  BY DEF Init, UnwoundIsThrown
<1>2. TypeOK /\ UnwoundIsThrown /\ [Next]_vars => UnwoundIsThrown'
  BY UnwoundStep
<1>3. TypeOK /\ UnwoundIsThrown /\ [Next]_vars =>
        [\A t \in Thread : flag[t] = "unwound" /\ flag'[t] = "clear" => thrown'[t]]_vars
  BY UnwoundStep
<1>4. QED
  BY <1>1, <1>2, <1>3, TypeCorrect, PTL DEF Spec, NativeSeesException

-----------------------------------------------------------------------------
(* The invariant                                                           *)

\* k is an execute() that thread t called.
Runs(k, t) == cstack[k].function = "execute" /\ cstack[k].thread = t

\* EveryExecuteHasItsFrame, in three parts.
HasFrame(t) ==
  /\ \A k \in 1 .. Len(cstack) : Runs(k, t) =>
       \/ cstack[k].depth \in ReturningFrames(t)
       \/ flag[t] # "clear" /\ cstack[k].depth = Len(frames[t]) + 1
  /\ \A i \in ReturningFrames(t) :
       \E k \in 1 .. Len(cstack) : Runs(k, t) /\ cstack[k].depth = i
  /\ flag[t] # "clear" =>
       \E k \in 1 .. Len(cstack) : Runs(k, t) /\ cstack[k].depth = Len(frames[t]) + 1

\* execute() and natives in turn; an execute() that a native called is of the same
\* thread and one frame above that native's caller.
Alternates ==
  /\ cstack # <<>> => Runs(1, main)
  /\ \A k \in 1 .. Len(cstack) - 1 :
       \/ /\ cstack[k].function = "native" /\ cstack[k + 1].function = "execute"
          /\ cstack[k + 1].thread = cstack[k].thread
          /\ cstack[k + 1].depth = cstack[k].depth + 1
       \/ cstack[k].function = "execute" /\ cstack[k + 1].function = "native"

\* Of the C functions of one thread those on top have the higher frames.
Ordered ==
  \A j, k \in 1 .. Len(cstack) :
    j < k /\ cstack[j].thread = cstack[k].thread =>
      /\ cstack[j].depth <= cstack[k].depth
      /\ cstack[k].function = "execute" => cstack[j].depth < cstack[k].depth

\* In a native no frame is pending but one that an exception unwound.
NativeFlag == In("native") => flag[cur] # "returned"

InStep ==
  /\ TypeOK /\ UnwoundIsThrown
  /\ \A t \in Thread : HasFrame(t)
  /\ Alternates /\ Ordered /\ NativeFlag /\ NativeGoesOnInItsCaller

IInv == TypeOK /\ UnwoundIsThrown /\ (~ astray => InStep)

LEMMA Facts ==
  ASSUME TypeOK
  PROVE  /\ cstack \in Seq(CFrame) /\ Len(cstack) \in Nat
         /\ \A k \in 1 .. Len(cstack) : cstack[k] \in CFrame /\ cstack[k].depth \in Nat
         /\ \A t \in Thread : frames[t] \in Seq(BOOLEAN) /\ Len(frames[t]) \in Nat
         /\ \A t \in Thread : ReturningFrames(t) \subseteq 1 .. Len(frames[t])
         /\ cur \in Thread
         /\ flag \in [Thread -> FlagValue]
<1>1. \A t \in Thread : frames[t] \in Seq(BOOLEAN) /\ Len(frames[t]) \in Nat
  BY DEF TypeOK
<1>2. \A t \in Thread : ReturningFrames(t) \subseteq 1 .. Len(frames[t])
  BY <1>1 DEF ReturningFrames
<1>3. cstack \in Seq(CFrame)
  BY DEF TypeOK, CFrame
<1>4. \A k \in 1 .. Len(cstack) : cstack[k] \in CFrame
  BY <1>3
<1>5. QED
  BY <1>1, <1>2, <1>3, <1>4 DEF TypeOK, CFrame, FlagValue

LEMMA HasFrameSame ==
  ASSUME NEW t \in Thread, HasFrame(t),
         cstack' = cstack, frames'[t] = frames[t], flag'[t] = flag[t]
  PROVE  HasFrame(t)'
BY DEF HasFrame, Runs, ReturningFrames

\* Popping the frames of the current thread, one with returnFromVM at most, and
\* that one last.
LEMMA PopFrame ==
  ASSUME TypeOK, \A t \in Thread : HasFrame(t), flag[cur] = "clear",
         NEW n \in 0 .. Len(frames[cur]), NEW how \in {"returned", "unwound"},
         \A i \in n + 2 .. Len(frames[cur]) : ~ frames[cur][i],
         pop_frames(cur, n, how), cstack' = cstack
  PROVE  \A t \in Thread : HasFrame(t)'
<1>1. /\ cur \in Thread /\ frames[cur] \in Seq(BOOLEAN) /\ Len(frames[cur]) \in Nat
      /\ n \in Nat
  BY Facts DEF TypeOK
<1>2. ASSUME NEW t \in Thread, t # cur PROVE HasFrame(t)'
  <2>1. frames'[t] = frames[t] /\ flag'[t] = flag[t]
    BY <1>2 DEF TypeOK, pop_frames
  <2>2. QED
    BY <1>2, <2>1, HasFrameSame
<1>3. ASSUME NEW t \in Thread, t = cur PROVE HasFrame(t)'
  <2>1. /\ Len(frames'[t]) = n
        /\ \A i \in 1 .. n : frames'[t][i] = frames[t][i]
        /\ frames'[t] \in Seq(BOOLEAN)
    BY <1>1, <1>3, PrefixType DEF TypeOK, pop_frames
  <2>2. \A i : i \in ReturningFrames(t)' <=> i \in ReturningFrames(t) /\ i <= n
    <3>1. DOMAIN frames'[t] = 1 .. n /\ DOMAIN frames[t] = 1 .. Len(frames[t])
      BY <1>1, <1>3, <2>1
    <3>2. QED
      BY <1>1, <1>3, <2>1, <3>1 DEF ReturningFrames
  <2>3. \A i \in ReturningFrames(t) : i \in 1 .. n \/ i = n + 1
    BY <1>1, <1>3 DEF ReturningFrames
  <2>4. flag'[t] # "clear" <=> n + 1 \in ReturningFrames(t)
    <3>1. CASE n = Len(frames[t])
      BY <1>1, <1>3, <3>1 DEF pop_frames, ReturningFrames
    <3>2. CASE n # Len(frames[t])
      <4>1. n + 1 \in DOMAIN frames[t]
        BY <1>1, <1>3, <3>2
      <4>2. flag'[t] = IF frames[t][n + 1] THEN how ELSE "clear"
        BY <1>1, <1>3, <3>2 DEF pop_frames, TypeOK
      <4>3. QED
        BY <4>1, <4>2 DEF ReturningFrames
    <3>3. QED
      BY <3>1, <3>2
  <2>5. \A k \in 1 .. Len(cstack) :
          Runs(k, t) => cstack[k].depth \in ReturningFrames(t)
    BY <1>3 DEF HasFrame
  <2>6. \A i \in ReturningFrames(t) :
          \E k \in 1 .. Len(cstack) : Runs(k, t) /\ cstack[k].depth = i
    BY DEF HasFrame
  <2>7. \A k \in 1 .. Len(cstack) : Runs(k, t) =>
          \/ cstack[k].depth \in ReturningFrames(t)'
          \/ flag'[t] # "clear" /\ cstack[k].depth = n + 1
    BY <1>1, <2>2, <2>3, <2>4, <2>5
  <2>8. QED
    BY <2>1, <2>2, <2>4, <2>6, <2>7 DEF HasFrame, Runs
<1>4. QED
  BY <1>2, <1>3

\* An exception that loses no flag.
LEMMA ThrowFrame ==
  ASSUME TypeOK, \A t \in Thread : HasFrame(t), flag[cur] # "returned",
         throwException, ~ astray', cstack' = cstack
  PROVE  /\ \A t \in Thread : HasFrame(t)'
         /\ thrown'[cur] /\ flag'[cur] # "returned"
         /\ Len(frames'[cur]) <= Len(frames[cur])
<1>1. PICK n \in 1 .. Len(frames[cur]) :
        pop_frames(cur, n, "unwound") /\ GoesAstray(PopsLose(cur, n))
  BY DEF throwException
<1>2. /\ cur \in Thread /\ frames[cur] \in Seq(BOOLEAN) /\ Len(frames[cur]) \in Nat
      /\ n \in 0 .. Len(frames[cur])
  BY Facts
<1>3. /\ \A i \in n + 2 .. Len(frames[cur]) : ~ frames[cur][i]
      /\ flag[cur] = "clear" \/ n = Len(frames[cur])
  <2>1. ~ PopsLose(cur, n)
    BY <1>1 DEF GoesAstray
  <2>2. QED
    BY <1>2, <2>1 DEF PopsLose
<1>4. \A t \in Thread : HasFrame(t)'
  <2>1. CASE flag[cur] = "clear"
    BY <1>1, <1>2, <1>3, <2>1, PopFrame
  <2>2. CASE n = Len(frames[cur])
    <3>1. SubSeq(frames[cur], 1, n) = frames[cur]
      BY <1>2, <2>2
    <3>2. frames' = frames /\ flag' = flag
      BY <1>1, <1>2, <2>2, <3>1 DEF pop_frames, TypeOK
    <3>3. QED
      BY <3>2, HasFrameSame
  <2>3. QED
    BY <1>3, <2>1, <2>2
<1>5. thrown'[cur] /\ flag'[cur] # "returned"
  BY <1>1, <1>2 DEF throwException, pop_frames, TypeOK
<1>6. Len(frames'[cur]) = n
  BY <1>1, <1>2, PrefixType DEF pop_frames, TypeOK
<1>7. QED
  BY <1>2, <1>4, <1>5, <1>6

\* The C stack as it was, with the same thread on it.
LEMMA StackSame ==
  ASSUME Alternates, Ordered, cstack' = cstack, cur' = cur
  PROVE  Alternates' /\ Ordered'
BY DEF Alternates, Ordered, Runs

LEMMA NotInNative ==
  ASSUME In("execute"), cstack' = cstack
  PROVE  NativeFlag' /\ NativeGoesOnInItsCaller'
BY DEF In, NativeFlag, NativeGoesOnInItsCaller

LEMMA InvokeInv ==
  ASSUME InStep, Invoke
  PROVE  /\ \A t \in Thread : HasFrame(t)'
         /\ Alternates' /\ Ordered' /\ NativeFlag' /\ NativeGoesOnInItsCaller'
<1>1. /\ In("execute") /\ flag[cur] = "clear" /\ cstack' = cstack /\ cur' = cur
      /\ push_frame(cur, FALSE)
  BY DEF Invoke, Instruction
<1>2. Alternates' /\ Ordered' /\ NativeFlag' /\ NativeGoesOnInItsCaller'
  BY <1>1, StackSame, NotInNative DEF InStep
<1>3. ASSUME NEW t \in Thread PROVE HasFrame(t)'
  <2>1. CASE t # cur
    <3>1. frames'[t] = frames[t] /\ flag'[t] = flag[t]
      BY <1>1, <2>1 DEF InStep, TypeOK, push_frame
    <3>2. QED
      BY <1>1, <3>1, HasFrameSame DEF InStep
  <2>2. CASE t = cur
    <3>1. frames[t] \in Seq(BOOLEAN)
      BY DEF InStep, TypeOK
    <3>2. frames'[t] = Append(frames[t], FALSE) /\ flag'[t] = "clear"
      BY <1>1, <2>2 DEF InStep, TypeOK, push_frame
    <3>3. ReturningFrames(t)' = ReturningFrames(t)
      BY <3>1, <3>2 DEF ReturningFrames
    <3>4. HasFrame(t)
      BY DEF InStep
    <3>5. QED
      BY <1>1, <2>2, <3>2, <3>3, <3>4 DEF HasFrame, Runs
  <2>3. QED
    BY <2>1, <2>2
<1>4. QED
  BY <1>2, <1>3

LEMMA ReturnInv ==
  ASSUME InStep, Return
  PROVE  /\ \A t \in Thread : HasFrame(t)'
         /\ Alternates' /\ Ordered' /\ NativeFlag' /\ NativeGoesOnInItsCaller'
<1>1. /\ In("execute") /\ flag[cur] = "clear" /\ cstack' = cstack /\ cur' = cur
      /\ Len(frames[cur]) > 0
      /\ pop_frames(cur, Len(frames[cur]) - 1, "returned")
  BY Facts DEF Return, Instruction, InStep
<1>2. Alternates' /\ Ordered' /\ NativeFlag' /\ NativeGoesOnInItsCaller'
  BY <1>1, StackSame, NotInNative DEF InStep
<1>3. Len(frames[cur]) - 1 \in 0 .. Len(frames[cur])
  BY <1>1, Facts DEF InStep
<1>4. \A i \in (Len(frames[cur]) - 1) + 2 .. Len(frames[cur]) : ~ frames[cur][i]
  BY Facts DEF InStep
<1>5. \A t \in Thread : HasFrame(t)'
  BY <1>1, <1>3, <1>4, PopFrame DEF InStep
<1>6. QED
  BY <1>2, <1>5

LEMMA athrowInv ==
  ASSUME InStep, athrow, ~ astray'
  PROVE  /\ \A t \in Thread : HasFrame(t)'
         /\ Alternates' /\ Ordered' /\ NativeFlag' /\ NativeGoesOnInItsCaller'
<1>1. /\ In("execute") /\ flag[cur] = "clear" /\ cstack' = cstack /\ cur' = cur
      /\ throwException
  BY DEF athrow, Instruction
<1>2. QED
  BY <1>1, ThrowFrame, StackSame, NotInNative DEF InStep

LEMMA tryYieldInv ==
  ASSUME InStep, tryYield
  PROVE  /\ \A t \in Thread : HasFrame(t)'
         /\ Alternates' /\ Ordered' /\ NativeFlag' /\ NativeGoesOnInItsCaller'
<1>1. In("execute") /\ cstack' = cstack /\ frames' = frames /\ flag' = flag
  BY DEF tryYield
<1>2. \A t \in Thread : HasFrame(t)'
  BY <1>1, HasFrameSame DEF InStep
<1>3. Alternates' /\ Ordered'
  BY <1>1 DEF InStep, Alternates, Ordered, Runs
<1>4. QED
  BY <1>1, <1>2, <1>3, NotInNative

LEMMA NativeThrowInv ==
  ASSUME InStep, NativeThrow, ~ astray'
  PROVE  /\ \A t \in Thread : HasFrame(t)'
         /\ Alternates' /\ Ordered' /\ NativeFlag' /\ NativeGoesOnInItsCaller'
<1>1. In("native") /\ cstack' = cstack /\ cur' = cur /\ throwException
  BY DEF NativeThrow, Native
<1>2. flag[cur] # "returned"
  BY <1>1 DEF InStep, NativeFlag
<1>3. /\ \A t \in Thread : HasFrame(t)'
      /\ thrown'[cur] /\ flag'[cur] # "returned"
      /\ Len(frames'[cur]) <= Len(frames[cur])
  BY <1>1, <1>2, ThrowFrame DEF InStep
<1>4. NativeFlag'
  BY <1>1, <1>3 DEF NativeFlag
<1>5. NativeGoesOnInItsCaller'
  <2>1. cur = Last(cstack).thread /\ Len(frames[cur]) <= Last(cstack).depth
    BY <1>1 DEF InStep, NativeGoesOnInItsCaller, NativeKeepsItsThread
  <2>2. Last(cstack).depth \in Nat
    BY <1>1, Facts DEF InStep, In, Last
  <2>3. Len(frames'[cur]) \in Nat /\ Len(frames[cur]) \in Nat
    <3>1. NativeThrow => [Next]_vars
      BY DEF Next
    <3>2. TypeOK'
      BY <3>1, TypeStep DEF InStep
    <3>3. QED
      BY <1>1, <3>2 DEF InStep, TypeOK
  <2>4. Len(frames'[cur]) <= Last(cstack).depth
    BY <1>3, <2>1, <2>2, <2>3
  <2>5. QED
    BY <1>1, <1>3, <2>1, <2>4 DEF NativeGoesOnInItsCaller, NativeKeepsItsThread
<1>6. QED
  BY <1>1, <1>3, <1>4, <1>5, StackSame DEF InStep

LEMMA InvokeNativeInv ==
  ASSUME InStep, InvokeNative
  PROVE  /\ \A t \in Thread : HasFrame(t)'
         /\ Alternates' /\ Ordered' /\ NativeFlag' /\ NativeGoesOnInItsCaller'
<1> DEFINE n == Len(cstack)
           d == Len(frames[cur])
<1>1. /\ In("execute") /\ flag[cur] = "clear" /\ frames' = frames /\ flag' = flag
      /\ cur' = cur /\ cstack' = Append(cstack, C("native", d))
  BY DEF InvokeNative, Instruction
<1>2. n \in Nat /\ n > 0 /\ cstack[n].function = "execute" /\ cur \in Thread /\ d \in Nat
  BY <1>1, Facts DEF InStep, In, Last
<1>3. /\ Len(cstack') = n + 1
      /\ cstack'[n + 1] = [function |-> "native", thread |-> cur, depth |-> d]
      /\ \A k \in 1 .. n : cstack'[k] = cstack[k]
  BY <1>1, <1>2, CallType DEF InStep, C
<1>4. \A k \in 1 .. n : cstack[k] \in CFrame /\ cstack[k].depth \in Nat
  BY Facts DEF InStep
<1> HIDE DEF n, d
<1>5. ASSUME NEW t \in Thread PROVE HasFrame(t)'
  <2>1. HasFrame(t)
    BY DEF InStep
  <2>2. \A k \in 1 .. n + 1 : Runs(k, t)' <=> k \in 1 .. n /\ Runs(k, t)
    BY <1>2, <1>3 DEF Runs
  <2>3. ReturningFrames(t)' = ReturningFrames(t)
    BY <1>1 DEF ReturningFrames
  <2>4. QED
    BY <1>1, <1>2, <1>3, <2>1, <2>2, <2>3 DEF HasFrame, n
<1>6. Alternates'
  <2>1. /\ Runs(1, main)
        /\ \A k \in 1 .. n - 1 :
             \/ /\ cstack[k].function = "native" /\ cstack[k + 1].function = "execute"
                /\ cstack[k + 1].thread = cstack[k].thread
                /\ cstack[k + 1].depth = cstack[k].depth + 1
             \/ cstack[k].function = "execute" /\ cstack[k + 1].function = "native"
    BY <1>2 DEF InStep, Alternates, n
  <2>2. Runs(1, main)'
    BY <1>2, <1>3, <2>1 DEF Runs
  <2>3. \A k \in 1 .. n : (k \in 1 .. n - 1 /\ k + 1 \in 1 .. n) \/ k = n
    BY <1>2
  <2>4. \A k \in 1 .. n :
          \/ /\ cstack'[k].function = "native" /\ cstack'[k + 1].function = "execute"
             /\ cstack'[k + 1].thread = cstack'[k].thread
             /\ cstack'[k + 1].depth = cstack'[k].depth + 1
          \/ cstack'[k].function = "execute" /\ cstack'[k + 1].function = "native"
    BY <1>2, <1>3, <2>1, <2>3
  <2>5. QED
    BY <1>1, <1>2, <1>3, <2>2, <2>4 DEF Alternates
<1>7. ASSUME NEW j \in 1 .. n, cstack[j].thread = cur PROVE cstack[j].depth <= d
  <2>1. \A k \in 1 .. n : Runs(k, cur) => cstack[k].depth <= d
    BY <1>1, <1>2, Facts DEF InStep, HasFrame, n, d
  <2>2. CASE cstack[j].function = "execute"
    BY <1>7, <2>1, <2>2 DEF Runs
  <2>3. CASE cstack[j].function = "native"
    <3>1. j \in 1 .. n - 1 /\ j + 1 \in 2 .. n /\ j + 1 \in 1 .. n
      BY <1>2, <1>7, <2>3
    <3>2. /\ cstack[j + 1].function = "execute" /\ cstack[j + 1].thread = cur
          /\ cstack[j + 1].depth = cstack[j].depth + 1
      BY <1>7, <2>3, <3>1 DEF InStep, Alternates, n
    <3>3. cstack[j].depth + 1 <= d
      BY <2>1, <3>1, <3>2 DEF Runs
    <3>4. QED
      BY <1>2, <1>4, <3>3
  <2>4. QED
    BY <1>4, <2>2, <2>3 DEF CFrame
<1>8. Ordered'
  <2>1. SUFFICES ASSUME NEW j \in 1 .. n + 1, NEW k \in 1 .. n + 1,
                        j < k, cstack'[j].thread = cstack'[k].thread
                 PROVE  /\ cstack'[j].depth <= cstack'[k].depth
                        /\ cstack'[k].function = "execute" =>
                             cstack'[j].depth < cstack'[k].depth
    BY <1>3 DEF Ordered
  <2>2. j \in 1 .. n
    BY <1>2, <2>1
  <2>3. CASE k \in 1 .. n
    BY <1>3, <2>1, <2>2, <2>3 DEF InStep, Ordered, n
  <2>4. CASE k = n + 1
    BY <1>3, <1>7, <2>1, <2>2, <2>4
  <2>5. QED
    BY <1>2, <2>1, <2>3, <2>4
<1>9. NativeFlag'
  BY <1>1 DEF NativeFlag
<1>10. NativeGoesOnInItsCaller'
  BY <1>1, <1>2, <1>3 DEF NativeGoesOnInItsCaller, NativeKeepsItsThread, Last, d
<1>11. QED
  BY <1>5, <1>6, <1>8, <1>9, <1>10

LEMMA call_methodInv ==
  ASSUME InStep, call_method, ~ astray'
  PROVE  /\ \A t \in Thread : HasFrame(t)'
         /\ Alternates' /\ Ordered' /\ NativeFlag' /\ NativeGoesOnInItsCaller'
<1> DEFINE n == Len(cstack)
           d == Len(frames[cur])
<1>1. /\ In("native") /\ cur' = cur /\ cstack' = Append(cstack, C("execute", d + 1))
      /\ push_frame(cur, TRUE)
  BY DEF call_method, Native
<1>2. /\ n \in Nat /\ n > 0 /\ cstack[n].function = "native" /\ cur \in Thread
      /\ d \in Nat /\ frames[cur] \in Seq(BOOLEAN)
  BY <1>1, Facts DEF InStep, In, Last
<1>3. /\ Len(cstack') = n + 1
      /\ cstack'[n + 1] = [function |-> "execute", thread |-> cur, depth |-> d + 1]
      /\ \A k \in 1 .. n : cstack'[k] = cstack[k]
  BY <1>1, <1>2, CallType DEF InStep, C
<1>4. \A k \in 1 .. n : cstack[k] \in CFrame /\ cstack[k].depth \in Nat
  BY Facts DEF InStep
<1>5. flag[cur] = "clear" /\ ~ (d < cstack[n].depth)
  BY DEF call_method, GoesAstray, Last
<1>6. cstack[n].thread = cur /\ cstack[n].depth = d
  <2>1. cstack[n].thread = cur /\ d <= cstack[n].depth /\ n \in 1 .. n
    BY <1>1, <1>2 DEF InStep, NativeGoesOnInItsCaller, NativeKeepsItsThread, Last
  <2>2. QED
    BY <1>2, <1>4, <1>5, <2>1
<1> HIDE DEF n, d
<1>7. ASSUME NEW t \in Thread, t # cur PROVE HasFrame(t)'
  <2>1. HasFrame(t)
    BY DEF InStep
  <2>2. \A k \in 1 .. n + 1 : Runs(k, t)' <=> k \in 1 .. n /\ Runs(k, t)
    BY <1>2, <1>3, <1>7 DEF Runs
  <2>3. frames'[t] = frames[t] /\ flag'[t] = flag[t]
    BY <1>1, <1>7 DEF InStep, TypeOK, push_frame
  <2>4. ReturningFrames(t)' = ReturningFrames(t)
    BY <2>3 DEF ReturningFrames
  <2>5. QED
    BY <1>2, <1>3, <2>1, <2>2, <2>3, <2>4 DEF HasFrame, n
<1>8. ASSUME NEW t \in Thread, t = cur PROVE HasFrame(t)'
  <2>1. /\ \A k \in 1 .. n : Runs(k, t) => cstack[k].depth \in ReturningFrames(t)
        /\ \A i \in ReturningFrames(t) :
             \E k \in 1 .. n : Runs(k, t) /\ cstack[k].depth = i
    BY <1>5, <1>8 DEF InStep, HasFrame, n
  <2>2. \A k \in 1 .. n : Runs(k, t)' <=> Runs(k, t)
    BY <1>3 DEF Runs
  <2>3. \A k : k = n + 1 => Runs(k, t)' /\ cstack'[k].depth = d + 1
    BY <1>3, <1>8 DEF Runs
  <2>4. frames'[t] = Append(frames[t], TRUE) /\ flag'[t] = "clear"
    BY <1>1, <1>8 DEF InStep, TypeOK, push_frame
  <2>5. ReturningFrames(t)' = ReturningFrames(t) \cup {d + 1}
    BY <1>2, <1>8, <2>4 DEF ReturningFrames, d
  <2>6. \A k \in 1 .. n + 1 : k \in 1 .. n \/ k = n + 1
    BY <1>2
  <2>7. n + 1 \in 1 .. n + 1 /\ \A k \in 1 .. n : k \in 1 .. n + 1
    BY <1>2
  <2>8. \A k \in 1 .. n + 1 : Runs(k, t)' => cstack'[k].depth \in ReturningFrames(t)'
    BY <1>3, <2>1, <2>2, <2>3, <2>5, <2>6
  <2>9. \A i \in ReturningFrames(t)' :
          \E k \in 1 .. n + 1 : Runs(k, t)' /\ cstack'[k].depth = i
    <3>1. SUFFICES ASSUME NEW i \in ReturningFrames(t)'
                   PROVE  \E k \in 1 .. n + 1 : Runs(k, t)' /\ cstack'[k].depth = i
      OBVIOUS
    <3>2. CASE i \in ReturningFrames(t)
      BY <1>3, <2>1, <2>2, <2>7, <3>2
    <3>3. CASE i = d + 1
      BY <2>3, <2>7, <3>3
    <3>4. QED
      BY <2>5, <3>1, <3>2, <3>3
  <2>10. QED
    BY <1>3, <2>4, <2>8, <2>9 DEF HasFrame
<1>9. Alternates'
  <2>1. /\ Runs(1, main)
        /\ \A k \in 1 .. n - 1 :
             \/ /\ cstack[k].function = "native" /\ cstack[k + 1].function = "execute"
                /\ cstack[k + 1].thread = cstack[k].thread
                /\ cstack[k + 1].depth = cstack[k].depth + 1
             \/ cstack[k].function = "execute" /\ cstack[k + 1].function = "native"
    BY <1>2 DEF InStep, Alternates, n
  <2>2. Runs(1, main)'
    BY <1>2, <1>3, <2>1 DEF Runs
  <2>3. \A k \in 1 .. n : (k \in 1 .. n - 1 /\ k + 1 \in 1 .. n) \/ k = n
    BY <1>2
  <2>4. \A k \in 1 .. n :
          \/ /\ cstack'[k].function = "native" /\ cstack'[k + 1].function = "execute"
             /\ cstack'[k + 1].thread = cstack'[k].thread
             /\ cstack'[k + 1].depth = cstack'[k].depth + 1
          \/ cstack'[k].function = "execute" /\ cstack'[k + 1].function = "native"
    <3>1. n \in 1 .. n
      BY <1>2
    <3>2. /\ cstack'[n].function = "native" /\ cstack'[n + 1].function = "execute"
          /\ cstack'[n + 1].thread = cstack'[n].thread
          /\ cstack'[n + 1].depth = cstack'[n].depth + 1
      BY <1>2, <1>3, <1>6, <3>1
    <3>3. QED
      <4>1. SUFFICES ASSUME NEW k \in 1 .. n, k # n
                     PROVE
             \/ /\ cstack'[k].function = "native" /\ cstack'[k + 1].function = "execute"
                /\ cstack'[k + 1].thread = cstack'[k].thread
                /\ cstack'[k + 1].depth = cstack'[k].depth + 1
             \/ cstack'[k].function = "execute" /\ cstack'[k + 1].function = "native"
        BY <3>2
      <4>2. k \in 1 .. n - 1 /\ k + 1 \in 1 .. n
        BY <2>3, <4>1
      <4>3. cstack'[k] = cstack[k] /\ cstack'[k + 1] = cstack[k + 1]
        BY <1>3, <4>1, <4>2
      <4>4. QED
        BY <2>1, <4>2, <4>3
  <2>5. QED
    BY <1>1, <1>2, <1>3, <2>2, <2>4, n + 1 - 1 = n DEF Alternates
<1>10. Ordered'
  <2>1. SUFFICES ASSUME NEW j \in 1 .. n + 1, NEW k \in 1 .. n + 1,
                        j < k, cstack'[j].thread = cstack'[k].thread
                 PROVE  /\ cstack'[j].depth <= cstack'[k].depth
                        /\ cstack'[k].function = "execute" =>
                             cstack'[j].depth < cstack'[k].depth
    BY <1>3 DEF Ordered
  <2>2. j \in 1 .. n
    BY <1>2, <2>1
  <2>3. CASE k \in 1 .. n
    BY <1>3, <2>1, <2>2, <2>3 DEF InStep, Ordered, n
  <2>4. CASE k = n + 1
    <3>1. cstack[j].thread = cur
      BY <1>3, <2>1, <2>2, <2>4
    <3>2. n \in 1 .. n
      BY <1>2
    <3>3. cstack[j].depth <= d
      <4>1. CASE j = n
        BY <1>2, <1>6, <4>1
      <4>2. CASE j # n
        <5>1. j < n
          BY <1>2, <2>2, <4>2
        <5>2. QED
          BY <1>6, <2>2, <3>1, <3>2, <5>1 DEF InStep, Ordered, n
      <4>3. QED
        BY <4>1, <4>2
    <3>4. QED
      BY <1>2, <1>3, <1>4, <2>2, <2>4, <3>3
  <2>5. QED
    BY <1>2, <2>1, <2>3, <2>4
<1>11. ~ In("native")'
  BY <1>2, <1>3 DEF In, Last
<1>12. QED
  BY <1>7, <1>8, <1>9, <1>10, <1>11 DEF NativeFlag, NativeGoesOnInItsCaller

\* What a C function that returns leaves of the C stack.
LEMMA ShorterStack ==
  ASSUME InStep, cstack # <<>>, cstack' = Front(cstack), cur' = cur
  PROVE  Alternates' /\ Ordered'
<1> DEFINE n == Len(cstack)
<1>1. n \in Nat /\ n > 0
  BY Facts DEF InStep
<1>2. Len(cstack') = n - 1 /\ \A k \in 1 .. n - 1 : cstack'[k] = cstack[k]
  BY Facts, FrontType DEF InStep
<1>3. Ordered'
  BY <1>1, <1>2 DEF InStep, Ordered
<1> HIDE DEF n
<1>4. cstack' # <<>> => Runs(1, main)'
  <2>1. SUFFICES ASSUME cstack' # <<>> PROVE Runs(1, main)'
    OBVIOUS
  <2>2. Runs(1, main)
    BY DEF InStep, Alternates
  <2>3. cstack' \in Seq(CFrame)
    BY Facts, FrontType DEF InStep
  <2>4. 1 \in 1 .. n - 1
    BY <1>1, <1>2, <2>1, <2>3
  <2>5. QED
    BY <1>2, <2>2, <2>4 DEF Runs
<1>5. \A k \in 1 .. (n - 1) - 1 :
        k \in 1 .. n - 1 /\ k + 1 \in 1 .. n - 1 /\ k \in 1 .. n
  BY <1>1
<1>6. \A k \in 1 .. (n - 1) - 1 :
        \/ /\ cstack'[k].function = "native" /\ cstack'[k + 1].function = "execute"
           /\ cstack'[k + 1].thread = cstack'[k].thread
           /\ cstack'[k + 1].depth = cstack'[k].depth + 1
        \/ cstack'[k].function = "execute" /\ cstack'[k + 1].function = "native"
  BY <1>2, <1>5 DEF InStep, Alternates, n
<1>7. QED
  BY <1>2, <1>3, <1>4, <1>6 DEF Alternates

LEMMA NativeReturnInv ==
  ASSUME InStep, NativeReturn
  PROVE  /\ \A t \in Thread : HasFrame(t)'
         /\ Alternates' /\ Ordered' /\ NativeFlag' /\ NativeGoesOnInItsCaller'
<1> DEFINE n == Len(cstack)
<1>1. /\ In("native") /\ cur' = cur /\ cstack' = Front(cstack)
      /\ frames' = frames /\ flag' = flag
  BY DEF NativeReturn, Native
<1>2. n \in Nat /\ n > 0 /\ cstack[n].function = "native"
  BY <1>1, Facts DEF InStep, In, Last
<1>3. /\ Len(cstack') = n - 1 /\ \A k \in 1 .. n - 1 : cstack'[k] = cstack[k]
      /\ cstack' \in Seq(CFrame)
  BY <1>1, <1>2, Facts, FrontType DEF InStep, In
<1> HIDE DEF n
<1>4. ASSUME NEW t \in Thread PROVE HasFrame(t)'
  <2>1. HasFrame(t)
    BY DEF InStep
  <2>2. \A k \in 1 .. n : Runs(k, t) => k \in 1 .. n - 1
    BY <1>2 DEF Runs
  <2>3. \A k \in 1 .. n - 1 : k \in 1 .. n /\ (Runs(k, t)' <=> Runs(k, t))
    BY <1>2, <1>3 DEF Runs
  <2>4. ReturningFrames(t)' = ReturningFrames(t)
    BY <1>1 DEF ReturningFrames
  <2>5. \A k \in 1 .. n - 1 : Runs(k, t)' => cstack'[k].depth = cstack[k].depth
    BY <1>3
  <2>6. /\ \A k \in 1 .. n : Runs(k, t) =>
             \/ cstack[k].depth \in ReturningFrames(t)
             \/ flag[t] # "clear" /\ cstack[k].depth = Len(frames[t]) + 1
        /\ \A i \in ReturningFrames(t) :
             \E k \in 1 .. n : Runs(k, t) /\ cstack[k].depth = i
        /\ flag[t] # "clear" =>
             \E k \in 1 .. n : Runs(k, t) /\ cstack[k].depth = Len(frames[t]) + 1
    BY <2>1 DEF HasFrame, n
  <2>7. \A i : (\E k \in 1 .. n : Runs(k, t) /\ cstack[k].depth = i) =>
               \E k \in 1 .. n - 1 : Runs(k, t)' /\ cstack'[k].depth = i
    BY <2>2, <2>3, <2>5
  <2>8. QED
    BY <1>1, <1>3, <2>3, <2>4, <2>5, <2>6, <2>7 DEF HasFrame
<1>5. Alternates' /\ Ordered'
  BY <1>1, ShorterStack DEF InStep, In
<1>6. ~ In("native")'
  <2>1. CASE n = 1
    BY <1>3, <2>1 DEF In
  <2>2. CASE n # 1
    <3>1. n - 1 \in 1 .. n - 1 /\ (n - 1) + 1 = n
      BY <1>2, <2>2
    <3>2. cstack[n - 1].function = "execute"
      BY <1>2, <3>1 DEF InStep, Alternates, n
    <3>3. QED
      BY <1>3, <3>1, <3>2 DEF In, Last
  <2>3. QED
    BY <2>1, <2>2
<1>7. QED
  BY <1>4, <1>5, <1>6 DEF NativeFlag, NativeGoesOnInItsCaller

LEMMA ReturnFromVMInv ==
  ASSUME InStep, ReturnFromVM, ~ astray'
  PROVE  /\ \A t \in Thread : HasFrame(t)'
         /\ Alternates' /\ Ordered' /\ NativeFlag' /\ NativeGoesOnInItsCaller'
<1> DEFINE n == Len(cstack)
           d == Len(frames[cur])
<1>1. /\ In("execute") /\ flag[cur] # "clear" /\ cur' = cur /\ cstack' = Front(cstack)
      /\ frames' = frames /\ flag' = [flag EXCEPT ![cur] = "clear"]
  BY DEF ReturnFromVM
<1>2. /\ n \in Nat /\ n > 0 /\ cstack[n].function = "execute" /\ n \in 1 .. n
      /\ cur \in Thread /\ d \in Nat
      /\ \A k \in 1 .. n : cstack[k].depth \in Nat
  BY <1>1, Facts DEF InStep, In, Last
<1>3. /\ Len(cstack') = n - 1 /\ \A k \in 1 .. n - 1 : cstack'[k] = cstack[k]
      /\ cstack' \in Seq(CFrame)
  BY <1>1, <1>2, Facts, FrontType DEF InStep, In
<1>4. PICK j \in 1 .. n : Runs(j, cur) /\ cstack[j].depth = d + 1
  BY <1>1, <1>2 DEF InStep, HasFrame
<1> HIDE DEF n, d
\* The execute() that returns belongs to the current thread...
<1>5. cstack[n].thread = cur
  BY DEF ReturnFromVM, GoesAstray, Last, n
\* ... and its frame is the one just popped.
<1>6. \A k \in 1 .. n : Runs(k, cur) => cstack[k].depth <= d + 1
  <2>1. HasFrame(cur) /\ \A i \in ReturningFrames(cur) : i <= d
    BY <1>2, Facts DEF InStep, d
  <2>2. QED
    BY <1>2, <2>1 DEF HasFrame, n, d
<1>7. cstack[n].depth = d + 1
  <2>1. CASE j = n
    BY <1>4, <2>1
  <2>2. CASE j # n
    <3>1. j < n
      BY <1>2, <2>2
    <3>2. cstack[j].thread = cstack[n].thread
      BY <1>4, <1>5 DEF Runs
    <3>3. cstack[j].depth < cstack[n].depth
      BY <1>2, <3>1, <3>2 DEF InStep, Ordered, n
    <3>4. cstack[n].depth <= d + 1
      BY <1>2, <1>5, <1>6 DEF Runs
    <3>5. QED
      BY <1>2, <1>4, <3>3, <3>4
  <2>3. QED
    BY <2>1, <2>2
<1>8. \A k \in 1 .. n - 1 : k \in 1 .. n /\ k < n
  BY <1>2
<1>9. \A k \in 1 .. n - 1 : Runs(k, cur) => cstack[k].depth # d + 1
  <2>1. SUFFICES ASSUME NEW k \in 1 .. n - 1, Runs(k, cur)
                 PROVE  cstack[k].depth # d + 1
    OBVIOUS
  <2>2. k \in 1 .. n /\ k < n /\ cstack[k].thread = cstack[n].thread
    BY <1>5, <1>8, <2>1 DEF Runs
  <2>3. cstack[k].depth < cstack[n].depth
    BY <1>2, <2>2 DEF InStep, Ordered, n
  <2>4. QED
    BY <1>2, <1>7, <2>2, <2>3
<1>10. ASSUME NEW t \in Thread, t # cur PROVE HasFrame(t)'
  <2>1. HasFrame(t)
    BY DEF InStep
  <2>2. \A k \in 1 .. n : Runs(k, t) => k \in 1 .. n - 1
    BY <1>2, <1>5, <1>10 DEF Runs
  <2>3. \A k \in 1 .. n - 1 : k \in 1 .. n /\ (Runs(k, t)' <=> Runs(k, t))
    BY <1>3, <1>8 DEF Runs
  <2>4. ReturningFrames(t)' = ReturningFrames(t) /\ flag'[t] = flag[t]
    BY <1>1, <1>10, Facts DEF InStep, ReturningFrames
  <2>5. QED
    BY <1>1, <1>3, <2>1, <2>2, <2>3, <2>4 DEF HasFrame, n
<1>11. ASSUME NEW t \in Thread, t = cur PROVE HasFrame(t)'
  <2>1. HasFrame(t)
    BY DEF InStep
  <2>2. \A k \in 1 .. n - 1 : k \in 1 .. n /\ (Runs(k, t)' <=> Runs(k, t))
    BY <1>3, <1>8 DEF Runs
  <2>3. ReturningFrames(t)' = ReturningFrames(t) /\ flag'[t] = "clear"
    BY <1>1, <1>11, Facts DEF InStep, ReturningFrames
  <2>4. \A k \in 1 .. n - 1 : Runs(k, t) => cstack[k].depth \in ReturningFrames(t)
    BY <1>8, <1>9, <1>11, <2>1 DEF HasFrame, n, d
  <2>5. \A i \in ReturningFrames(t) :
          \E k \in 1 .. n - 1 : Runs(k, t) /\ cstack[k].depth = i
    <3>1. SUFFICES ASSUME NEW i \in ReturningFrames(t)
                   PROVE  \E k \in 1 .. n - 1 : Runs(k, t) /\ cstack[k].depth = i
      OBVIOUS
    <3>2. PICK k \in 1 .. n : Runs(k, t) /\ cstack[k].depth = i
      BY <2>1, <3>1 DEF HasFrame, n
    <3>3. i # d + 1
      BY <1>2, <1>11, <3>1, Facts DEF InStep, d
    <3>4. k \in 1 .. n - 1
      BY <1>2, <1>7, <3>2, <3>3
    <3>5. QED
      BY <3>2, <3>4
  <2>6. QED
    BY <1>3, <2>2, <2>3, <2>4, <2>5 DEF HasFrame
<1>12. Alternates' /\ Ordered'
  BY <1>1, ShorterStack DEF InStep, In
<1>13. NativeFlag'
  BY <1>1, <1>2, Facts DEF InStep, NativeFlag
<1>14. NativeGoesOnInItsCaller'
  <2>1. SUFFICES ASSUME In("native")'
                 PROVE  cstack'[n - 1].thread = cur /\ cstack'[n - 1].depth = d
    BY <1>1, <1>2, <1>3 DEF NativeGoesOnInItsCaller, NativeKeepsItsThread, Last, d
  <2>2. n - 1 \in 1 .. n - 1 /\ (n - 1) + 1 = n /\ n - 1 \in 1 .. n
    BY <1>2, <1>3, <2>1 DEF In
  <2>3. cstack[n - 1].function = "native"
    BY <1>3, <2>1, <2>2 DEF In, Last
  <2>4. /\ cstack[(n - 1) + 1].thread = cstack[n - 1].thread
        /\ cstack[(n - 1) + 1].depth = cstack[n - 1].depth + 1
    BY <2>2, <2>3 DEF InStep, Alternates, n
  <2>5. QED
    BY <1>2, <1>3, <1>5, <1>7, <2>2, <2>4
<1>15. QED
  BY <1>10, <1>11, <1>12, <1>13, <1>14

-----------------------------------------------------------------------------
(* The theorems                                                            *)

LEMMA InitIInv == Init => IInv
<1>1. SUFFICES ASSUME Init PROVE IInv
  OBVIOUS
<1>2. /\ cstack = <<[function |-> "execute", thread |-> main, depth |-> 1]>>
      /\ Len(cstack) = 1 /\ cstack[1].function = "execute" /\ cstack[1].depth = 1
      /\ cstack[1].thread = main /\ main \in Thread
  BY <1>1, ExecuteAssumption DEF Init, C
<1>3. TypeOK
  BY <1>1, InitType
<1>4. ASSUME NEW t \in Thread PROVE HasFrame(t)
  <2>1. frames[t] = <<t = main>> /\ flag[t] = "clear"
    BY <1>1 DEF Init
  <2>2. ReturningFrames(t) = IF t = main THEN {1} ELSE {}
    <3>1. DOMAIN frames[t] = {1} /\ frames[t][1] = (t = main)
      BY <2>1
    <3>2. QED
      BY <3>1 DEF ReturningFrames
  <2>3. QED
    BY <1>2, <2>1, <2>2 DEF HasFrame, Runs
<1>5. Alternates /\ Ordered
  BY <1>2 DEF Alternates, Ordered, Runs
<1>6. UnwoundIsThrown
  BY <1>1 DEF Init, UnwoundIsThrown
<1>7. NativeFlag /\ NativeGoesOnInItsCaller
  BY <1>2 DEF NativeFlag, NativeGoesOnInItsCaller, In, Last
<1>8. QED
  BY <1>3, <1>4, <1>5, <1>6, <1>7 DEF IInv, InStep

LEMMA IInvStep == IInv /\ [Next]_vars => IInv'
<1>1. SUFFICES ASSUME IInv, [Next]_vars PROVE IInv'
  OBVIOUS
<1>2. TypeOK' /\ UnwoundIsThrown'
  BY <1>1, TypeStep, UnwoundStep DEF IInv
<1>3. ASSUME ~ astray' PROVE InStep'
  <2>1. ~ astray
    BY <1>1, <1>3 DEF Next, Invoke, Return, athrow, InvokeNative, ReturnFromVM, tryYield,
                      call_method, NativeThrow, NativeReturn, throwException, GoesAstray, vars
  <2>2. InStep
    BY <1>1, <2>1 DEF IInv
  <2>3. CASE UNCHANGED vars
    BY <2>2, <2>3 DEF vars, InStep, TypeOK, UnwoundIsThrown, HasFrame, ReturningFrames,
                      Runs, Alternates, Ordered, NativeFlag, NativeGoesOnInItsCaller,
                      NativeKeepsItsThread, In
  <2>4. CASE Next
    <3>1. /\ \A t \in Thread : HasFrame(t)'
          /\ Alternates' /\ Ordered' /\ NativeFlag' /\ NativeGoesOnInItsCaller'
      BY <1>3, <2>2, <2>4, InvokeInv, ReturnInv, athrowInv, InvokeNativeInv,
         ReturnFromVMInv, tryYieldInv, call_methodInv, NativeThrowInv, NativeReturnInv
         DEF Next
    <3>2. QED
      BY <1>2, <3>1 DEF InStep
  <2>5. QED
    BY <1>1, <2>3, <2>4
<1>4. QED
  BY <1>2, <1>3 DEF IInv

LEMMA InStepGivesFrames == InStep => EveryExecuteHasItsFrame
<1>1. SUFFICES ASSUME InStep, NEW t \in Thread
               PROVE  ExecuteFrames(t) = ReturningFrames(t) \cup
                        IF flag[t] = "clear" THEN {} ELSE {Len(frames[t]) + 1}
  BY DEF EveryExecuteHasItsFrame
<1>2. \A i : i \in ExecuteFrames(t) <=>
               \E k \in 1 .. Len(cstack) : Runs(k, t) /\ cstack[k].depth = i
  <2>1. DOMAIN cstack = 1 .. Len(cstack)
    BY <1>1, Facts DEF InStep
  <2>2. QED
    BY <2>1 DEF ExecuteFrames, Runs, ToSet
<1>3. HasFrame(t)
  BY <1>1 DEF InStep
<1>4. QED
  BY <1>2, <1>3 DEF HasFrame

\* Until a flag is lost, a native calls Java without its caller's frame or an
\* execute() returns for another thread, execute() always returns with the frame it
\* was called for.
THEOREM FramesAndExecutesMatch == Spec => []FramesMatch
<1>1. IInv => FramesMatch
  BY InStepGivesFrames DEF IInv, FramesMatch
<1>2. QED
  BY <1>1, InitIInv, IInvStep, PTL DEF Spec

\* Until then a native goes on in its own thread, with its caller's frame on top or
\* with an exception it can see.
THEOREM NativesGoOnInTheirCaller == Spec => []NativesGoOn
<1>1. IInv => NativesGoOn
  BY DEF IInv, InStep, NativesGoOn
<1>2. QED
  BY <1>1, InitIInv, IInvStep, PTL DEF Spec
=============================================================================

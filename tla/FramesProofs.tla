---------------------------- MODULE FramesProofs ----------------------------
(***************************************************************************)
(* The words of the stack are a stack of calls, for a stack of any size,   *)
(* any methods of fewer than 256 local variables, and any handlers.        *)
(***************************************************************************)
EXTENDS Frames, Integers, SequenceTheorems, WellFoundedInduction, TLAPS

USE FramesAssumption

\* push_frame takes the number of local variables as a u1.
LocalsFit == \A m \in Method : m.locals < 256

Cell == Word \cup {Zero, Stale} \cup Nat
Cells == [0 .. STACK_SIZE - 1 -> Cell]

BodyOf(pc) == MethodAt(pc).first .. MethodAt(pc).last

-----------------------------------------------------------------------------
(* The layout of the frames                                                *)

\* A frame is as large as its method says.
Placed(c) ==
  /\ c.programCounter \in Addresses
  /\ c.classIndex = MethodAt(c.programCounter).class
  /\ c.framePointer + MethodAt(c.programCounter).locals + 5 = c.contextPointer
  /\ c.contextPointer <= c.stackPointer

\* Below the operands of c lie the registers of the frame up.
Saved(s, c, up) ==
  /\ s[c.contextPointer - 1] = up.flags
  /\ s[c.contextPointer - 2] = up.contextPointer
  /\ s[c.contextPointer - 3] = up.classIndex
  /\ s[c.contextPointer - 4] = up.programCounter
  /\ s[c.contextPointer - 5] = up.framePointer
  /\ c.framePointer = up.stackPointer

\* fr are the contexts of n frames in s, the outermost first; fr[0] is the state
\* with no frame.  A caller's program counter is behind the instruction it is at.
Layout(s, n, fr) ==
  /\ n \in Nat /\ s \in Cells /\ fr \in [0 .. n -> Context]
  /\ fr[0].contextPointer = 0 /\ fr[0].framePointer = 0
  /\ n > 0 => fr[0].stackPointer = 0
  /\ \A i \in 1 .. n : /\ Placed(fr[i]) /\ Saved(s, fr[i], fr[i - 1])
                       /\ fr[i].contextPointer >= 5 * i
  /\ \A i \in 1 .. n - 1 : fr[i].programCounter - 1 \in BodyOf(fr[i].programCounter)
  /\ \A i, j \in 0 .. n : i < j => fr[i].stackPointer <= fr[j].framePointer

FramesAre(n, fr) == Layout(stack, n, fr) /\ context = fr[n]

\* The inductive invariant.
IInv == \E n \in Nat : \E fr \in [0 .. n -> Context] : FramesAre(n, fr)

\* A nonempty set of natural numbers has a least element.
LEMMA Least ==
  ASSUME NEW T \in SUBSET Nat, T # {}
  PROVE  \E x \in T : \A y \in T : x <= y
<1> DEFINE R == {ss \in Nat \X Nat : ss[1] < ss[2]}
<1>1. IsWellFoundedOn(R, Nat)
  BY NatLessThanWellFounded DEF OpToRel
<1>2. \A x, y \in T : <<y, x>> \in R <=> y < x
  OBVIOUS
<1> HIDE DEF R
<1>3. PICK x \in T : \A y \in T : ~ (<<y, x>> \in R)
  BY <1>1, WFMin
<1>4. \A y \in T : ~ (y < x)
  BY <1>2, <1>3
<1>5. \A y \in T : x <= y
  BY <1>4
<1>6. QED
  BY <1>5

\* The methods' bodies are disjoint, so an address tells its method.
LEMMA MethodOfAddress ==
  /\ \A pc \in Addresses : /\ MethodAt(pc) \in Method /\ pc \in BodyOf(pc)
                           /\ MethodAt(pc) \in MethodType /\ pc \in Nat
  /\ \A m \in Method : \A pc \in m.first .. m.last : pc \in Addresses /\ MethodAt(pc) = m
<1>1. ASSUME NEW pc \in Addresses
      PROVE  /\ MethodAt(pc) \in Method /\ pc \in BodyOf(pc)
             /\ MethodAt(pc) \in MethodType /\ pc \in Nat
  <2>1. \E m \in Method : pc \in m.first .. m.last
    BY DEF Addresses
  <2>2. MethodAt(pc) \in Method /\ pc \in BodyOf(pc)
    BY <2>1 DEF MethodAt, BodyOf
  <2>3. QED
    BY <2>2, ProgramAssumption DEF BodyOf, MethodType
<1>2. ASSUME NEW m \in Method, NEW pc \in m.first .. m.last
      PROVE  pc \in Addresses /\ MethodAt(pc) = m
  <2>1. pc \in Addresses
    BY DEF Addresses
  <2>2. MethodAt(pc) \in Method
        /\ pc \in MethodAt(pc).first .. MethodAt(pc).last
    BY <2>1, <1>1 DEF BodyOf
  <2>3. QED
    BY <2>1, <2>2, ProgramAssumption
<1>3. QED
  BY <1>1, <1>2

\* Every address of a body belongs to the same method.
LEMMA SameBody ==
  ASSUME NEW pc \in Addresses, NEW q \in BodyOf(pc)
  PROVE  q \in Addresses /\ MethodAt(q) = MethodAt(pc)
BY MethodOfAddress DEF BodyOf

\* The registers of a frame are in order.
LEMMA FrameBounds ==
  ASSUME NEW c \in Context
  PROVE  /\ c.framePointer \in Nat /\ c.contextPointer \in Nat /\ c.stackPointer \in Nat
         /\ c.stackPointer <= STACK_SIZE
         /\ Placed(c) => /\ c.framePointer + 5 <= c.contextPointer
                         /\ c.contextPointer <= c.stackPointer
<1>1. /\ c.framePointer \in Nat /\ c.contextPointer \in Nat /\ c.stackPointer \in Nat
      /\ c.stackPointer <= STACK_SIZE
  BY DEF Context
<1>2. ASSUME Placed(c)
      PROVE  c.framePointer + 5 <= c.contextPointer /\ c.contextPointer <= c.stackPointer
  <2>1. MethodAt(c.programCounter).locals \in Nat
    BY <1>2, MethodOfAddress DEF Placed, MethodType
  <2>2. QED
    BY <1>1, <1>2, <2>1 DEF Placed
<1>3. QED
  BY <1>1, <1>2

\* The context c with another program counter and stack pointer.
Moved(c, pc, sp, flags) ==
  [programCounter |-> pc, classIndex |-> c.classIndex, stackPointer |-> sp,
   framePointer |-> c.framePointer, contextPointer |-> c.contextPointer, flags |-> flags]

\* fr up to its j-th, which is at pc, with its operands up to sp.
Top(fr, j, pc, sp, flags) ==
  [i \in 0 .. j |-> IF i = j THEN Moved(fr[j], pc, sp, flags) ELSE fr[i]]

\* Nothing below the operands of c differs but its local variables.
Agree(s, t, c) ==
  \A a \in 0 .. c.contextPointer - 1 :
    a < c.framePointer \/ a >= c.contextPointer - 5 => t[a] = s[a]

\* Frames above the j-th end and the j-th goes on.
LEMMA Unwind ==
  ASSUME NEW s, NEW n, NEW fr, Layout(s, n, fr),
         NEW j \in 0 .. n, NEW t \in Cells, Agree(s, t, fr[j]),
         NEW pc \in Nat, NEW sp \in 0 .. STACK_SIZE, NEW flags \in 0 .. 1,
         j > 0 => pc \in BodyOf(fr[j].programCounter) /\ fr[j].contextPointer <= sp
  PROVE  Layout(t, j, Top(fr, j, pc, sp, flags))
<1> DEFINE gr == Top(fr, j, pc, sp, flags)
<1>1. /\ n \in Nat /\ j \in Nat
      /\ \A i \in 0 .. n : fr[i] \in Context
      /\ fr[0].contextPointer = 0 /\ fr[0].framePointer = 0
      /\ n > 0 => fr[0].stackPointer = 0
  BY DEF Layout
<1>2. /\ \A i \in 0 .. j : i # j => gr[i] = fr[i]
      /\ gr[j] = Moved(fr[j], pc, sp, flags)
  BY DEF Top
<1>3. Moved(fr[j], pc, sp, flags) \in Context
  BY <1>1 DEF Moved, Context
<1>4. gr \in [0 .. j -> Context]
  BY <1>1, <1>3 DEF Top
<1>5. \A i \in 0 .. j : /\ gr[i].contextPointer = fr[i].contextPointer
                        /\ gr[i].framePointer = fr[i].framePointer
                        /\ gr[i].classIndex = fr[i].classIndex
  BY <1>1, <1>2 DEF Moved
<1>6. /\ gr[0].contextPointer = 0 /\ gr[0].framePointer = 0
      /\ j > 0 => gr[0].stackPointer = 0
  <2>1. gr[0].contextPointer = 0 /\ gr[0].framePointer = 0
    BY <1>1, <1>5
  <2>2. ASSUME j > 0 PROVE gr[0].stackPointer = 0
    <3>1. n > 0 /\ 0 \in 0 .. j /\ 0 # j
      BY <2>2, <1>1
    <3>2. QED
      BY <3>1, <1>1, <1>2
  <2>3. QED
    BY <2>1, <2>2
<1>7. ASSUME NEW i \in 1 .. j
      PROVE  Placed(gr[i]) /\ Saved(t, gr[i], gr[i - 1]) /\ gr[i].contextPointer >= 5 * i
  <2>1. /\ i \in 1 .. n /\ i - 1 \in 0 .. n /\ i \in 0 .. j /\ i - 1 \in 0 .. j
        /\ i - 1 # j /\ fr[i] \in Context /\ fr[j] \in Context
    BY <1>1
  <2>2. /\ Placed(fr[i]) /\ Saved(s, fr[i], fr[i - 1])
        /\ fr[i].contextPointer >= 5 * i
    BY <2>1 DEF Layout
  <2>3. Placed(gr[i])
    <3>1. CASE i # j
      BY <3>1, <2>1, <2>2, <1>2
    <3>2. CASE i = j
      BY <3>2, <2>2, <1>2, SameBody DEF Placed, Moved
    <3>3. QED
      BY <3>1, <3>2
  <2>4. ASSUME NEW k \in 1 .. 5
        PROVE  t[fr[i].contextPointer - k] = s[fr[i].contextPointer - k]
    <3>1. /\ fr[i].contextPointer \in Nat /\ fr[i].contextPointer >= 5
          /\ fr[i].contextPointer <= fr[i].stackPointer
          /\ fr[i].stackPointer \in Nat
          /\ fr[j].framePointer \in Nat /\ fr[j].contextPointer \in Nat
      BY <2>1, <2>2, FrameBounds
    <3> DEFINE a == fr[i].contextPointer - k
    <3>2. CASE i = j
      <4>1. a \in 0 .. fr[j].contextPointer - 1 /\ a >= fr[j].contextPointer - 5
        BY <3>1, <3>2
      <4>2. QED
        BY <4>1 DEF Agree
    <3>3. CASE i # j
      <4>1. i < j /\ i \in 0 .. n /\ j \in 0 .. n /\ j \in 1 .. n
        BY <3>3, <2>1
      <4>2. fr[i].stackPointer <= fr[j].framePointer /\ Placed(fr[j])
        BY <4>1 DEF Layout
      <4>3. fr[j].framePointer + 5 <= fr[j].contextPointer
        BY <2>1, <4>2, FrameBounds
      <4>4. a \in 0 .. fr[j].contextPointer - 1 /\ a < fr[j].framePointer
        BY <4>2, <4>3, <3>1
      <4>5. QED
        BY <4>4 DEF Agree
    <3>4. QED
      BY <3>2, <3>3
  <2>5. Saved(t, gr[i], gr[i - 1])
    <3>1. gr[i - 1] = fr[i - 1]
      BY <2>1, <1>2
    <3>2. gr[i].contextPointer = fr[i].contextPointer /\ gr[i].framePointer = fr[i].framePointer
      BY <2>1, <1>5
    <3>3. QED
      BY <3>1, <3>2, <2>2, <2>4 DEF Saved
  <2>6. QED
    BY <2>1, <2>2, <2>3, <2>5, <1>5
<1>8. ASSUME NEW i \in 1 .. j - 1
      PROVE  gr[i].programCounter - 1 \in BodyOf(gr[i].programCounter)
  <2>1. i \in 1 .. n - 1 /\ gr[i] = fr[i]
    BY <1>1, <1>2
  <2>2. QED
    BY <2>1 DEF Layout
<1>9. ASSUME NEW i \in 0 .. j, NEW k \in 0 .. j, i < k
      PROVE  gr[i].stackPointer <= gr[k].framePointer
  <2>1. i \in 0 .. n /\ k \in 0 .. n /\ gr[i] = fr[i] /\ gr[k].framePointer = fr[k].framePointer
    BY <1>1, <1>2, <1>5, <1>9
  <2>2. QED
    BY <2>1, <1>9 DEF Layout
<1> HIDE DEF gr
<1>10. Layout(t, j, gr)
  BY <1>1, <1>4, <1>6, <1>7, <1>8, <1>9 DEF Layout
<1>11. QED
  BY <1>10 DEF gr

\* A frame is pushed on top of one that is behind an instruction.
Entered(fr, n, c) == [i \in 0 .. n + 1 |-> IF i = n + 1 THEN c ELSE fr[i]]

\* One more frame above the topmost.
LEMMA Enter ==
  ASSUME NEW s, NEW n, NEW fr, Layout(s, n, fr),
         n > 0 => fr[n].programCounter - 1 \in BodyOf(fr[n].programCounter),
         n = 0 => fr[n].stackPointer = 0,
         NEW c \in Context, Placed(c), Saved(s, c, fr[n])
  PROVE  Layout(s, n + 1, Entered(fr, n, c))
<1> DEFINE gr == Entered(fr, n, c)
<1>1. /\ n \in Nat /\ fr \in [0 .. n -> Context] /\ s \in Cells
      /\ \A i \in 0 .. n : fr[i] \in Context
      /\ fr[0].contextPointer = 0 /\ fr[0].framePointer = 0 /\ fr[0].stackPointer = 0
  <2>1. /\ n \in Nat /\ fr \in [0 .. n -> Context] /\ s \in Cells
        /\ fr[0].contextPointer = 0 /\ fr[0].framePointer = 0
        /\ n > 0 => fr[0].stackPointer = 0
    BY DEF Layout
  <2>2. QED
    BY <2>1
<1>2. gr[n + 1] = c /\ \A i \in 0 .. n : gr[i] = fr[i]
  BY <1>1 DEF Entered
<1>3. gr \in [0 .. n + 1 -> Context]
  BY <1>1 DEF Entered
<1>4. \A i \in 0 .. n : fr[i].stackPointer <= c.framePointer
  <2>1. c.framePointer = fr[n].stackPointer
    BY DEF Saved
  <2>2. ASSUME NEW i \in 0 .. n, i # n PROVE fr[i].stackPointer <= fr[n].stackPointer
    <3>1. i < n /\ n \in 1 .. n
      BY <2>2, <1>1
    <3>2. Placed(fr[n]) /\ fr[i].stackPointer <= fr[n].framePointer
      BY <3>1, <1>1 DEF Layout
    <3>3. fr[n] \in Context /\ fr[i] \in Context
      BY <3>1, <1>1
    <3>4. QED
      BY <3>2, <3>3, FrameBounds
  <2>3. fr[n].stackPointer <= fr[n].stackPointer
    <3>1. fr[n] \in Context
      BY <1>1
    <3>2. QED
      BY <3>1 DEF Context
  <2>4. QED
    BY <2>1, <2>2, <2>3
<1>5. c.contextPointer >= 5 * (n + 1)
  <2>1. fr[n].stackPointer \in Nat /\ c.framePointer = fr[n].stackPointer
    BY <1>1, FrameBounds DEF Saved
  <2>2. fr[n].stackPointer >= 5 * n
    <3>1. CASE n = 0
      BY <3>1, <1>1
    <3>2. CASE n > 0
      <4>1. n \in 1 .. n /\ fr[n] \in Context
        BY <3>2, <1>1
      <4>2. fr[n].contextPointer >= 5 * n /\ Placed(fr[n])
        BY <4>1 DEF Layout
      <4>3. QED
        BY <4>1, <4>2, <1>1, FrameBounds
    <3>3. QED
      BY <3>1, <3>2, <1>1
  <2>3. QED
    BY <2>1, <2>2, <1>1, FrameBounds
<1>6. ASSUME NEW i \in 1 .. n + 1
      PROVE  Placed(gr[i]) /\ Saved(s, gr[i], gr[i - 1]) /\ gr[i].contextPointer >= 5 * i
  <2>1. CASE i = n + 1
    BY <2>1, <1>1, <1>2, <1>5
  <2>2. CASE i # n + 1
    <3>1. i \in 1 .. n /\ i - 1 \in 0 .. n
      BY <2>2, <1>1
    <3>2. gr[i] = fr[i] /\ gr[i - 1] = fr[i - 1]
      BY <3>1, <1>2
    <3>3. QED
      BY <3>1, <3>2 DEF Layout
  <2>3. QED
    BY <2>1, <2>2
<1>7. ASSUME NEW i \in 1 .. (n + 1) - 1
      PROVE  gr[i].programCounter - 1 \in BodyOf(gr[i].programCounter)
  <2>1. i \in 1 .. n /\ gr[i] = fr[i] /\ n > 0
    BY <1>1, <1>2
  <2>2. CASE i = n
    BY <2>1, <2>2
  <2>3. CASE i # n
    <3>1. i \in 1 .. n - 1
      BY <2>1, <2>3, <1>1
    <3>2. QED
      BY <2>1, <3>1 DEF Layout
  <2>4. QED
    BY <2>2, <2>3
<1>8. ASSUME NEW i \in 0 .. n + 1, NEW k \in 0 .. n + 1, i < k
      PROVE  gr[i].stackPointer <= gr[k].framePointer
  <2>1. i \in 0 .. n /\ gr[i] = fr[i]
    BY <1>1, <1>2, <1>8
  <2>2. CASE k = n + 1
    BY <2>1, <2>2, <1>2, <1>4
  <2>3. CASE k # n + 1
    <3>1. k \in 0 .. n /\ gr[k] = fr[k]
      BY <2>3, <1>1, <1>2
    <3>2. QED
      BY <2>1, <3>1, <1>8 DEF Layout
  <2>4. QED
    BY <2>2, <2>3
<1>9. gr[0].contextPointer = 0 /\ gr[0].stackPointer = 0 /\ gr[0].framePointer = 0
  BY <1>1, <1>2
<1> HIDE DEF gr
<1>10. Layout(s, n + 1, gr)
  BY <1>1, <1>3, <1>6, <1>7, <1>8, <1>9 DEF Layout
<1>11. QED
  BY <1>10 DEF gr

-----------------------------------------------------------------------------
(* The walks along the frames                                              *)

\* The layout, frame by frame; only the outermost starts at word 0.
LEMMA FrameFacts ==
  ASSUME NEW s, NEW n, NEW fr, Layout(s, n, fr)
  PROVE  /\ n \in Nat /\ s \in Cells
         /\ \A i \in 0 .. n : fr[i] \in Context
         /\ fr[0].contextPointer = 0 /\ fr[0].framePointer = 0 /\ (n > 0 => fr[0].stackPointer = 0)
         /\ \A i \in 1 .. n : /\ Placed(fr[i]) /\ Saved(s, fr[i], fr[i - 1])
                              /\ fr[i].contextPointer >= 5 * i
                              /\ fr[i].framePointer = 0 <=> i = 1
<1>1. /\ n \in Nat /\ s \in Cells
      /\ \A i \in 0 .. n : fr[i] \in Context
      /\ fr[0].contextPointer = 0 /\ fr[0].framePointer = 0 /\ (n > 0 => fr[0].stackPointer = 0)
  BY DEF Layout
<1>2. \A i \in 1 .. n : /\ Placed(fr[i]) /\ Saved(s, fr[i], fr[i - 1])
                        /\ fr[i].contextPointer >= 5 * i
  BY DEF Layout
<1>3. ASSUME NEW i \in 1 .. n PROVE fr[i].framePointer = 0 <=> i = 1
  <2>1. CASE i = 1
    <3>1. Saved(s, fr[1], fr[0])
      BY <2>1, <1>2
    <3>2. QED
      BY <2>1, <3>1, <1>1 DEF Saved
  <2>2. CASE i # 1
    <3>1. 1 \in 1 .. n /\ 1 \in 0 .. n /\ i \in 0 .. n /\ 1 < i
      BY <2>2, <1>1
    <3>2. fr[1].stackPointer <= fr[i].framePointer
      BY <3>1 DEF Layout
    <3>3. fr[1].contextPointer >= 5 /\ fr[1].contextPointer <= fr[1].stackPointer
      BY <3>1, <1>1, <1>2, FrameBounds
    <3>4. fr[1] \in Context /\ fr[i] \in Context
      BY <3>1, <1>1
    <3>5. QED
      BY <2>2, <3>2, <3>3, <3>4, FrameBounds
  <2>3. QED
    BY <2>1, <2>2
<1>4. QED
  BY <1>1, <1>2, <1>3

\* m is in the frame fr[i] of the stack s.
InFrame(m, s, c) ==
  /\ m.stack = s
  /\ m.context.contextPointer = c.contextPointer
  /\ m.context.framePointer = c.framePointer

\* pop_frame finds the context that was saved.
LEMMA PopFrame ==
  ASSUME NEW s, NEW c, NEW up \in Context, Saved(s, c, up), NEW m, InFrame(m, s, c)
  PROVE  pop_frame(m) = [stack |-> s, context |-> up]
<1>1. up = [flags |-> up.flags, contextPointer |-> up.contextPointer,
            classIndex |-> up.classIndex, programCounter |-> up.programCounter,
            framePointer |-> up.framePointer, stackPointer |-> up.stackPointer]
  BY DEF Context
<1>2. QED
  BY <1>1 DEF pop_frame, Saved, InFrame

\* The machine k frames above m, down to the first.
Above(m, n, fr, k) ==
  IF k = 0 \/ n = 1 THEN m
  ELSE [stack |-> m.stack, context |-> IF k < n THEN fr[n - k] ELSE fr[1]]

WalksFrom(m, V) ==
  V = [k \in Nat |->
         IF k = 0 THEN m
         ELSE IF V[k - 1].context.framePointer = 0 THEN V[k - 1] ELSE pop_frame(V[k - 1])]

\* Walk is a solution of its recursion.
LEMMA WalkUnfolds ==
  ASSUME NEW m, NEW V, WalksFrom(m, V)
  PROVE  WalksFrom(m, Walk(m))
<1> DEFINE P(w) == w = [k \in Nat |->
                          IF k = 0 THEN m
                          ELSE IF w[k - 1].context.framePointer = 0
                                 THEN w[k - 1] ELSE pop_frame(w[k - 1])]
<1>1. P(V)
  BY DEF WalksFrom
<1>2. Walk(m) = CHOOSE w : P(w)
  BY DEF Walk
<1>3. P(Walk(m))
  <2> HIDE DEF P
  <2>1. QED
    BY <1>1, <1>2
<1>4. QED
  BY <1>3 DEF WalksFrom

\* A walk meets frame after frame, and then the outermost for ever.
LEMMA WalkAscends ==
  ASSUME NEW s, NEW n, NEW fr, Layout(s, n, fr), n > 0,
         NEW m, InFrame(m, s, fr[n])
  PROVE  \A k \in Nat : Walk(m)[k] = Above(m, n, fr, k)
<1> DEFINE A(k) == Above(m, n, fr, k)
           next(x) == IF x.context.framePointer = 0 THEN x ELSE pop_frame(x)
           V == [k \in Nat |-> A(k)]
<1>1. /\ n \in Nat /\ n \in 1 .. n
      /\ \A i \in 0 .. n : fr[i] \in Context
      /\ \A i \in 1 .. n : Saved(s, fr[i], fr[i - 1]) /\ (fr[i].framePointer = 0 <=> i = 1)
  BY FrameFacts
<1>2. A(0) = m
  BY DEF Above
<1>3. ASSUME NEW k \in Nat \ {0}
      PROVE  A(k) = next(A(k - 1))
  <2>1. CASE n = 1
    <3>1. A(k) = m /\ A(k - 1) = m /\ m.context.framePointer = 0
      BY <2>1, <1>1 DEF Above, InFrame
    <3>2. QED
      BY <3>1
  <2>2. CASE n > 1 /\ k - 1 < n - 1
    <3>1. /\ n - (k - 1) \in 1 .. n /\ n - (k - 1) # 1 /\ n - k \in 1 .. n
          /\ n - (k - 1) - 1 = n - k /\ k # 0 /\ n # 1 /\ k < n
      BY <2>2, <1>1
    <3>2. InFrame(A(k - 1), s, fr[n - (k - 1)])
      <4>1. CASE k - 1 = 0
        <5>1. A(k - 1) = m /\ n - (k - 1) = n
          BY <4>1, <1>1, <1>2
        <5>2. QED
          BY <5>1
      <4>2. CASE k - 1 # 0
        <5>1. A(k - 1) = [stack |-> s, context |-> fr[n - (k - 1)]]
          BY <4>2, <2>2, <1>1 DEF Above, InFrame
        <5>2. QED
          BY <5>1 DEF InFrame
      <4>3. QED
        BY <4>1, <4>2
    <3>3. A(k - 1).context.framePointer # 0
      BY <3>1, <3>2, <1>1 DEF InFrame
    <3>4. Saved(s, fr[n - (k - 1)], fr[n - k]) /\ fr[n - k] \in Context
      BY <3>1, <1>1
    <3>5. pop_frame(A(k - 1)) = [stack |-> s, context |-> fr[n - k]]
      BY <3>2, <3>4, PopFrame
    <3>6. A(k) = [stack |-> s, context |-> fr[n - k]]
      BY <3>1 DEF Above, InFrame
    <3> HIDE DEF A
    <3>7. QED
      BY <3>3, <3>5, <3>6
  <2>3. CASE n > 1 /\ k - 1 >= n - 1
    <3>1. /\ A(k) = [stack |-> s, context |-> fr[1]]
          /\ A(k - 1) = [stack |-> s, context |-> fr[1]]
      <4>1. k # 0 /\ n # 1 /\ ~ (k < n) /\ k - 1 # 0
        BY <2>3, <1>1
      <4>2. k - 1 < n => n - (k - 1) = 1
        BY <2>3, <1>1
      <4>3. QED
        BY <4>1, <4>2 DEF Above, InFrame
    <3>2. 1 \in 1 .. n /\ fr[1].framePointer = 0
      BY <1>1
    <3> HIDE DEF A
    <3>3. QED
      BY <3>1, <3>2
  <2>4. QED
    BY <2>1, <2>2, <2>3, <1>1
<1> HIDE DEF A
<1>4. WalksFrom(m, V)
  <2>1. ASSUME NEW k \in Nat
        PROVE  V[k] = IF k = 0 THEN m ELSE next(V[k - 1])
    <3>1. CASE k = 0
      BY <3>1, <1>2
    <3>2. CASE k # 0
      <4>1. k \in Nat \ {0} /\ k - 1 \in Nat
        BY <3>2
      <4>2. QED
        BY <4>1, <1>3
    <3>3. QED
      BY <3>1, <3>2
  <2>2. V = [k \in Nat |-> V[k]]
    OBVIOUS
  <2> HIDE DEF V
  <2>3. V = [k \in Nat |-> IF k = 0 THEN m ELSE next(V[k - 1])]
    BY <2>1, <2>2
  <2>4. QED
    BY <2>3 DEF WalksFrom
<1>5. WalksFrom(m, Walk(m))
  BY <1>4, WalkUnfolds
<1> DEFINE W == Walk(m)
<1>6. \A k \in Nat : W[k] = IF k = 0 THEN m ELSE next(W[k - 1])
  BY <1>5 DEF WalksFrom
<1> HIDE DEF W, next
<1> DEFINE T == {k \in Nat : W[k] # A(k)}
<1>7. T = {}
  <2>1. SUFFICES ASSUME T # {} PROVE FALSE
    OBVIOUS
  <2>2. PICK k \in T : \A j \in T : k <= j
    <3>1. T \in SUBSET Nat
      OBVIOUS
    <3> HIDE DEF T
    <3>2. QED
      BY <2>1, <3>1, Least
  <2>3. k \in Nat /\ W[k] # A(k)
    OBVIOUS
  <2>4. k # 0
    BY <2>3, <1>2, <1>6
  <2>5. k - 1 \in Nat /\ k - 1 \notin T
    BY <2>2, <2>3, <2>4
  <2>6. W[k - 1] = A(k - 1)
    BY <2>5
  <2>7. QED
    BY <2>3, <2>4, <2>6, <1>3, <1>6
<1>8. QED
  BY <1>7 DEF W, A

-----------------------------------------------------------------------------
(* The calls in the stack                                                  *)

\* The contexts whose context pointer lies below b.
Lower(b) == {c \in Context : c.contextPointer < b}

CallerOf(s, c) == pop_frame([stack |-> s, context |-> c]).context

\* One step of the recursion of CallsIn, and a function that satisfies it on Lower(b).
CallsStep(s, f, c) ==
  IF c.contextPointer = 0 THEN <<>>
  ELSE IF CallerOf(s, c) \in Context /\ CallerOf(s, c).contextPointer < c.contextPointer
    THEN Append(f[CallerOf(s, c)], Call(s, c)) ELSE <<Call(s, c)>>

CountsCalls(s, f, b) == f = [c \in Lower(b) |-> CallsStep(s, f, c)]

\* The recursion is well founded: it has a solution.
LEMMA CallsExist ==
  ASSUME NEW s
  PROVE  \A b \in Nat : \E f : CountsCalls(s, f, b)
<1> DEFINE T == {b \in Nat : ~ \E f : CountsCalls(s, f, b)}
<1>1. SUFFICES ASSUME T # {} PROVE FALSE
  OBVIOUS
<1>2. PICK b \in T : \A j \in T : b <= j
  <2>1. T \in SUBSET Nat
    OBVIOUS
  <2> HIDE DEF T
  <2>2. QED
    BY <1>1, <2>1, Least
<1>3. b \in Nat /\ ~ \E f : CountsCalls(s, f, b)
  OBVIOUS
<1>4. b # 0
  <2>1. SUFFICES ASSUME b = 0 PROVE FALSE
    OBVIOUS
  <2>2. Lower(b) = {}
    BY <2>1, FrameBounds DEF Lower
  <2> DEFINE f == [c \in {} |-> <<>>]
  <2>3. CountsCalls(s, f, b)
    BY <2>2 DEF CountsCalls
  <2>4. QED
    BY <2>3, <1>3
<1>5. b - 1 \in Nat /\ b - 1 \notin T
  BY <1>2, <1>3, <1>4
<1>6. PICK f : CountsCalls(s, f, b - 1)
  BY <1>5
<1> DEFINE g == [c \in Lower(b) |-> CallsStep(s, f, c)]
<1>7. Lower(b - 1) \subseteq Lower(b)
  BY <1>3, FrameBounds DEF Lower
<1>8. \A c \in Lower(b - 1) : g[c] = f[c]
  <2>1. ASSUME NEW c \in Lower(b - 1) PROVE g[c] = f[c]
    <3>1. g[c] = CallsStep(s, f, c)
      BY <1>7
    <3>2. f[c] = CallsStep(s, f, c)
      BY <1>6 DEF CountsCalls
    <3> HIDE DEF g
    <3>3. QED
      BY <3>1, <3>2
  <2>2. QED
    BY <2>1
<1> HIDE DEF T
<1>9. ASSUME NEW c \in Lower(b) PROVE CallsStep(s, f, c) = CallsStep(s, g, c)
  <2> DEFINE up == CallerOf(s, c)
  <2>1. c \in Context /\ c.contextPointer < b
    BY DEF Lower
  <2>2. up \in Context /\ up.contextPointer < c.contextPointer => up \in Lower(b - 1)
    BY <2>1, <1>3, FrameBounds DEF Lower
  <2> HIDE DEF g
  <2>3. up \in Context /\ up.contextPointer < c.contextPointer => g[up] = f[up]
    BY <2>2, <1>8
  <2>4. QED
    BY <2>3 DEF CallsStep
<1>10. CountsCalls(s, g, b)
  <2>1. g = [c \in Lower(b) |-> CallsStep(s, g, c)]
    <3>1. \A c \in Lower(b) : g[c] = CallsStep(s, g, c)
      BY <1>9
    <3>2. g = [c \in Lower(b) |-> g[c]]
      OBVIOUS
    <3> HIDE DEF g
    <3>3. QED
      BY <3>1, <3>2
  <2> HIDE DEF g
  <2>2. QED
    BY <2>1 DEF CountsCalls
<1>11. QED
  BY <1>3, <1>10

\* CallsIn is a solution of its recursion.
LEMMA CallsInUnfolds ==
  ASSUME NEW s
  PROVE  \E f : /\ \A c \in Context : f[c] = CallsStep(s, f, c) /\ CallsIn(s, c) = f[c]
<1> DEFINE P(f) == f = [c \in Context |->
                          IF c.contextPointer = 0 THEN <<>>
                          ELSE IF /\ CallerOf(s, c) \in Context
                                  /\ CallerOf(s, c).contextPointer < c.contextPointer
                            THEN Append(f[CallerOf(s, c)], Call(s, c)) ELSE <<Call(s, c)>>]
<1>1. \E f : P(f)
  <2>1. STACK_SIZE + 1 \in Nat
    OBVIOUS
  <2>2. PICK f : CountsCalls(s, f, STACK_SIZE + 1)
    BY <2>1, CallsExist
  <2>3. Lower(STACK_SIZE + 1) = Context
    <3>1. \A c \in Context : c.contextPointer \in Nat /\ c.contextPointer <= STACK_SIZE
      BY DEF Context
    <3>2. QED
      BY <3>1 DEF Lower
  <2>4. P(f)
    BY <2>2, <2>3 DEF CountsCalls, CallsStep
  <2>5. QED
    BY <2>4
<1> DEFINE h == CHOOSE f : P(f)
<1>2. P(h)
  <2> HIDE DEF P
  <2>1. QED
    BY <1>1
<1>3. \A c \in Context : CallsIn(s, c) = h[c]
  BY DEF CallsIn, CallerOf
<1>4. \A c \in Context : h[c] = CallsStep(s, h, c)
  <2> HIDE DEF h
  <2>1. QED
    BY <1>2 DEF CallsStep
<1> HIDE DEF h
<1>5. QED
  BY <1>3, <1>4

\* One call per frame, the outermost first.
LEMMA CallsAreFrames ==
  ASSUME NEW s, NEW n, NEW fr, Layout(s, n, fr)
  PROVE  CallsIn(s, fr[n]) = [i \in 1 .. n |-> Call(s, fr[i])]
<1>1. PICK f : \A c \in Context : f[c] = CallsStep(s, f, c) /\ CallsIn(s, c) = f[c]
  BY CallsInUnfolds
<1>2. /\ n \in Nat
      /\ \A i \in 0 .. n : fr[i] \in Context
      /\ fr[0].contextPointer = 0
      /\ \A i \in 1 .. n : /\ Placed(fr[i]) /\ Saved(s, fr[i], fr[i - 1])
                           /\ fr[i].contextPointer >= 5 * i
  BY FrameFacts
<1> DEFINE C(k) == [i \in 1 .. k |-> Call(s, fr[i])]
<1>3. f[fr[0]] = C(0)
  <2>1. f[fr[0]] = <<>>
    <3>1. 0 \in 0 .. n /\ fr[0] \in Context
      BY <1>2
    <3>2. QED
      BY <3>1, <1>1, <1>2 DEF CallsStep
  <2>2. C(0) = <<>>
    OBVIOUS
  <2>3. QED
    BY <2>1, <2>2
<1>4. ASSUME NEW k \in 1 .. n, f[fr[k - 1]] = C(k - 1)
      PROVE  f[fr[k]] = C(k)
  <2>1. /\ k \in 0 .. n /\ k - 1 \in 0 .. n
        /\ fr[k] \in Context /\ fr[k - 1] \in Context
        /\ Saved(s, fr[k], fr[k - 1]) /\ Placed(fr[k])
    BY <1>2
  <2>2. fr[k].contextPointer # 0
    BY <1>2, <2>1, FrameBounds
  <2>3. CallerOf(s, fr[k]) = fr[k - 1]
    <3>1. InFrame([stack |-> s, context |-> fr[k]], s, fr[k])
      BY DEF InFrame
    <3>2. QED
      BY <2>1, <3>1, PopFrame DEF CallerOf
  <2>4. fr[k - 1].contextPointer < fr[k].contextPointer
    <3>1. fr[k - 1].contextPointer <= fr[k - 1].stackPointer
      <4>1. CASE k = 1
        BY <4>1, <1>2, <2>1, FrameBounds
      <4>2. CASE k # 1
        <5>1. k - 1 \in 1 .. n
          BY <4>2, <1>2
        <5>2. QED
          BY <5>1, <2>1, <1>2, FrameBounds
      <4>3. QED
        BY <4>1, <4>2
    <3>2. fr[k].framePointer = fr[k - 1].stackPointer
      BY <2>1 DEF Saved
    <3>3. QED
      BY <3>1, <3>2, <2>1, FrameBounds
  <2>5. f[fr[k]] = Append(C(k - 1), Call(s, fr[k]))
    <3> HIDE DEF C
    <3>1. QED
      BY <2>1, <2>2, <2>3, <2>4, <1>1, <1>4 DEF CallsStep
  <2>6. Append(C(k - 1), Call(s, fr[k])) = C(k)
    OBVIOUS
  <2>7. QED
    BY <2>5, <2>6
<1> HIDE DEF C
<1> DEFINE T == {k \in 0 .. n : f[fr[k]] # C(k)}
<1>5. T = {}
  <2>1. SUFFICES ASSUME T # {} PROVE FALSE
    OBVIOUS
  <2>2. PICK k \in T : \A j \in T : k <= j
    <3>1. T \in SUBSET Nat
      BY <1>2
    <3> HIDE DEF T
    <3>2. QED
      BY <2>1, <3>1, Least
  <2>3. k \in 0 .. n /\ f[fr[k]] # C(k)
    OBVIOUS
  <2>4. k # 0
    BY <2>3, <1>3
  <2>5. k \in 1 .. n /\ k - 1 \notin T /\ k - 1 \in 0 .. n
    BY <2>2, <2>3, <2>4, <1>2
  <2>6. QED
    BY <2>3, <2>5, <1>4
<1>6. n \in 0 .. n /\ fr[n] \in Context
  BY <1>2
<1>7. f[fr[n]] = C(n)
  BY <1>5, <1>6
<1>8. QED
  BY <1>1, <1>6, <1>7 DEF C

-----------------------------------------------------------------------------
(* What the invariant says of the stack                                    *)

\* The walk from the running frame meets every frame, and stays at the first.
LEMMA WalkMeetsFrames ==
  ASSUME NEW n, NEW fr, FramesAre(n, fr), n > 0
  PROVE  \A k \in Nat : Walk(Machine)[k].context = fr[IF k < n THEN n - k ELSE 1]
<1>1. Layout(stack, n, fr) /\ context = fr[n] /\ n \in Nat
  BY FrameFacts DEF FramesAre
<1>2. InFrame(Machine, stack, fr[n])
  BY <1>1 DEF InFrame, Machine
<1>3. \A k \in Nat : Walk(Machine)[k] = Above(Machine, n, fr, k)
  BY <1>1, <1>2, WalkAscends
<1>4. ASSUME NEW k \in Nat
      PROVE  Above(Machine, n, fr, k).context = fr[IF k < n THEN n - k ELSE 1]
  <2>1. CASE k = 0
    BY <2>1, <1>1 DEF Above, Machine
  <2>2. CASE n = 1
    BY <2>2, <1>1 DEF Above, Machine
  <2>3. CASE k # 0 /\ n # 1
    BY <2>3 DEF Above
  <2>4. QED
    BY <2>1, <2>2, <2>3
<1>5. QED
  BY <1>3, <1>4

\* The layout implies the type invariant.
LEMMA InvTypeOK == IInv => TypeOK
<1>1. SUFFICES ASSUME NEW n \in Nat, NEW fr, FramesAre(n, fr) PROVE TypeOK
  BY DEF IInv
<1>2. stack \in Cells /\ context \in Context
  BY <1>1, FrameFacts DEF FramesAre
<1>3. QED
  BY <1>2 DEF TypeOK, Cells, Cell

\* The frames of the layout are those the walk meets.
LEMMA InvFramesNested == IInv => FramesNested
<1>1. SUFFICES ASSUME NEW n \in Nat, NEW fr, FramesAre(n, fr), context.contextPointer > 0
               PROVE  FramesNested
  BY DEF IInv, FramesNested
<1>2. Layout(stack, n, fr) /\ context = fr[n]
  BY <1>1 DEF FramesAre
<1>3. n > 0
  <2>1. n # 0
    BY <1>1, <1>2, FrameFacts
  <2>2. QED
    BY <2>1, <1>1
<1>4. SUFFICES ASSUME NEW k \in Depths
               PROVE  LET c == Walk(Machine)[k].context
                          method == MethodAt(c.programCounter)
                      IN  /\ c.programCounter \in Addresses /\ c.classIndex = method.class
                          /\ c.framePointer + method.locals + 5 = c.contextPointer
                          /\ c.contextPointer <= c.stackPointer
                          /\ c.framePointer > 0 =>
                               stack[c.contextPointer - 2] <= c.framePointer
  BY DEF FramesNested
<1> DEFINE i == IF k < n THEN n - k ELSE 1
<1>5. i \in 1 .. n /\ k \in Nat /\ Walk(Machine)[k].context = fr[i]
  <2>1. k \in Nat
    BY DEF Depths
  <2>2. QED
    BY <2>1, <1>1, <1>3, WalkMeetsFrames
<1> HIDE DEF i
<1>6. /\ Placed(fr[i]) /\ Saved(stack, fr[i], fr[i - 1]) /\ fr[i] \in Context
      /\ i - 1 \in 0 .. n /\ fr[i - 1] \in Context
      /\ fr[i].framePointer = 0 <=> i = 1
  BY <1>2, <1>5, FrameFacts
<1>7. fr[i].framePointer > 0 => fr[i - 1].contextPointer <= fr[i].framePointer
  <2>1. SUFFICES ASSUME fr[i].framePointer > 0
                 PROVE  fr[i - 1].contextPointer <= fr[i].framePointer
    OBVIOUS
  <2>2. i - 1 \in 1 .. n
    BY <2>1, <1>5, <1>6
  <2>3. Placed(fr[i - 1])
    BY <2>2, <1>2, FrameFacts
  <2>4. QED
    BY <2>3, <1>6, FrameBounds DEF Saved
<1>8. QED
  BY <1>5, <1>6, <1>7 DEF Placed, Saved

\* When the frame pointer is 0 first, a walk has met every frame.
LEMMA InvStackTraceExact == IInv => StackTraceExact
<1>1. SUFFICES ASSUME NEW n \in Nat, NEW fr, FramesAre(n, fr), calls # <<>>
               PROVE  StackTraceExact
  BY DEF IInv, StackTraceExact
<1>2. Layout(stack, n, fr) /\ context = fr[n]
  BY <1>1 DEF FramesAre
<1>3. calls = [i \in 1 .. n |-> Call(stack, fr[i])]
  BY <1>2, CallsAreFrames DEF calls
<1>4. n > 0
  <2>1. n # 0
    BY <1>1, <1>3
  <2>2. QED
    BY <2>1, <1>1
<1>5. \A k \in Nat : Walk(Machine)[k].context = fr[IF k < n THEN n - k ELSE 1]
  BY <1>1, <1>4, WalkMeetsFrames
<1>6. \A i \in 1 .. n : fr[i].framePointer = 0 <=> i = 1
  BY <1>2, FrameFacts
<1> DEFINE S == {k \in Depths : Walk(Machine)[k].context.framePointer = 0}
<1>7. \A k \in Nat : Walk(Machine)[k].context.framePointer = 0 <=> k >= n - 1
  <2>1. SUFFICES ASSUME NEW k \in Nat
                 PROVE  fr[IF k < n THEN n - k ELSE 1].framePointer = 0 <=> k >= n - 1
    BY <1>5
  <2>2. CASE k < n
    <3>1. n - k \in 1 .. n
      BY <2>2, <1>1
    <3>2. fr[n - k].framePointer = 0 <=> n - k = 1
      BY <3>1, <1>6
    <3>3. QED
      BY <3>2, <2>2, <1>1
  <2>3. CASE ~ (k < n)
    <3>1. 1 \in 1 .. n
      BY <1>1, <1>4
    <3>2. QED
      BY <3>1, <2>3, <1>1, <1>6
  <2>4. QED
    BY <2>2, <2>3
<1>8. n - 1 \in Depths
  <2>1. n \in 1 .. n /\ n \in 0 .. n
    BY <1>1, <1>4
  <2>2. 5 * n <= STACK_SIZE
    BY <2>1, <1>2, FrameFacts, FrameBounds
  <2>3. n <= STACK_SIZE \div 5
    BY <2>2, <1>1
  <2>4. STACK_SIZE \div 5 \in Nat
    OBVIOUS
  <2>5. QED
    BY <2>3, <2>4, <1>1, <1>4 DEF Depths
<1>9. \A k \in Depths : k \in Nat
  BY DEF Depths
<1>10. n - 1 \in S /\ \A k \in S : n - 1 <= k
  BY <1>7, <1>8, <1>9
<1>11. Min(S) = n - 1
  <2>1. \A k \in S : k \in Nat
    BY <1>9
  <2> HIDE DEF S
  <2>2. ASSUME NEW x \in S, \A y \in S : x <= y PROVE x = n - 1
    BY <2>1, <2>2, <1>1, <1>10
  <2>3. QED
    BY <2>2, <1>10 DEF Min
<1>12. getStackTraceDepth(Machine) = n
  BY <1>1, <1>11 DEF getStackTraceDepth
<1>13. Len(calls) = n /\ DOMAIN calls = 1 .. n
  BY <1>1, <1>3
<1>14. ASSUME NEW i \in 1 .. n
       PROVE  getStackTraceElement(Machine, n - i) = calls[i].pc - 1
  <2>1. n - i \in Nat /\ n - i < n /\ n - (n - i) = i
    BY <1>1
  <2>2. Walk(Machine)[n - i].context = fr[i]
    BY <2>1, <1>5
  <2>3. calls[i].pc = fr[i].programCounter
    BY <1>3 DEF Call
  <2>4. QED
    BY <2>2, <2>3 DEF getStackTraceElement
<1>15. QED
  BY <1>12, <1>13, <1>14 DEF StackTraceExact

-----------------------------------------------------------------------------
(* What the operators on machines do                                       *)

\* A context whose registers may have left the stack: no push has been checked yet.
Registers ==
  [programCounter : Nat, classIndex : Nat, flags : 0 .. 1, stackPointer : Nat,
   framePointer : Nat, contextPointer : Nat]

Mach(s, c) == [stack |-> s, context |-> c]

\* words written to s from sp on; those beyond the stack are lost.
Written(s, sp, words) ==
  [a \in DOMAIN s |-> IF a \in sp .. sp + Len(words) - 1 THEN words[a - sp + 1] ELSE s[a]]

\* A context whose registers are inside the stack.
LEMMA ContextIsRegisters == Context \subseteq Registers
BY DEF Context, Registers

\* A context is its class and frame with its other registers.
LEMMA MovedIs ==
  ASSUME NEW c \in Registers
  PROVE  c = Moved(c, c.programCounter, c.stackPointer, c.flags)
BY DEF Registers, Moved

\* Moving keeps the registers natural numbers.
LEMMA MovedRegisters ==
  ASSUME NEW c \in Registers, NEW pc \in Nat, NEW sp \in Nat, NEW flags \in 0 .. 1
  PROVE  Moved(c, pc, sp, flags) \in Registers
BY DEF Registers, Moved

\* fetch, popped and pushAll in these terms.
LEMMA OperatorsMove ==
  ASSUME NEW s, NEW c \in Registers
  PROVE  /\ fetch(Mach(s, c)) = Mach(s, Moved(c, c.programCounter + 1, c.stackPointer, c.flags))
         /\ \A n : popped(Mach(s, c), n)
                  = Mach(s, Moved(c, c.programCounter, c.stackPointer - n, c.flags))
         /\ \A words : pushAll(Mach(s, c), words)
                      = Mach(Written(s, c.stackPointer, words),
                             Moved(c, c.programCounter, c.stackPointer + Len(words), c.flags))
<1>1. c = [programCounter |-> c.programCounter, classIndex |-> c.classIndex,
           flags |-> c.flags, stackPointer |-> c.stackPointer,
           framePointer |-> c.framePointer, contextPointer |-> c.contextPointer]
  BY DEF Registers
<1>2. fetch(Mach(s, c)) = Mach(s, Moved(c, c.programCounter + 1, c.stackPointer, c.flags))
  BY <1>1 DEF fetch, Mach, Moved
<1>3. ASSUME NEW n
      PROVE  popped(Mach(s, c), n)
               = Mach(s, Moved(c, c.programCounter, c.stackPointer - n, c.flags))
  BY <1>1 DEF popped, Mach, Moved
<1>4. ASSUME NEW words
      PROVE  pushAll(Mach(s, c), words)
               = Mach(Written(s, c.stackPointer, words),
                      Moved(c, c.programCounter, c.stackPointer + Len(words), c.flags))
  <2> DEFINE sp == c.stackPointer
             t == [a \in DOMAIN s |-> IF a \in sp .. sp + Len(words) - 1
                                      THEN words[a - sp + 1] ELSE s[a]]
             d == [c EXCEPT !.stackPointer = sp + Len(words)]
  <2>1. pushAll(Mach(s, c), words) = [stack |-> t, context |-> d]
    BY DEF pushAll, Mach
  <2>2. d = Moved(c, c.programCounter, sp + Len(words), c.flags)
    BY <1>1 DEF Moved
  <2>3. t = Written(s, sp, words)
    BY DEF Written
  <2> HIDE DEF t, d
  <2>4. QED
    BY <2>1, <2>2, <2>3 DEF Mach
<1>5. QED
  BY <1>2, <1>3, <1>4

\* What a step leaves: the words below the stack pointer.
LEMMA BecomeIs ==
  ASSUME stack \in Cells, NEW s, NEW c, Become(Mach(s, c))
  PROVE  /\ context' = c /\ c.stackPointer <= STACK_SIZE
         /\ stack' = [a \in 0 .. STACK_SIZE - 1 |-> IF a < c.stackPointer THEN s[a] ELSE Stale]
BY DEF Become, Mach, Cells

\* Words below those written are kept.
LEMMA WrittenIs ==
  ASSUME NEW s \in Cells, NEW sp \in Nat, NEW words \in Seq(Cell)
  PROVE  /\ Written(s, sp, words) \in Cells
         /\ \A a \in 0 .. STACK_SIZE - 1 : a < sp => Written(s, sp, words)[a] = s[a]
         /\ \A a \in 0 .. STACK_SIZE - 1 : a >= sp /\ a < sp + Len(words) =>
              Written(s, sp, words)[a] = words[a - sp + 1]
<1>1. Len(words) \in Nat /\ \A i \in 1 .. Len(words) : words[i] \in Cell
  BY LenProperties, ElementOfSeq
<1>2. ASSUME NEW a \in 0 .. STACK_SIZE - 1, a \in sp .. sp + Len(words) - 1
      PROVE  words[a - sp + 1] \in Cell
  <2>1. a - sp + 1 \in 1 .. Len(words)
    BY <1>1, <1>2
  <2>2. QED
    BY <2>1, <1>1
<1>3. \A a \in 0 .. STACK_SIZE - 1 : s[a] \in Cell
  BY DEF Cells
<1>4. DOMAIN s = 0 .. STACK_SIZE - 1
  BY DEF Cells
<1>5. Written(s, sp, words) \in Cells
  BY <1>2, <1>3, <1>4 DEF Written, Cells
<1>6. QED
  BY <1>1, <1>4, <1>5 DEF Written

-----------------------------------------------------------------------------
(* A step of the running frame                                             *)

\* Sequences of one and the same call.
Replaced(call, pc, locals, operands_) ==
  [class |-> call.class, pc |-> pc, returnFromVM |-> call.returnFromVM,
   locals |-> locals, operands |-> operands_]

\* The calls after one in cs goes on and those above it have ended.
GoneOn(cs, j, call) == [i \in 1 .. j |-> IF i = j THEN call ELSE cs[i]]

\* t has the words of s from one address to another.
Kept(s, t, from, to) == \A a \in Nat : from <= a /\ a < to => t[a] = s[a]

\* The same words are at the same addresses.
LEMMA WordsKept ==
  ASSUME NEW s, NEW t, NEW from \in Nat, NEW to \in Nat,
         Kept(s, t, from, to)
  PROVE  WordsIn(t, from, to) = WordsIn(s, from, to)
<1>1. \A i \in 1 .. to - from :
        from + i - 1 \in Nat /\ from <= from + i - 1 /\ from + i - 1 < to
  OBVIOUS
<1>2. \A i \in 1 .. to - from : t[from + i - 1] = s[from + i - 1]
  BY <1>1 DEF Kept
<1>3. QED
  BY <1>2 DEF WordsIn

\* The frames below the j-th are the same calls, the j-th has other words.
LEMMA CallsBelow ==
  ASSUME NEW s, NEW n, NEW fr, Layout(s, n, fr),
         NEW j \in 1 .. n, NEW t \in Cells, Agree(s, t, fr[j]),
         NEW pc, NEW sp, NEW flags
  PROVE  [i \in 1 .. j |-> Call(t, Top(fr, j, pc, sp, flags)[i])]
           = GoneOn([i \in 1 .. n |-> Call(s, fr[i])], j,
                    Replaced(Call(s, fr[j]), pc,
                             WordsIn(t, fr[j].framePointer, fr[j].contextPointer - 5),
                             WordsIn(t, fr[j].contextPointer, sp)))
<1>1. /\ n \in Nat /\ \A i \in 0 .. n : fr[i] \in Context
      /\ \A i \in 1 .. n : Placed(fr[i])
  BY FrameFacts
<1>2. j \in 0 .. n /\ j \in Nat /\ fr[j] \in Context /\ Placed(fr[j])
  BY <1>1
<1>3. t[fr[j].contextPointer - 1] = s[fr[j].contextPointer - 1]
  <2>1. fr[j].contextPointer - 1 \in 0 .. fr[j].contextPointer - 1
    BY <1>2, FrameBounds
  <2>2. QED
    BY <2>1, <1>2, FrameBounds DEF Agree
<1>4. Call(t, Top(fr, j, pc, sp, flags)[j])
        = Replaced(Call(s, fr[j]), pc,
                   WordsIn(t, fr[j].framePointer, fr[j].contextPointer - 5),
                   WordsIn(t, fr[j].contextPointer, sp))
  BY <1>2, <1>3 DEF Call, Top, Moved, Replaced
<1>5. ASSUME NEW i \in 1 .. j, i # j
      PROVE  Call(t, Top(fr, j, pc, sp, flags)[i]) = Call(s, fr[i])
  <2>1. /\ i \in 0 .. n /\ i < j /\ i \in 1 .. n /\ i \in 0 .. j
        /\ fr[i] \in Context /\ Placed(fr[i])
    BY <1>1, <1>5
  <2>2. Top(fr, j, pc, sp, flags)[i] = fr[i]
    BY <2>1, <1>5 DEF Top
  <2>3. fr[i].stackPointer <= fr[j].framePointer
    BY <2>1, <1>2 DEF Layout
  <2>4. \A a \in 0 .. fr[i].stackPointer - 1 : t[a] = s[a]
    <3>1. ASSUME NEW a \in 0 .. fr[i].stackPointer - 1 PROVE t[a] = s[a]
      <4>1. a \in 0 .. fr[j].contextPointer - 1 /\ a < fr[j].framePointer
        BY <2>1, <2>3, <1>2, FrameBounds
      <4>2. QED
        BY <4>1 DEF Agree
    <3>2. QED
      BY <3>1
  <2>5. /\ fr[i].framePointer \in Nat /\ fr[i].contextPointer \in Nat
        /\ fr[i].stackPointer \in Nat /\ fr[i].contextPointer - 5 \in Nat
        /\ fr[i].contextPointer <= fr[i].stackPointer
        /\ fr[i].contextPointer >= 5
    BY <2>1, FrameBounds
  <2>6. WordsIn(t, fr[i].framePointer, fr[i].contextPointer - 5)
          = WordsIn(s, fr[i].framePointer, fr[i].contextPointer - 5)
    <3> DEFINE from == fr[i].framePointer
               to == fr[i].contextPointer - 5
    <3>1. Kept(s, t, from, to)
      BY <2>4, <2>5 DEF Kept
    <3>2. from \in Nat /\ to \in Nat
      BY <2>5
    <3> HIDE DEF from, to
    <3>3. WordsIn(t, from, to) = WordsIn(s, from, to)
      BY <3>1, <3>2, WordsKept
    <3>4. QED
      BY <3>3 DEF from, to
  <2>7. WordsIn(t, fr[i].contextPointer, fr[i].stackPointer)
          = WordsIn(s, fr[i].contextPointer, fr[i].stackPointer)
    <3> DEFINE from == fr[i].contextPointer
               to == fr[i].stackPointer
    <3>1. Kept(s, t, from, to)
      BY <2>4, <2>5 DEF Kept
    <3>2. from \in Nat /\ to \in Nat
      BY <2>5
    <3> HIDE DEF from, to
    <3>3. WordsIn(t, from, to) = WordsIn(s, from, to)
      BY <3>1, <3>2, WordsKept
    <3>4. QED
      BY <3>3 DEF from, to
  <2>8. t[fr[i].contextPointer - 1] = s[fr[i].contextPointer - 1]
    BY <2>4, <2>5
  <2>9. QED
    BY <2>2, <2>6, <2>7, <2>8 DEF Call
<1>6. \A i \in 1 .. j : i \in 1 .. n
  BY <1>1
<1>7. QED
  BY <1>4, <1>5, <1>6 DEF GoneOn

\* A layout of the next state gives the invariant and the calls there.
LEMMA InvHolds ==
  ASSUME NEW n, NEW fr, Layout(stack', n, fr), context' = fr[n]
  PROVE  IInv' /\ calls' = [i \in 1 .. n |-> Call(stack', fr[i])]
<1>1. n \in Nat /\ fr \in [0 .. n -> Context]
  BY DEF Layout
<1>2. FramesAre(n, fr)'
  BY DEF FramesAre
<1>3. IInv'
  BY <1>1, <1>2 DEF IInv
<1>4. calls' = CallsIn(stack', context')
  BY DEF calls
<1>5. QED
  BY <1>3, <1>4, CallsAreFrames

\* The j-th frame goes on at pc, with operands up to sp and the words of s.
Resumes(fr, j, pc, sp, flags, s) ==
  /\ Become(Mach(s, Moved(fr[j], pc, sp, flags)))
  /\ s \in Cells /\ Agree(stack, s, fr[j])
  /\ pc \in BodyOf(fr[j].programCounter) /\ sp \in Nat /\ fr[j].contextPointer <= sp
  /\ flags \in 0 .. 1

\* The frames above it have ended, and so have their calls.
LEMMA Resume ==
  ASSUME NEW n, NEW fr, FramesAre(n, fr), NEW j \in 1 .. n,
         NEW pc, NEW sp, NEW flags, NEW s, Resumes(fr, j, pc, sp, flags, s)
  PROVE  /\ IInv'
         /\ calls' = GoneOn(calls, j,
                        Replaced(calls[j], pc,
                                 WordsIn(s, fr[j].framePointer, fr[j].contextPointer - 5),
                                 WordsIn(s, fr[j].contextPointer, sp)))
         /\ context'.flags = flags
<1>1. /\ Layout(stack, n, fr) /\ n \in Nat /\ j \in 0 .. n
      /\ stack \in Cells /\ fr[j] \in Context /\ Placed(fr[j])
  BY FrameFacts DEF FramesAre
<1> DEFINE c == Moved(fr[j], pc, sp, flags)
<1>2. /\ context' = c /\ sp <= STACK_SIZE
      /\ stack' = [a \in 0 .. STACK_SIZE - 1 |-> IF a < sp THEN s[a] ELSE Stale]
  <2>1. Become(Mach(s, c))
    BY DEF Resumes
  <2>2. c.stackPointer = sp
    BY DEF Moved
  <2> HIDE DEF c
  <2>3. QED
    BY <2>1, <2>2, <1>1, BecomeIs
<1>3. /\ sp \in 0 .. STACK_SIZE /\ flags \in 0 .. 1
      /\ fr[j].programCounter \in Addresses
      /\ fr[j].contextPointer <= sp
  BY <1>1, <1>2 DEF Resumes, Context, Placed
<1>4. pc \in Nat /\ pc \in BodyOf(fr[j].programCounter)
  BY <1>1, <1>3, SameBody, MethodOfAddress DEF Resumes
<1>5. stack' \in Cells
  BY <1>2 DEF Resumes, Cells, Cell
<1>6. \A a \in 0 .. sp - 1 : stack'[a] = s[a]
  BY <1>2, <1>3
<1>7. Agree(stack, stack', fr[j])
  <2>1. \A a \in 0 .. fr[j].contextPointer - 1 : a \in 0 .. sp - 1
    BY <1>1, <1>3, FrameBounds
  <2>2. QED
    BY <2>1, <1>1, <1>6 DEF Resumes, Agree
<1> DEFINE gr == Top(fr, j, pc, sp, flags)
<1>8. Layout(stack', j, gr)
  <2> HIDE DEF gr
  <2>1. QED
    BY <1>1, <1>3, <1>4, <1>5, <1>7, Unwind DEF gr
<1>9. context' = gr[j]
  BY <1>1, <1>2 DEF Top
<1>10. IInv' /\ calls' = [i \in 1 .. j |-> Call(stack', gr[i])]
  <2> HIDE DEF gr
  <2>1. \A hr : Layout(stack', j, hr) /\ context' = hr[j] =>
          IInv' /\ calls' = [i \in 1 .. j |-> Call(stack', hr[i])]
    BY InvHolds
  <2>2. QED
    BY <2>1, <1>8, <1>9
<1>11. calls = [i \in 1 .. n |-> Call(stack, fr[i])]
  BY <1>1, CallsAreFrames DEF calls, FramesAre
<1>13. calls' = GoneOn(calls, j,
                  Replaced(Call(stack, fr[j]), pc,
                           WordsIn(stack', fr[j].framePointer, fr[j].contextPointer - 5),
                           WordsIn(stack', fr[j].contextPointer, sp)))
  <2> DEFINE t == stack'
  <2>1. t \in Cells /\ Agree(stack, t, fr[j])
    BY <1>5, <1>7
  <2> HIDE DEF t
  <2>2. [i \in 1 .. j |-> Call(t, gr[i])]
          = GoneOn([i \in 1 .. n |-> Call(stack, fr[i])], j,
                   Replaced(Call(stack, fr[j]), pc,
                            WordsIn(t, fr[j].framePointer, fr[j].contextPointer - 5),
                            WordsIn(t, fr[j].contextPointer, sp)))
    BY <2>1, <1>1, CallsBelow
  <2> HIDE DEF gr
  <2>3. QED
    BY <2>2, <1>10, <1>11 DEF t
<1>14. calls[j] = Call(stack, fr[j])
  BY <1>11
<1>15. /\ WordsIn(stack', fr[j].framePointer, fr[j].contextPointer - 5)
             = WordsIn(s, fr[j].framePointer, fr[j].contextPointer - 5)
       /\ WordsIn(stack', fr[j].contextPointer, sp) = WordsIn(s, fr[j].contextPointer, sp)
  <2> DEFINE fp == fr[j].framePointer
             cp == fr[j].contextPointer
             t == stack'
  <2>1. /\ fp \in Nat /\ cp - 5 \in Nat /\ cp \in Nat /\ sp \in Nat /\ cp <= sp
    BY <1>1, <1>3, FrameBounds
  <2>2. \A a \in Nat : a < sp => t[a] = s[a]
    BY <2>1, <1>6
  <2> HIDE DEF fp, cp, t
  <2>3. WordsIn(t, fp, cp - 5) = WordsIn(s, fp, cp - 5)
    <3> DEFINE to == cp - 5
    <3>1. to \in Nat /\ Kept(s, t, fp, to)
      BY <2>1, <2>2 DEF Kept
    <3> HIDE DEF to
    <3>2. WordsIn(t, fp, to) = WordsIn(s, fp, to)
      BY <2>1, <3>1, WordsKept
    <3>3. QED
      BY <3>2 DEF to
  <2>4. WordsIn(t, cp, sp) = WordsIn(s, cp, sp)
    <3>1. Kept(s, t, cp, sp)
      BY <2>2 DEF Kept
    <3>2. QED
      BY <2>1, <3>1, WordsKept
  <2>5. QED
    BY <2>3, <2>4 DEF fp, cp, t
<1>16. context'.flags = flags
  BY <1>2 DEF Moved
<1>17. QED
  BY <1>10, <1>13, <1>14, <1>15, <1>16

\* The running frame goes on.
Stays(pc, sp, s) ==
  /\ Become(Mach(s, Moved(context, pc, sp, context.flags)))
  /\ s \in Cells /\ Agree(stack, s, context)
  /\ pc \in BodyOf(context.programCounter) /\ sp \in Nat /\ context.contextPointer <= sp

\* Resume for the topmost frame.
LEMMA Stay ==
  ASSUME NEW n, NEW fr, FramesAre(n, fr), n > 0, NEW pc, NEW sp, NEW s, Stays(pc, sp, s)
  PROVE  /\ IInv'
         /\ calls' = GoneOn(calls, n,
                        Replaced(calls[n], pc,
                                 WordsIn(s, context.framePointer, context.contextPointer - 5),
                                 WordsIn(s, context.contextPointer, sp)))
         /\ context'.flags = context.flags
<1>1. n \in 1 .. n /\ context = fr[n] /\ context.flags \in 0 .. 1
  BY FrameFacts DEF FramesAre, Context
<1>2. Resumes(fr, n, pc, sp, context.flags, s)
  BY <1>1 DEF Resumes, Stays
<1>3. QED
  BY <1>1, <1>2, Resume

-----------------------------------------------------------------------------
(* Sequences                                                               *)

IsSeq(s, n) == n \in Nat /\ s = [i \in 1 .. n |-> s[i]]

Elements(s, n) == {s[i] : i \in 1 .. n}

\* A function on 1 .. n is a sequence.
LEMMA SeqFacts ==
  ASSUME NEW s, NEW n, IsSeq(s, n)
  PROVE  /\ s \in Seq(Elements(s, n)) /\ Len(s) = n /\ DOMAIN s = 1 .. n
         /\ Last(s) = s[n]
<1>1. s \in [1 .. n -> Elements(s, n)] /\ n \in Nat
  BY DEF IsSeq, Elements
<1>2. s \in Seq(Elements(s, n)) /\ Len(s) = n /\ DOMAIN s = 1 .. n
  BY <1>1
<1>3. QED
  BY <1>2 DEF Last

\* Sequences of the same length with the same elements are the same.
LEMMA SameSeq ==
  ASSUME NEW s, NEW t, NEW n, IsSeq(s, n), IsSeq(t, n), \A i \in 1 .. n : s[i] = t[i]
  PROVE  s = t
BY DEF IsSeq

\* The elements of a part of a sequence.
LEMMA SubSeqIs ==
  ASSUME NEW s, NEW from \in Int, NEW to \in Int, from <= to + 1
  PROVE  /\ IsSeq(SubSeq(s, from, to), to - from + 1)
         /\ \A i \in 1 .. to - from + 1 : SubSeq(s, from, to)[i] = s[from + i - 1]
<1> DEFINE S == {s[i] : i \in from .. to}
           u == SubSeq(s, from, to)
<1>1. \A i \in from .. to : s[i] \in S
  OBVIOUS
<1> HIDE DEF S
<1>2. /\ u \in Seq(S) /\ Len(u) = to - from + 1
      /\ \A i \in 1 .. to - from + 1 : u[i] = s[from + i - 1]
  <2>1. /\ u \in Seq(S) /\ Len(u) = (IF from <= to THEN to - from + 1 ELSE 0)
        /\ \A i \in 1 .. to - from + 1 : u[i] = s[from + i - 1]
    BY <1>1, SubSeqProperties
  <2> HIDE DEF u
  <2>2. QED
    BY <2>1
<1> HIDE DEF u
<1>3. u \in [1 .. to - from + 1 -> S] /\ to - from + 1 \in Nat
  BY <1>2, LenProperties
<1>4. u = [i \in 1 .. to - from + 1 |-> u[i]]
  BY <1>3
<1>5. QED
  BY <1>2, <1>3, <1>4 DEF IsSeq, u

\* u is the n elements of s, then the m elements of t.
Joined(u, s, n, t, m) ==
  /\ IsSeq(u, n + m)
  /\ \A i \in 1 .. n : u[i] = s[i]
  /\ \A i \in 1 .. m : u[n + i] = t[i]

\* The elements of a concatenation.
LEMMA ConcatIs ==
  ASSUME NEW s, NEW n, IsSeq(s, n), NEW t, NEW m, IsSeq(t, m)
  PROVE  Joined(s \o t, s, n, t, m)
<1> DEFINE S == Elements(s, n) \cup Elements(t, m)
           u == s \o t
<1>1. n \in Nat /\ m \in Nat
  BY DEF IsSeq
<1>2. s \in Seq(S) /\ t \in Seq(S) /\ Len(s) = n /\ Len(t) = m
  <2>1. s \in [1 .. n -> S] /\ t \in [1 .. m -> S]
    BY DEF IsSeq, Elements
  <2> HIDE DEF S
  <2>2. QED
    BY <2>1, <1>1
<1> HIDE DEF S
<1>3. /\ u \in Seq(S) /\ Len(u) = n + m
      /\ \A i \in 1 .. n + m : u[i] = IF i <= n THEN s[i] ELSE t[i - n]
  BY <1>2, ConcatProperties
<1> HIDE DEF u
<1>4. u \in [1 .. n + m -> S]
  BY <1>3, LenProperties
<1>5. u = [i \in 1 .. n + m |-> u[i]]
  BY <1>4
<1>6. \A i \in 1 .. n : u[i] = s[i]
  BY <1>1, <1>3
<1>7. ASSUME NEW i \in 1 .. m PROVE u[n + i] = t[i]
  <2>1. n + i \in 1 .. n + m /\ ~ (n + i <= n) /\ (n + i) - n = i
    BY <1>1
  <2>2. QED
    BY <2>1, <1>3
<1>8. n + m \in Nat
  BY <1>1
<1>9. QED
  BY <1>5, <1>6, <1>7, <1>8 DEF Joined, IsSeq, u

\* A sequence and one more element.
LEMMA AppendIs ==
  ASSUME NEW s, NEW n, IsSeq(s, n), NEW e
  PROVE  Append(s, e) = [i \in 1 .. n + 1 |-> IF i = n + 1 THEN e ELSE s[i]]
<1> DEFINE S == Elements(s, n) \cup {e}
<1>1. n \in Nat
  BY DEF IsSeq
<1>2. s \in Seq(S) /\ Len(s) = n /\ e \in S
  <2>1. s \in [1 .. n -> S] /\ e \in S
    BY DEF IsSeq, Elements
  <2> HIDE DEF S
  <2>2. QED
    BY <2>1, <1>1
<1> HIDE DEF S
<1> DEFINE u == Append(s, e)
<1>3. /\ u \in Seq(S) /\ Len(u) = n + 1
      /\ \A i \in 1 .. n : u[i] = s[i]
      /\ u[n + 1] = e
  BY <1>2, AppendProperties
<1> HIDE DEF u
<1>4. u \in [1 .. n + 1 -> S]
  BY <1>3, LenProperties
<1>5. u = [i \in 1 .. n + 1 |-> IF i = n + 1 THEN e ELSE s[i]]
  BY <1>1, <1>3, <1>4
<1>6. QED
  BY <1>5 DEF u

\* The last of n calls goes on.
LEMMA LastGoesOn ==
  ASSUME NEW cs, NEW n, IsSeq(cs, n), n > 0, NEW call
  PROVE  Append(Front(cs), call) = GoneOn(cs, n, call)
<1>1. n \in Nat /\ Len(cs) = n
  BY SeqFacts DEF IsSeq
<1>2. Front(cs) = SubSeq(cs, 1, n - 1)
  BY <1>1 DEF Front
<1>3. IsSeq(Front(cs), n - 1) /\ \A i \in 1 .. n - 1 : Front(cs)[i] = cs[i]
  <2> DEFINE to == n - 1
  <2>1. to \in Int /\ 1 <= to + 1 /\ to - 1 + 1 = to /\ \A i \in 1 .. to : 1 + i - 1 = i
    BY <1>1
  <2> HIDE DEF to
  <2>2. IsSeq(SubSeq(cs, 1, to), to) /\ \A i \in 1 .. to : SubSeq(cs, 1, to)[i] = cs[i]
    BY <2>1, SubSeqIs
  <2>3. QED
    BY <2>2, <1>2 DEF to
<1>4. Append(Front(cs), call)
        = [i \in 1 .. (n - 1) + 1 |-> IF i = (n - 1) + 1 THEN call ELSE Front(cs)[i]]
  BY <1>3, AppendIs
<1>5. QED
  BY <1>1, <1>3, <1>4 DEF GoneOn

-----------------------------------------------------------------------------
(* The words of a frame                                                    *)

\* The words between two addresses are a sequence.
LEMMA WordsInIs ==
  ASSUME NEW s, NEW from \in Nat, NEW to \in Nat, from <= to
  PROVE  /\ IsSeq(WordsIn(s, from, to), to - from)
         /\ \A i \in 1 .. to - from : WordsIn(s, from, to)[i] = s[from + i - 1]
BY DEF IsSeq, WordsIn

\* The words in the stack are cells.
LEMMA WordsAreCells ==
  ASSUME NEW s \in Cells, NEW from \in Nat, NEW to \in Nat, from <= to, to <= STACK_SIZE
  PROVE  WordsIn(s, from, to) \in Seq(Cell)
<1>1. \A a \in 0 .. STACK_SIZE - 1 : s[a] \in Cell
  BY DEF Cells
<1>2. \A i \in 1 .. to - from : from + i - 1 \in 0 .. STACK_SIZE - 1
  OBVIOUS
<1>3. \A i \in 1 .. to - from : s[from + i - 1] \in Cell
  BY <1>1, <1>2
<1>4. to - from \in Nat
  OBVIOUS
<1>5. WordsIn(s, from, to) \in [1 .. to - from -> Cell]
  BY <1>3 DEF WordsIn
<1>6. QED
  BY <1>4, <1>5

PartOf(s, from, to, x, y) ==
  SubSeq(WordsIn(s, from, to), x - from + 1, y - from) = WordsIn(s, x, y)

\* A part of the words is what lies at a part of the addresses.
LEMMA SubWords ==
  ASSUME NEW s, NEW from \in Nat, NEW to \in Nat,
         NEW x \in Nat, NEW y \in Nat, from <= x, x <= y, y <= to
  PROVE  PartOf(s, from, to, x, y)
<1> DEFINE w == WordsIn(s, from, to)
           i0 == x - from + 1
           i1 == y - from
<1>1. \A i \in 1 .. to - from : w[i] = s[from + i - 1]
  BY WordsInIs
<1>2. i0 \in Int /\ i1 \in Int /\ i0 <= i1 + 1 /\ i1 - i0 + 1 = y - x
  OBVIOUS
<1>3. /\ IsSeq(SubSeq(w, i0, i1), y - x)
      /\ \A i \in 1 .. y - x : SubSeq(w, i0, i1)[i] = w[i0 + i - 1]
  <2> HIDE DEF w, i0, i1
  <2>1. /\ IsSeq(SubSeq(w, i0, i1), i1 - i0 + 1)
        /\ \A i \in 1 .. i1 - i0 + 1 : SubSeq(w, i0, i1)[i] = w[i0 + i - 1]
    BY <1>2, SubSeqIs
  <2>2. QED
    BY <1>2, <2>1
<1>4. ASSUME NEW i \in 1 .. y - x
      PROVE  w[i0 + i - 1] = s[x + i - 1]
  <2>1. i0 + i - 1 \in 1 .. to - from /\ from + (i0 + i - 1) - 1 = x + i - 1
    OBVIOUS
  <2> HIDE DEF w, i0
  <2>2. QED
    BY <2>1, <1>1
<1>5. /\ IsSeq(WordsIn(s, x, y), y - x)
      /\ \A i \in 1 .. y - x : WordsIn(s, x, y)[i] = s[x + i - 1]
  BY WordsInIs
<1> HIDE DEF w, i0, i1
<1>6. SubSeq(w, i0, i1) = WordsIn(s, x, y)
  BY <1>3, <1>4, <1>5, SameSeq
<1>7. QED
  BY <1>6 DEF w, i0, i1, PartOf

\* The m words lie in s from mid on.
LieAt(s, mid, words, m) == IsSeq(words, m) /\ \A i \in 1 .. m : s[mid + i - 1] = words[i]

Extended(s, from, mid, to, words) ==
  WordsIn(s, from, to) = WordsIn(s, from, mid) \o words

\* Adjacent words.
LEMMA WordsConcat ==
  ASSUME NEW s, NEW from \in Nat, NEW mid \in Nat, NEW to \in Nat,
         from <= mid, NEW words, NEW m, LieAt(s, mid, words, m), to = mid + m
  PROVE  Extended(s, from, mid, to, words)
<1> DEFINE n == mid - from
           v == WordsIn(s, from, mid)
           w == WordsIn(s, from, to)
           u == v \o words
<1>1. n \in Nat /\ m \in Nat /\ n + m = to - from /\ from <= to
  BY DEF IsSeq, LieAt
<1>2. IsSeq(v, n) /\ \A i \in 1 .. n : v[i] = s[from + i - 1]
  BY DEF IsSeq, WordsIn
<1>3. IsSeq(w, to - from) /\ \A i \in 1 .. to - from : w[i] = s[from + i - 1]
  BY <1>1 DEF IsSeq, WordsIn
<1> HIDE DEF v, w
<1>4. /\ IsSeq(u, n + m)
      /\ \A i \in 1 .. n : u[i] = v[i]
      /\ \A i \in 1 .. m : u[n + i] = words[i]
  <2> HIDE DEF n
  <2>1. IsSeq(v, n) /\ IsSeq(words, m)
    BY <1>2 DEF LieAt
  <2>2. Joined(u, v, n, words, m)
    BY <2>1, ConcatIs
  <2> HIDE DEF u
  <2>3. QED
    BY <2>2 DEF Joined
<1>5. IsSeq(w, n + m) /\ \A i \in 1 .. n + m : w[i] = s[from + i - 1]
  <2> HIDE DEF n
  <2>1. QED
    BY <1>1, <1>3
<1>6. ASSUME NEW i \in 1 .. n + m PROVE u[i] = s[from + i - 1]
  <2>1. CASE i <= n
    <3>1. i \in 1 .. n
      BY <2>1, <1>1
    <3> HIDE DEF n, u
    <3>2. QED
      BY <3>1, <1>2, <1>4
  <2>2. CASE i > n
    <3>1. i - n \in 1 .. m /\ n + (i - n) = i /\ mid + (i - n) - 1 = from + i - 1
      BY <2>2, <1>1
    <3>2. words[i - n] = s[mid + (i - n) - 1]
      BY <3>1 DEF LieAt
    <3>3. u[n + (i - n)] = words[i - n]
      <4> DEFINE k == i - n
      <4>1. k \in 1 .. m
        BY <3>1
      <4> HIDE DEF n, u, k
      <4>2. u[n + k] = words[k]
        BY <4>1, <1>4
      <4>3. QED
        BY <4>2 DEF k
    <3> HIDE DEF n, u
    <3>4. QED
      BY <3>1, <3>2, <3>3
  <2>3. i <= n \/ i > n
    BY <1>1
  <2>4. QED
    BY <2>1, <2>2, <2>3
<1> HIDE DEF n, u
<1>7. w = u
  BY <1>4, <1>5, <1>6, SameSeq
<1>8. QED
  BY <1>7 DEF u, v, w, Extended

\* Words that are pushed follow those below them, and change none of those.
LEMMA WordsPushed ==
  ASSUME NEW s \in Cells, NEW sp \in Nat, NEW words \in Seq(Cell),
         sp + Len(words) <= STACK_SIZE
  PROVE  /\ Written(s, sp, words) \in Cells
         /\ \A a \in Nat : a < sp => Written(s, sp, words)[a] = s[a]
         /\ \A from, to \in Nat : from <= to /\ to <= sp =>
              WordsIn(Written(s, sp, words), from, to) = WordsIn(s, from, to)
         /\ \A from \in Nat : from <= sp =>
              WordsIn(Written(s, sp, words), from, sp + Len(words))
                = WordsIn(s, from, sp) \o words
<1> DEFINE t == Written(s, sp, words)
           n == Len(words)
<1>1. /\ t \in Cells
      /\ \A a \in 0 .. STACK_SIZE - 1 : a < sp => t[a] = s[a]
      /\ \A a \in 0 .. STACK_SIZE - 1 : a >= sp /\ a < sp + n => t[a] = words[a - sp + 1]
  BY WrittenIs
<1>2. n \in Nat /\ IsSeq(words, n)
  BY LenProperties DEF IsSeq
<1> HIDE DEF t, n
<1>3. sp + n <= STACK_SIZE
  BY DEF n
<1>4. \A a \in Nat : a < sp => t[a] = s[a]
  BY <1>1, <1>2, <1>3
<1>5. ASSUME NEW from \in Nat, NEW to \in Nat, from <= to, to <= sp
      PROVE  WordsIn(t, from, to) = WordsIn(s, from, to)
  <2>1. Kept(s, t, from, to)
    BY <1>4, <1>5 DEF Kept
  <2>2. QED
    BY <2>1, WordsKept
<1>6. ASSUME NEW from \in Nat, from <= sp
      PROVE  WordsIn(t, from, sp + n) = WordsIn(s, from, sp) \o words
  <2>1. WordsIn(t, from, sp) = WordsIn(s, from, sp)
    BY <1>5, <1>6
  <2> DEFINE to == sp + n
  <2>2. to \in Nat /\ to = sp + n
    BY <1>2
  <2>3. ASSUME NEW i \in 1 .. n PROVE t[sp + i - 1] = words[i]
    <3>1. /\ sp + i - 1 \in 0 .. STACK_SIZE - 1 /\ sp + i - 1 >= sp
          /\ sp + i - 1 < sp + n /\ (sp + i - 1) - sp + 1 = i
      BY <1>2, <1>3
    <3>2. QED
      BY <3>1, <1>1
  <2> HIDE DEF to
  <2>4. WordsIn(t, from, to) = WordsIn(t, from, sp) \o words
    <3>1. /\ from \in Nat /\ sp \in Nat /\ to \in Nat /\ from <= sp /\ to = sp + n
          /\ LieAt(t, sp, words, n)
      BY <2>2, <2>3, <1>2, <1>6 DEF LieAt
    <3>2. Extended(t, from, sp, to, words)
      BY <3>1, WordsConcat
    <3>3. QED
      BY <3>2 DEF Extended
  <2>5. QED
    BY <2>1, <2>4 DEF to
<1>7. QED
  BY <1>1, <1>4, <1>5, <1>6 DEF t, n

-----------------------------------------------------------------------------
(* The calls the stack is refined to                                       *)

\* CallStack knows the same program.
LEMMA SameProgram ==
  /\ CallStack!Addresses = Addresses
  /\ \A pc : CallStack!MethodAt(pc) = MethodAt(pc)
  /\ \A class, pc, e : /\ CallStack!Hits(class, pc, e) = Hits(class, pc, e)
                       /\ CallStack!HandlerPC(class, pc, e) = HandlerPC(class, pc, e)
  /\ \A T : CallStack!Max(T) = Max(T)
  /\ \A s : CallStack!Front(s) = Front(s) /\ CallStack!Last(s) = Last(s)
<1>1. /\ CallStack!Addresses = Addresses
      /\ \A pc : CallStack!MethodAt(pc) = MethodAt(pc)
  BY DEF CallStack!Addresses, Addresses, CallStack!MethodAt, MethodAt
<1>2. \A class, pc, e : CallStack!Hits(class, pc, e) = Hits(class, pc, e)
  BY DEF CallStack!Hits, Hits
<1>3. \A T : CallStack!Max(T) = Max(T) /\ CallStack!Min(T) = Min(T)
  BY DEF CallStack!Max, Max, CallStack!Min, Min
<1>4. \A class, pc, e : CallStack!HandlerPC(class, pc, e) = HandlerPC(class, pc, e)
  BY <1>2, <1>3 DEF CallStack!HandlerPC, HandlerPC
<1>5. \A s : CallStack!Front(s) = Front(s) /\ CallStack!Last(s) = Last(s)
  BY DEF CallStack!Front, Front, CallStack!Last, Last
<1>6. QED
  BY <1>1, <1>2, <1>3, <1>4, <1>5

\* The running frame is the last call.
LEMMA RunningIsTop ==
  ASSUME NEW n, NEW fr, FramesAre(n, fr), Running
  PROVE  /\ n \in Nat /\ n > 0 /\ context = fr[n]
         /\ IsSeq(calls, n) /\ Len(calls) = n
         /\ \A i \in 1 .. n : calls[i] = Call(stack, fr[i])
         /\ stack \in Cells /\ context \in Context /\ Placed(context)
         /\ context.contextPointer >= 5
         /\ CallStack!Running
         /\ CallStack!Top = Call(stack, context)
         /\ CallStack!Count = operands(Machine)
<1>1. /\ Layout(stack, n, fr) /\ context = fr[n] /\ n \in Nat
      /\ stack \in Cells /\ context \in Context /\ fr[0].contextPointer = 0
      /\ \A i \in 1 .. n : Placed(fr[i])
  BY FrameFacts DEF FramesAre
<1>2. n > 0
  <2>1. n # 0
    BY <1>1 DEF Running
  <2>2. QED
    BY <2>1, <1>1
<1>3. calls = [i \in 1 .. n |-> Call(stack, fr[i])]
  BY <1>1, CallsAreFrames DEF calls
<1>4. IsSeq(calls, n) /\ \A i \in 1 .. n : calls[i] = Call(stack, fr[i])
  BY <1>1, <1>3 DEF IsSeq
<1>5. Len(calls) = n /\ Last(calls) = calls[n]
  BY <1>4, SeqFacts
<1>6. n \in 1 .. n
  BY <1>1, <1>2
<1>7. Placed(context) /\ calls[n] = Call(stack, context)
  BY <1>1, <1>4, <1>6
<1>8. CallStack!Top = Call(stack, context)
  BY <1>5, <1>7, SameProgram DEF CallStack!Top
<1>9. context.contextPointer >= 5
  BY <1>1, <1>7, FrameBounds
<1>10. CallStack!Count = operands(Machine)
  <2>1. /\ context.contextPointer \in Nat /\ context.stackPointer \in Nat
        /\ context.contextPointer <= context.stackPointer
    BY <1>1, <1>7, FrameBounds
  <2> DEFINE cp == context.contextPointer
             sp == context.stackPointer
             w == WordsIn(stack, cp, sp)
  <2>2. Len(w) = sp - cp
    <3>1. IsSeq(w, sp - cp)
      <4> HIDE DEF cp, sp
      <4>1. cp \in Nat /\ sp \in Nat /\ cp <= sp
        BY <2>1 DEF cp, sp
      <4>2. QED
        BY <4>1, WordsInIs
    <3> HIDE DEF w
    <3>2. QED
      BY <3>1, SeqFacts
  <2>3. QED
    BY <2>2, <1>8 DEF CallStack!Count, operands, Machine, Call
<1>11. CallStack!Running
  <2>1. calls # <<>>
    BY <1>2, <1>5
  <2>2. QED
    BY <2>1 DEF CallStack!Running, Running
<1>12. QED
  BY <1>1, <1>2, <1>4, <1>5, <1>7, <1>8, <1>9, <1>10, <1>11

\* The facts of the last lemma that do not name the frames.
LEMMA RunningFrame ==
  ASSUME IInv, Running
  PROVE  /\ stack \in Cells /\ context \in Context /\ Placed(context)
         /\ context.contextPointer >= 5 /\ context.flags = 0
         /\ CallStack!Running
         /\ CallStack!Top = Call(stack, context)
         /\ CallStack!Count = operands(Machine)
<1>1. PICK n \in Nat, fr \in UNION {[0 .. k -> Context] : k \in Nat} : FramesAre(n, fr)
  BY DEF IInv
<1>2. context.flags = 0
  BY DEF Running
<1>3. QED
  BY <1>1, <1>2, RunningIsTop

\* The registers of the running frame.
LEMMA RunningRegisters ==
  ASSUME IInv, Running
  PROVE  /\ context.framePointer \in Nat /\ context.contextPointer \in Nat
         /\ context.stackPointer \in Nat /\ context.stackPointer <= STACK_SIZE
         /\ context.programCounter \in Nat /\ context.programCounter \in Addresses
         /\ context.framePointer <= context.contextPointer - 5
         /\ context.contextPointer <= context.stackPointer
         /\ context.contextPointer - 5 \in Nat
         /\ operands(Machine) = context.stackPointer - context.contextPointer
<1>1. context \in Context /\ Placed(context)
  BY RunningFrame
<1>2. /\ context.framePointer \in Nat /\ context.contextPointer \in Nat
      /\ context.stackPointer \in Nat /\ context.stackPointer <= STACK_SIZE
      /\ context.framePointer + 5 <= context.contextPointer
      /\ context.contextPointer <= context.stackPointer
  BY <1>1, FrameBounds
<1>3. context.programCounter \in Nat /\ context.programCounter \in Addresses
  BY <1>1, MethodOfAddress DEF Placed
<1>4. operands(Machine) = context.stackPointer - context.contextPointer
  BY DEF operands, Machine
<1>5. QED
  BY <1>2, <1>3, <1>4

\* What the running call's guards see.
LEMMA SameGuards ==
  ASSUME IInv, Running
  PROVE  /\ CallStack!Body = Body
         /\ CallStack!GoesOn <=> GoesOn
         /\ CallStack!InC <=> InC
         /\ \A v : v \in Variables <=> v \in Nat /\ v + 1 \in CallStack!Variables
         /\ CallStack!Variables = 1 .. context.contextPointer - 5 - context.framePointer
         /\ IsSeq(CallStack!Top.locals, context.contextPointer - 5 - context.framePointer)
<1>1. CallStack!Top = Call(stack, context) /\ CallStack!Running
  BY RunningFrame
<1>2. CallStack!Top.pc = context.programCounter
  BY <1>1 DEF Call
<1>3. CallStack!Body = Body
  BY <1>2, SameProgram DEF CallStack!Body, Body
<1>4. CallStack!GoesOn <=> GoesOn
  BY <1>2, <1>3 DEF CallStack!GoesOn, GoesOn
<1>5. CallStack!InC <=> InC
  BY <1>2, <1>3 DEF CallStack!InC, InC
<1> DEFINE fp == context.framePointer
           x == context.contextPointer - 5
           w == WordsIn(stack, fp, x)
<1>6. fp \in Nat /\ x \in Nat /\ fp <= x
  BY RunningRegisters
<1>7. CallStack!Top.locals = w
  BY <1>1 DEF Call
<1>8. IsSeq(w, x - fp)
  <2> HIDE DEF fp, x
  <2>1. QED
    BY <1>6, WordsInIs
<1>9. CallStack!Variables = 1 .. x - fp
  <2>1. calls # <<>>
    BY <1>1 DEF CallStack!Running
  <2>2. DOMAIN w = 1 .. x - fp
    <3> HIDE DEF w, x, fp
    <3>1. QED
      BY <1>8, SeqFacts
  <2>3. QED
    BY <2>1, <2>2, <1>7 DEF CallStack!Variables
<1>10. Variables = 0 .. x - fp - 1
  <2>1. context.contextPointer \in Nat
    BY RunningRegisters
  <2>2. QED
    BY <2>1, <1>6 DEF Variables
<1>11. \A v : v \in Variables <=> v \in Nat /\ v + 1 \in CallStack!Variables
  <2> HIDE DEF x, fp
  <2>1. QED
    BY <1>6, <1>9, <1>10
<1>12. QED
  BY <1>3, <1>4, <1>5, <1>7, <1>8, <1>9, <1>11

\* The topmost operands, and those below.
LEMMA OperandsAre ==
  ASSUME IInv, Running, NEW k \in Nat, k <= operands(Machine)
  PROVE  /\ CallStack!Below(k)
              = WordsIn(stack, context.contextPointer, context.stackPointer - k)
         /\ CallStack!Taken(k)
              = WordsIn(stack, context.stackPointer - k, context.stackPointer)
         /\ top(Machine, k) = CallStack!Taken(k)
<1> DEFINE cp == context.contextPointer
           sp == context.stackPointer
           w == WordsIn(stack, cp, sp)
           y == sp - k
<1>1. /\ cp \in Nat /\ sp \in Nat /\ y \in Nat /\ cp <= y /\ y <= sp
      /\ cp - cp + 1 = 1 /\ y - cp = (sp - cp) - k /\ y - cp + 1 = (sp - cp) - k + 1
  BY RunningRegisters
<1>2. CallStack!Top.operands = w /\ CallStack!Count = sp - cp
  BY RunningFrame, RunningRegisters DEF Call
<1>3. CallStack!Below(k) = SubSeq(w, 1, (sp - cp) - k)
  BY <1>2 DEF CallStack!Below
<1>4. CallStack!Taken(k) = SubSeq(w, (sp - cp) - k + 1, sp - cp)
  BY <1>2 DEF CallStack!Taken
<1>5. SubSeq(w, cp - cp + 1, y - cp) = WordsIn(stack, cp, y)
  <2> HIDE DEF cp, sp, y
  <2>1. cp <= cp
    BY <1>1
  <2>2. PartOf(stack, cp, sp, cp, y)
    BY <1>1, <2>1, SubWords
  <2>3. QED
    BY <2>2 DEF w, PartOf
<1>6. SubSeq(w, y - cp + 1, sp - cp) = WordsIn(stack, y, sp)
  <2> HIDE DEF cp, sp, y
  <2>1. sp <= sp
    BY <1>1
  <2>2. PartOf(stack, cp, sp, y, sp)
    BY <1>1, <2>1, SubWords
  <2>3. QED
    BY <2>2 DEF w, PartOf
<1>7. top(Machine, k) = WordsIn(stack, y, sp)
  <2>1. top(Machine, k) = [i \in 1 .. k |-> stack[y + i - 1]]
    BY DEF top, Machine
  <2>2. sp - y = k
    BY <1>1
  <2> HIDE DEF sp, y
  <2>3. QED
    BY <2>1, <2>2 DEF WordsIn
<1> HIDE DEF w, cp, sp, y
<1>8. /\ CallStack!Below(k) = WordsIn(stack, cp, y)
      /\ CallStack!Taken(k) = WordsIn(stack, y, sp)
  BY <1>1, <1>3, <1>4, <1>5, <1>6
<1>9. QED
  BY <1>7, <1>8 DEF cp, sp, y

\* The running call goes on at pc, and the invariant still holds.
GoesTo(pc, locals, operands_) ==
  IInv' /\ CallStack!Become(Replaced(CallStack!Top, pc, locals, operands_))

\* A step that stays in the frame is a step of the topmost call.
LEMMA MovesOn ==
  ASSUME IInv, Running, NEW pc, NEW sp, NEW s, Stays(pc, sp, s)
  PROVE  GoesTo(pc, WordsIn(s, context.framePointer, context.contextPointer - 5),
                WordsIn(s, context.contextPointer, sp))
<1> DEFINE call == Replaced(CallStack!Top, pc,
                     WordsIn(s, context.framePointer, context.contextPointer - 5),
                     WordsIn(s, context.contextPointer, sp))
<1>1. PICK n \in Nat, fr \in UNION {[0 .. k -> Context] : k \in Nat} : FramesAre(n, fr)
  BY DEF IInv
<1>2. n > 0 /\ IsSeq(calls, n) /\ calls[n] = CallStack!Top
  <2>1. /\ n > 0 /\ IsSeq(calls, n) /\ context = fr[n]
        /\ \A i \in 1 .. n : calls[i] = Call(stack, fr[i])
        /\ CallStack!Top = Call(stack, context)
    BY <1>1, RunningIsTop
  <2>2. n \in 1 .. n
    BY <2>1
  <2>3. QED
    BY <2>1, <2>2
<1>3. IInv' /\ calls' = GoneOn(calls, n, call) /\ context'.flags = context.flags
  BY <1>1, <1>2, Stay
<1> HIDE DEF call
<1>4. Append(Front(calls), call) = GoneOn(calls, n, call)
  BY <1>2, LastGoesOn
<1>5. CallStack!Become(call)
  BY <1>3, <1>4, SameProgram DEF CallStack!Become
<1>6. QED
  BY <1>3, <1>5 DEF GoesTo, call

\* Fetched changes the program counter and the operands.
LEMMA FetchedIs ==
  ASSUME IInv, Running, NEW ops
  PROVE  CallStack!Fetched(ops)
           = Replaced(CallStack!Top, context.programCounter + 1, CallStack!Top.locals, ops)
<1> DEFINE t == CallStack!Top
           u == [t EXCEPT !.pc = @ + 1, !.operands = ops]
<1>1. /\ t = [class |-> t.class, pc |-> t.pc, returnFromVM |-> t.returnFromVM,
              locals |-> t.locals, operands |-> t.operands]
      /\ t.pc = context.programCounter
  BY RunningFrame DEF Call
<1> HIDE DEF t
<1>2. /\ u.class = t.class /\ u.pc = t.pc + 1 /\ u.returnFromVM = t.returnFromVM
      /\ u.locals = t.locals /\ u.operands = ops
  BY <1>1
<1>3. u = [class |-> u.class, pc |-> u.pc, returnFromVM |-> u.returnFromVM,
           locals |-> u.locals, operands |-> u.operands]
  <2> DEFINE v == [t EXCEPT !.pc = @ + 1]
  <2>1. v = [class |-> v.class, pc |-> v.pc, returnFromVM |-> v.returnFromVM,
             locals |-> v.locals, operands |-> v.operands]
    BY <1>1
  <2>2. u = [v EXCEPT !.operands = ops]
    OBVIOUS
  <2> HIDE DEF u, v
  <2>3. QED
    BY <2>1, <2>2
<1>4. u = Replaced(t, context.programCounter + 1, t.locals, ops)
  <2> HIDE DEF u
  <2>1. QED
    BY <1>1, <1>2, <1>3 DEF Replaced
<1>5. QED
  BY <1>4 DEF CallStack!Fetched, t, u

\* n operands make place for words.
LEMMA Pushes ==
  ASSUME IInv, Running, GoesOn, NEW n \in Nat, n <= operands(Machine),
         NEW words \in Seq(Cell), Become(pushAll(popped(fetch(Machine), n), words))
  PROVE  GoesTo(context.programCounter + 1, CallStack!Top.locals, CallStack!Below(n) \o words)
<1> DEFINE pc == context.programCounter + 1
           sp == context.stackPointer
           cp == context.contextPointer
           fp == context.framePointer
           x == sp - n
           k == Len(words)
           s == Written(stack, x, words)
<1>1. /\ stack \in Cells /\ context \in Context /\ context \in Registers
      /\ CallStack!Top = Call(stack, context)
  BY RunningFrame, ContextIsRegisters
<1>2. /\ fp \in Nat /\ cp \in Nat /\ sp \in Nat /\ x \in Nat /\ cp <= x /\ x <= sp
      /\ cp - 5 \in Nat /\ fp <= cp - 5 /\ pc \in Nat /\ k \in Nat
      /\ context.flags \in 0 .. 1
  BY RunningRegisters, LenProperties, <1>1 DEF Context
<1>3. pushAll(popped(fetch(Machine), n), words)
        = Mach(s, Moved(context, pc, x + k, context.flags))
  <2> DEFINE c1 == Moved(context, pc, sp, context.flags)
             c2 == Moved(context, pc, x, context.flags)
  <2>1. fetch(Machine) = Mach(stack, c1)
    BY <1>1, OperatorsMove DEF Machine, Mach
  <2>2. c1 \in Registers /\ c2 \in Registers
    BY <1>1, <1>2, MovedRegisters
  <2>3. popped(Mach(stack, c1), n) = Mach(stack, c2)
    <3>1. Moved(c1, c1.programCounter, c1.stackPointer - n, c1.flags) = c2
      BY DEF Moved
    <3> HIDE DEF c1, c2
    <3>2. QED
      BY <3>1, <2>2, OperatorsMove
  <2>4. pushAll(Mach(stack, c2), words) = Mach(s, Moved(context, pc, x + k, context.flags))
    <3>1. /\ Moved(c2, c2.programCounter, c2.stackPointer + k, c2.flags)
               = Moved(context, pc, x + k, context.flags)
          /\ c2.stackPointer = x
      BY DEF Moved
    <3> HIDE DEF c2, x
    <3>2. QED
      BY <3>1, <2>2, OperatorsMove
  <2>5. QED
    BY <2>1, <2>3, <2>4
<1>4. x + k <= STACK_SIZE
  <2>1. Become(Mach(s, Moved(context, pc, x + k, context.flags)))
    BY <1>3
  <2>2. QED
    BY <2>1 DEF Become, Mach, Moved
<1> HIDE DEF x, k, s
<1>5. /\ s \in Cells
      /\ \A a \in Nat : a < x => s[a] = stack[a]
      /\ WordsIn(s, fp, cp - 5) = WordsIn(stack, fp, cp - 5)
      /\ WordsIn(s, cp, x + k) = WordsIn(stack, cp, x) \o words
  <2>1. /\ fp \in Nat /\ cp - 5 \in Nat /\ fp <= cp - 5 /\ cp - 5 <= x
        /\ cp \in Nat /\ cp <= x /\ x \in Nat /\ x + k <= STACK_SIZE
    BY <1>2, <1>4
  <2> HIDE DEF fp, cp
  <2>2. /\ Written(stack, x, words) \in Cells
        /\ \A a \in Nat : a < x => Written(stack, x, words)[a] = stack[a]
        /\ \A from, to \in Nat : from <= to /\ to <= x =>
             WordsIn(Written(stack, x, words), from, to) = WordsIn(stack, from, to)
        /\ \A from \in Nat : from <= x =>
             WordsIn(Written(stack, x, words), from, x + Len(words))
               = WordsIn(stack, from, x) \o words
    BY <2>1, <1>1, WordsPushed DEF k
  <2>3. QED
    BY <2>1, <2>2 DEF s, k
<1>6. Stays(pc, x + k, s)
  <2>1. Agree(stack, s, context)
    BY <1>2, <1>5 DEF Agree
  <2>2. pc \in BodyOf(context.programCounter)
    BY DEF GoesOn, Body, BodyOf
  <2>3. x + k \in Nat /\ context.contextPointer <= x + k
    BY <1>2
  <2>4. Become(Mach(s, Moved(context, pc, x + k, context.flags)))
    BY <1>3
  <2>5. QED
    BY <2>1, <2>2, <2>3, <2>4, <1>5 DEF Stays
<1>7. GoesTo(pc, WordsIn(s, fp, cp - 5), WordsIn(s, cp, x + k))
  BY <1>6, MovesOn
<1>8. WordsIn(stack, fp, cp - 5) = CallStack!Top.locals
  BY <1>1 DEF Call
<1>9. CallStack!Below(n) = WordsIn(stack, cp, x)
  BY OperandsAre DEF x
<1>10. QED
  BY <1>5, <1>7, <1>8, <1>9

-----------------------------------------------------------------------------
(* The instructions that stay in the frame                                 *)

\* Results and arguments are sequences of cells.
LEMMA WordSequences ==
  /\ \A words \in SeqOf(Word, 2) : words \in Seq(Cell)
  /\ \A n \in Nat : \A words \in [1 .. n -> Word] : words \in Seq(Cell) /\ Len(words) = n
<1>1. ASSUME NEW n \in Nat, NEW words \in [1 .. n -> Word]
      PROVE  words \in Seq(Cell) /\ Len(words) = n
  <2>1. words \in [1 .. n -> Cell]
    BY DEF Cell
  <2>2. QED
    BY <2>1
<1>2. ASSUME NEW words \in SeqOf(Word, 2) PROVE words \in Seq(Cell)
  <2>1. PICK n \in 0 .. 2 : words \in [1 .. n -> Word]
    BY DEF SeqOf
  <2>2. QED
    BY <2>1, <1>1
<1>3. QED
  BY <1>1, <1>2

\* Constants, arithmetic, fields, arrays and natives.
LEMMA OperateSteps ==
  ASSUME IInv, NEW n \in 0 .. 2, NEW results \in SeqOf(Word, 2), Operate(n, results)
  PROVE  IInv' /\ CallStack!Operate(n, results)
<1>1. /\ Running /\ GoesOn /\ n <= operands(Machine) /\ n \in Nat
      /\ Become(pushAll(popped(fetch(Machine), n), results))
  BY DEF Operate
<1>2. results \in Seq(Cell)
  BY WordSequences
<1>3. GoesTo(context.programCounter + 1, CallStack!Top.locals, CallStack!Below(n) \o results)
  BY <1>1, <1>2, Pushes
<1>4. CallStack!Become(CallStack!Fetched(CallStack!Below(n) \o results))
  BY <1>1, <1>3, FetchedIs DEF GoesTo
<1>5. CallStack!Running /\ CallStack!GoesOn /\ n <= CallStack!Count
  BY <1>1, RunningFrame, SameGuards
<1>6. QED
  BY <1>3, <1>4, <1>5 DEF GoesTo, CallStack!Operate

\* The registers are moved, and no word is written.
LEMMA OnlyMoves ==
  ASSUME IInv, Running, NEW pc \in Body, NEW n \in Nat, n <= operands(Machine),
         Become(Mach(stack, Moved(context, pc, context.stackPointer - n, context.flags)))
  PROVE  GoesTo(pc, CallStack!Top.locals, CallStack!Below(n))
<1> DEFINE sp == context.stackPointer - n
<1>1. stack \in Cells /\ CallStack!Top = Call(stack, context)
  BY RunningFrame
<1>2. sp \in Nat /\ context.contextPointer <= sp
  BY RunningRegisters
<1>3. Stays(pc, sp, stack)
  BY <1>1, <1>2 DEF Stays, Agree, Body, BodyOf
<1>4. GoesTo(pc, WordsIn(stack, context.framePointer, context.contextPointer - 5),
             WordsIn(stack, context.contextPointer, sp))
  <2> HIDE DEF sp
  <2>1. QED
    BY <1>3, MovesOn
<1>5. CallStack!Below(n) = WordsIn(stack, context.contextPointer, sp)
  BY OperandsAre
<1>6. CallStack!Top.locals = WordsIn(stack, context.framePointer, context.contextPointer - 5)
  BY <1>1 DEF Call
<1>7. QED
  BY <1>4, <1>5, <1>6

\* The topmost call is a record of five fields.
LEMMA TopIsCall ==
  ASSUME IInv, Running
  PROVE  LET t == CallStack!Top
         IN t = [class |-> t.class, pc |-> t.pc, returnFromVM |-> t.returnFromVM,
                 locals |-> t.locals, operands |-> t.operands]
BY RunningFrame DEF Call

\* A branch stays in the method's body.
LEMMA BranchSteps ==
  ASSUME IInv, NEW n \in 0 .. 2, NEW target \in Addresses, Branch(n, target)
  PROVE  IInv' /\ CallStack!Branch(n, target)
<1>1. /\ Running /\ target \in Body /\ n <= operands(Machine) /\ n \in Nat
      /\ Become([popped(Machine, n) EXCEPT !.context.programCounter = target])
  BY DEF Branch
<1> DEFINE c == Moved(context, context.programCounter, context.stackPointer - n, context.flags)
<1>2. popped(Machine, n) = Mach(stack, c)
  BY <1>1, RunningFrame, ContextIsRegisters, OperatorsMove DEF Machine, Mach
<1>3. [Mach(stack, c) EXCEPT !.context.programCounter = target]
        = Mach(stack, Moved(context, target, context.stackPointer - n, context.flags))
  <2>1. [c EXCEPT !.programCounter = target]
          = Moved(context, target, context.stackPointer - n, context.flags)
    BY DEF Moved
  <2>2. [Mach(stack, c) EXCEPT !.context.programCounter = target]
          = Mach(stack, [c EXCEPT !.programCounter = target])
    <3> HIDE DEF c
    <3>1. QED
      BY DEF Mach
  <2>3. QED
    BY <2>1, <2>2
<1>4. GoesTo(target, CallStack!Top.locals, CallStack!Below(n))
  <2> HIDE DEF c
  <2>1. QED
    BY <1>1, <1>2, <1>3, OnlyMoves
<1>5. [CallStack!Top EXCEPT !.pc = target, !.operands = CallStack!Below(n)]
        = Replaced(CallStack!Top, target, CallStack!Top.locals, CallStack!Below(n))
  <2> DEFINE t == CallStack!Top
             ops == CallStack!Below(n)
             v == [t EXCEPT !.pc = target]
             u == [v EXCEPT !.operands = ops]
  <2>1. t = [class |-> t.class, pc |-> t.pc, returnFromVM |-> t.returnFromVM,
             locals |-> t.locals, operands |-> t.operands]
    BY <1>1, TopIsCall
  <2> HIDE DEF t, ops
  <2>2. v = [class |-> v.class, pc |-> v.pc, returnFromVM |-> v.returnFromVM,
             locals |-> v.locals, operands |-> v.operands]
    BY <2>1
  <2>3. /\ v.class = t.class /\ v.pc = target /\ v.returnFromVM = t.returnFromVM
        /\ v.locals = t.locals
    BY <2>1
  <2>4. u = Replaced(t, target, t.locals, ops)
    <3> HIDE DEF v
    <3>1. u = [class |-> u.class, pc |-> u.pc, returnFromVM |-> u.returnFromVM,
               locals |-> u.locals, operands |-> u.operands]
      BY <2>2
    <3>2. /\ u.class = v.class /\ u.pc = v.pc /\ u.returnFromVM = v.returnFromVM
          /\ u.locals = v.locals /\ u.operands = ops
      BY <2>2
    <3> HIDE DEF u
    <3>3. QED
      BY <2>3, <3>1, <3>2 DEF Replaced
  <2>5. [t EXCEPT !.pc = target, !.operands = ops] = u
    OBVIOUS
  <2>6. QED
    BY <2>4, <2>5 DEF t, ops
<1>6. CallStack!Running /\ target \in CallStack!Body /\ n <= CallStack!Count
  BY <1>1, RunningFrame, SameGuards
<1>7. QED
  BY <1>4, <1>5, <1>6 DEF GoesTo, CallStack!Branch

\* The operands in the stack are sequences of words.
LEMMA TakenAreCells ==
  ASSUME IInv, Running, NEW k \in Nat, k <= operands(Machine)
  PROVE  /\ CallStack!Below(k) \in Seq(Cell) /\ CallStack!Taken(k) \in Seq(Cell)
         /\ IsSeq(CallStack!Taken(k), k)
<1> DEFINE cp == context.contextPointer
           sp == context.stackPointer
           y == sp - k
<1>1. /\ cp \in Nat /\ sp \in Nat /\ y \in Nat /\ cp <= y /\ y <= sp /\ sp <= STACK_SIZE
      /\ sp - y = k /\ y <= STACK_SIZE
  BY RunningRegisters
<1>2. stack \in Cells
  BY RunningFrame
<1>3. /\ CallStack!Below(k) = WordsIn(stack, cp, y)
      /\ CallStack!Taken(k) = WordsIn(stack, y, sp)
  BY OperandsAre
<1> HIDE DEF cp, sp, y
<1>4. /\ WordsIn(stack, cp, y) \in Seq(Cell) /\ WordsIn(stack, y, sp) \in Seq(Cell)
  BY <1>1, <1>2, WordsAreCells
<1>5. IsSeq(WordsIn(stack, y, sp), sp - y)
  BY <1>1, WordsInIs
<1>6. QED
  BY <1>1, <1>3, <1>4, <1>5

Regrouped(a, b, c) == a \o (b \o c) = (a \o b) \o c

\* Concatenation is associative.
LEMMA Regroup ==
  ASSUME NEW a \in Seq(Cell), NEW b \in Seq(Cell), NEW c \in Seq(Cell)
  PROVE  Regrouped(a, b, c)
<1> DEFINE x == Len(a)
           y == Len(b)
           z == Len(c)
           ab == a \o b
           bc == b \o c
           r == a \o bc
           l == ab \o c
<1>1. /\ x \in Nat /\ y \in Nat /\ z \in Nat
      /\ IsSeq(a, x) /\ IsSeq(b, y) /\ IsSeq(c, z)
  BY DEF IsSeq
<1> HIDE DEF x, y, z
<1>2. Joined(ab, a, x, b, y) /\ Joined(bc, b, y, c, z)
  BY <1>1, ConcatIs
<1> HIDE DEF ab, bc
<1>3. IsSeq(ab, x + y) /\ IsSeq(bc, y + z)
  BY <1>2 DEF Joined
<1>4. Joined(r, a, x, bc, y + z) /\ Joined(l, ab, x + y, c, z)
  BY <1>1, <1>3, ConcatIs
<1> HIDE DEF r, l
<1>5. IsSeq(r, x + (y + z)) /\ IsSeq(l, (x + y) + z)
  BY <1>4 DEF Joined
<1>6. (x + y) + z = x + (y + z) /\ x + y + z \in Nat
  BY <1>1
<1>7. ASSUME NEW i \in 1 .. x + (y + z) PROVE r[i] = l[i]
  <2>1. CASE i <= x
    <3>1. i \in 1 .. x /\ i \in 1 .. x + y
      BY <2>1, <1>1
    <3>2. r[i] = a[i] /\ l[i] = ab[i] /\ ab[i] = a[i]
      BY <3>1, <1>2, <1>4 DEF Joined
    <3>3. QED
      BY <3>2
  <2>2. CASE i > x /\ i <= x + y
    <3> DEFINE k == i - x
    <3>1. k \in 1 .. y /\ k \in 1 .. y + z /\ i \in 1 .. x + y /\ x + k = i
      BY <2>2, <1>1
    <3> HIDE DEF k
    <3>2. r[x + k] = bc[k] /\ bc[k] = b[k] /\ ab[x + k] = b[k] /\ l[i] = ab[i]
      BY <3>1, <1>2, <1>4 DEF Joined
    <3>3. QED
      BY <3>1, <3>2
  <2>3. CASE i > x + y
    <3> DEFINE k == i - (x + y)
               h == y + k
               w == x + y
    <3>1. k \in 1 .. z /\ h \in 1 .. y + z /\ x + h = i /\ w + k = i /\ h = y + k /\ w = x + y
      BY <2>3, <1>1
    <3> HIDE DEF k, h, w
    <3>2. r[x + h] = bc[h] /\ bc[y + k] = c[k]
      BY <3>1, <1>2, <1>4 DEF Joined
    <3>3. l[w + k] = c[k]
      BY <3>1, <1>4 DEF Joined
    <3>4. QED
      BY <3>1, <3>2, <3>3
  <2>4. QED
    BY <2>1, <2>2, <2>3, <1>1
<1>8. r = l
  <2> DEFINE n == x + (y + z)
  <2>1. IsSeq(r, n) /\ IsSeq(l, n)
    BY <1>5, <1>6
  <2>2. \A i \in 1 .. n : r[i] = l[i]
    BY <1>7
  <2> HIDE DEF n
  <2>3. QED
    BY <2>1, <2>2, SameSeq
<1>9. QED
  BY <1>8 DEF Regrouped, r, l, ab, bc

\* The copies are the words that were topmost.
LEMMA DupSteps ==
  ASSUME IInv, NEW n \in 1 .. 2, NEW skip \in 0 .. 1, Dup(n, skip)
  PROVE  IInv' /\ CallStack!Dup(n, skip)
<1> DEFINE k == n + skip
           words == top(Machine, k)
           copies == SubSeq(words, skip + 1, skip + n)
<1>1. /\ Running /\ GoesOn /\ k <= operands(Machine) /\ k \in Nat /\ n <= k /\ n \in Nat
      /\ Become(pushAll(popped(fetch(Machine), k), copies \o words))
  BY DEF Dup
<1>2. words = CallStack!Taken(k)
  <2> HIDE DEF k
  <2>1. QED
    BY <1>1, OperandsAre
<1>3. copies = CallStack!Taken(n)
  <2> DEFINE sp == context.stackPointer
             x == sp - k
             y == sp - n
  <2>1. /\ x \in Nat /\ y \in Nat /\ sp \in Nat /\ x <= y /\ y <= sp /\ sp <= sp
        /\ y - x + 1 = skip + 1 /\ sp - x = skip + n
    BY <1>1, RunningRegisters
  <2>2. words = WordsIn(stack, x, sp)
    <3> HIDE DEF k
    <3>1. QED
      BY <1>1, OperandsAre
  <2>3. CallStack!Taken(n) = WordsIn(stack, y, sp)
    <3>1. n <= operands(Machine)
      BY <1>1, RunningRegisters
    <3>2. QED
      BY <3>1, <1>1, OperandsAre
  <2> HIDE DEF x, y, sp, words
  <2>4. PartOf(stack, x, sp, y, sp)
    BY <2>1, SubWords
  <2>5. QED
    BY <2>1, <2>2, <2>3, <2>4 DEF PartOf
<1> HIDE DEF k, words, copies
<1>4. n <= operands(Machine)
  BY <1>1, RunningRegisters
<1>5. /\ CallStack!Below(k) \in Seq(Cell) /\ words \in Seq(Cell) /\ copies \in Seq(Cell)
  BY <1>1, <1>2, <1>3, <1>4, TakenAreCells
<1>6. copies \o words \in Seq(Cell)
  BY <1>5, ConcatProperties
<1>7. GoesTo(context.programCounter + 1, CallStack!Top.locals,
             CallStack!Below(k) \o (copies \o words))
  <2> DEFINE all == copies \o words
  <2>1. all \in Seq(Cell) /\ Become(pushAll(popped(fetch(Machine), k), all))
    BY <1>1, <1>6
  <2> HIDE DEF all
  <2>2. GoesTo(context.programCounter + 1, CallStack!Top.locals, CallStack!Below(k) \o all)
    BY <1>1, <2>1, Pushes
  <2>3. QED
    BY <2>2 DEF all
<1>8. CallStack!Below(k) \o (copies \o words) = (CallStack!Below(k) \o copies) \o words
  <2> DEFINE below == CallStack!Below(k)
  <2>1. below \in Seq(Cell)
    BY <1>5
  <2> HIDE DEF below
  <2>2. Regrouped(below, copies, words)
    BY <2>1, <1>5, Regroup
  <2>3. QED
    BY <2>2 DEF below, Regrouped
<1>9. CallStack!Become(CallStack!Fetched(
        (CallStack!Below(k) \o CallStack!Taken(n)) \o CallStack!Taken(k)))
  BY <1>1, <1>2, <1>3, <1>7, <1>8, FetchedIs DEF GoesTo
<1>10. CallStack!Running /\ CallStack!GoesOn /\ k <= CallStack!Count
  BY <1>1, RunningFrame, SameGuards
<1>11. QED
  BY <1>7, <1>9, <1>10 DEF GoesTo, CallStack!Dup, k

\* The local variables of the running call, and a part of them.
LEMMA VariablesAre ==
  ASSUME IInv, Running
  PROVE  /\ CallStack!Top.locals
              = WordsIn(stack, context.framePointer, context.contextPointer - 5)
         /\ \A v, n \in Nat : v + n <= context.contextPointer - 5 - context.framePointer =>
              SubSeq(CallStack!Top.locals, v + 1, v + n)
                = WordsIn(stack, context.framePointer + v, context.framePointer + v + n)
<1> DEFINE fp == context.framePointer
           to == context.contextPointer - 5
           w == WordsIn(stack, fp, to)
<1>1. CallStack!Top.locals = w
  BY RunningFrame DEF Call
<1>2. fp \in Nat /\ to \in Nat /\ fp <= to
  BY RunningRegisters
<1>3. ASSUME NEW v \in Nat, NEW n \in Nat, v + n <= to - fp
      PROVE  SubSeq(w, v + 1, v + n) = WordsIn(stack, fp + v, fp + v + n)
  <2> DEFINE x == fp + v
             y == fp + v + n
  <2>1. /\ x \in Nat /\ y \in Nat /\ fp <= x /\ x <= y /\ y <= to
        /\ x - fp + 1 = v + 1 /\ y - fp = v + n
    BY <1>2, <1>3
  <2> HIDE DEF fp, to, x, y
  <2>2. PartOf(stack, fp, to, x, y)
    BY <1>2, <2>1, SubWords
  <2>3. SubSeq(w, v + 1, v + n) = WordsIn(stack, x, y)
    BY <2>1, <2>2 DEF PartOf
  <2>4. QED
    BY <2>3 DEF x, y
<1>4. QED
  BY <1>1, <1>3

\* The variables are read where the frame says they are.
LEMMA LoadSteps ==
  ASSUME IInv, NEW v \in Variables, NEW n \in 1 .. 2, Load(v, n)
  PROVE  IInv' /\ CallStack!Load(v + 1, n)
<1> DEFINE fp == context.framePointer
           words == [i \in 1 .. n |-> stack[v + i - 1 + fp]]
<1>1. /\ Running /\ GoesOn /\ v + n - 1 \in Variables
      /\ Become(pushAll(fetch(Machine), words))
  BY DEF Load
<1>2. /\ v \in Nat /\ n \in Nat /\ fp \in Nat /\ v + n <= context.contextPointer - 5 - fp
      /\ v + n - 1 \in Nat /\ v + n - 1 + 1 = v + n
      /\ v + n \in CallStack!Variables
  <2>1. /\ v \in Nat /\ n \in Nat /\ fp \in Nat /\ v + n - 1 \in Nat
        /\ v + n - 1 + 1 \in CallStack!Variables
    BY <1>1, SameGuards, RunningRegisters
  <2>2. v + n - 1 + 1 = v + n
    BY <2>1
  <2>3. v + n \in 1 .. context.contextPointer - 5 - fp
    BY <1>1, <2>1, <2>2, SameGuards
  <2>4. QED
    BY <2>1, <2>2, <2>3
<1>3. words = WordsIn(stack, fp + v, fp + v + n)
  <2> DEFINE x == fp + v
             y == fp + v + n
  <2>1. y - x = n /\ \A i \in 1 .. n : v + i - 1 + fp = x + i - 1
    BY <1>2
  <2>2. words = [i \in 1 .. n |-> stack[x + i - 1]]
    BY <2>1
  <2> HIDE DEF x, y, words
  <2>3. words = WordsIn(stack, x, y)
    BY <2>1, <2>2 DEF WordsIn
  <2>4. QED
    BY <2>3 DEF x, y
<1>4. SubSeq(CallStack!Top.locals, v + 1, v + n) = words
  BY <1>1, <1>2, <1>3, VariablesAre
<1>5. words \in Seq(Cell)
  <2> DEFINE x == fp + v
             y == fp + v + n
  <2>1. x \in Nat /\ y \in Nat /\ x <= y /\ stack \in Cells
    BY <1>1, <1>2, RunningFrame
  <2>2. y <= STACK_SIZE
    <3>1. /\ context.contextPointer \in Nat /\ context.stackPointer \in Nat
          /\ context.contextPointer <= context.stackPointer
          /\ context.stackPointer <= STACK_SIZE
      BY <1>1, RunningRegisters
    <3>2. QED
      BY <3>1, <1>2
  <2> HIDE DEF x, y
  <2>3. WordsIn(stack, x, y) \in Seq(Cell)
    BY <2>1, <2>2, WordsAreCells
  <2>4. QED
    BY <2>3, <1>3 DEF x, y
<1> HIDE DEF words
<1>6. /\ 0 \in Nat /\ 0 <= operands(Machine)
      /\ popped(fetch(Machine), 0) = fetch(Machine)
  <2>1. 0 <= operands(Machine) /\ context \in Registers
    BY <1>1, RunningRegisters, RunningFrame, ContextIsRegisters
  <2> DEFINE c == Moved(context, context.programCounter + 1, context.stackPointer, context.flags)
  <2>2. fetch(Machine) = Mach(stack, c)
    BY <2>1, OperatorsMove DEF Machine, Mach
  <2>3. c \in Registers /\ c.stackPointer - 0 = c.stackPointer
    BY <2>1 DEF Registers, Moved
  <2> HIDE DEF c
  <2>4. popped(Mach(stack, c), 0) = Mach(stack, c)
    BY <2>3, OperatorsMove, MovedIs
  <2>5. QED
    BY <2>1, <2>2, <2>4
<1>7. GoesTo(context.programCounter + 1, CallStack!Top.locals, CallStack!Below(0) \o words)
  BY <1>1, <1>5, <1>6, Pushes
<1>8. CallStack!Below(0) = CallStack!Top.operands
  <2>1. CallStack!Below(0) = WordsIn(stack, context.contextPointer, context.stackPointer - 0)
    BY <1>1, <1>6, OperandsAre
  <2>2. context.stackPointer - 0 = context.stackPointer
    BY <1>1, RunningRegisters
  <2>3. CallStack!Top.operands
          = WordsIn(stack, context.contextPointer, context.stackPointer)
    BY <1>1, RunningFrame DEF Call
  <2>4. QED
    BY <2>1, <2>2, <2>3
<1>9. CallStack!Become(CallStack!Fetched(CallStack!Top.operands \o words))
  BY <1>1, <1>7, <1>8, FetchedIs DEF GoesTo
<1>10. CallStack!Running /\ CallStack!GoesOn /\ v + 1 + n - 1 \in CallStack!Variables
       /\ v + 1 + n - 1 = v + n
  <2>1. v + 1 + n - 1 = v + n
    BY <1>2
  <2>2. QED
    BY <2>1, <1>1, <1>2, RunningFrame, SameGuards
<1>11. QED
  BY <1>4, <1>7, <1>9, <1>10 DEF GoesTo, CallStack!Load

\* The variables of s from the v-th on are words, the other words are as they were.
VariablesWritten(s, v, n, words) ==
  /\ s \in Cells
  /\ \A a \in 0 .. STACK_SIZE - 1 :
       s[a] = IF a >= context.framePointer + v /\ a < context.framePointer + v + n
                THEN words[a - (context.framePointer + v) + 1] ELSE stack[a]

\* Variables are written, and n operands popped.
LEMMA Stores ==
  ASSUME IInv, Running, GoesOn, NEW v \in Nat, NEW n \in Nat, NEW k \in Nat,
         k <= operands(Machine),
         v + n <= context.contextPointer - 5 - context.framePointer,
         NEW words, IsSeq(words, n), NEW s, VariablesWritten(s, v, n, words),
         Become(Mach(s, Moved(context, context.programCounter + 1,
                              context.stackPointer - k, context.flags)))
  PROVE  GoesTo(context.programCounter + 1,
                SubSeq(CallStack!Top.locals, 1, v) \o words
                  \o SubSeq(CallStack!Top.locals, v + n + 1, Len(CallStack!Top.locals)),
                CallStack!Below(k))
<1> DEFINE fp == context.framePointer
           cp == context.contextPointer
           to == cp - 5
           sp == context.stackPointer - k
           pc == context.programCounter + 1
           x == fp + v
           y == fp + v + n
           locals == CallStack!Top.locals
<1>1. /\ fp \in Nat /\ cp \in Nat /\ sp \in Nat /\ to \in Nat /\ x \in Nat /\ y \in Nat
      /\ fp <= x /\ x <= y /\ y <= to /\ cp <= sp /\ to < cp /\ to = cp - 5 /\ y = x + n
      /\ context.stackPointer <= STACK_SIZE /\ sp <= context.stackPointer
      /\ sp <= STACK_SIZE /\ context.stackPointer \in Nat
  BY RunningRegisters
<1>2. \A a \in Nat : a < STACK_SIZE =>
        s[a] = IF a >= x /\ a < y THEN words[a - x + 1] ELSE stack[a]
  BY DEF VariablesWritten
<1> HIDE DEF fp, cp, to, sp, x, y, locals
<1>3. \A a \in Nat : a < sp /\ (a < x \/ a >= y) => s[a] = stack[a]
  BY <1>1, <1>2
<1>4. Agree(stack, s, context)
  <2>1. ASSUME NEW a \in 0 .. cp - 1, a < fp \/ a >= cp - 5
        PROVE  s[a] = stack[a]
    BY <2>1, <1>1, <1>3
  <2>2. QED
    BY <2>1 DEF Agree, cp, fp
<1>5. Stays(pc, sp, s)
  <2>1. s \in Cells
    BY DEF VariablesWritten
  <2>2. pc \in BodyOf(context.programCounter)
    BY DEF GoesOn, Body, BodyOf
  <2>3. Become(Mach(s, Moved(context, pc, sp, context.flags)))
    BY DEF sp
  <2>4. sp \in Nat /\ context.contextPointer <= sp
    BY <1>1 DEF cp
  <2>5. QED
    BY <2>1, <2>2, <2>3, <2>4, <1>4 DEF Stays
<1>6. GoesTo(pc, WordsIn(s, fp, to), WordsIn(s, cp, sp))
  BY <1>5, MovesOn DEF fp, to, cp
<1>7. WordsIn(s, cp, sp) = CallStack!Below(k)
  <2>1. Kept(stack, s, cp, sp)
    BY <1>1, <1>3 DEF Kept
  <2>2. WordsIn(s, cp, sp) = WordsIn(stack, cp, sp)
    BY <2>1, <1>1, WordsKept
  <2>3. CallStack!Below(k) = WordsIn(stack, cp, sp)
    BY OperandsAre DEF cp, sp
  <2>4. QED
    BY <2>2, <2>3
<1>8. SubSeq(locals, 1, v) = WordsIn(s, fp, x)
  <2>1. SubSeq(locals, 0 + 1, 0 + v) = WordsIn(stack, fp + 0, fp + 0 + v)
    <3>1. 0 \in Nat /\ 0 + v <= context.contextPointer - 5 - context.framePointer
      BY RunningRegisters
    <3>2. QED
      BY <3>1, VariablesAre DEF locals, fp
  <2>2. 0 + 1 = 1 /\ 0 + v = v /\ fp + 0 = fp /\ fp + 0 + v = x
    BY <1>1 DEF x
  <2>3. Kept(stack, s, fp, x)
    BY <1>1, <1>3 DEF Kept
  <2>4. WordsIn(s, fp, x) = WordsIn(stack, fp, x)
    <3>1. fp \in Nat /\ x \in Nat
      BY <1>1
    <3>2. QED
      BY ONLY <2>3, <3>1, WordsKept
  <2>5. QED
    BY <2>1, <2>2, <2>4
<1>9. SubSeq(locals, v + n + 1, Len(locals)) = WordsIn(s, y, to)
  <2> DEFINE m == to - y
             vn == v + n
  <2>1. m \in Nat /\ vn \in Nat /\ vn + m = to - fp /\ fp + vn = y /\ fp + vn + m = to
        /\ vn + m <= context.contextPointer - 5 - context.framePointer
    BY <1>1 DEF y, to, cp, fp
  <2>2. Len(locals) = vn + m
    <3>1. IsSeq(locals, to - fp)
      BY SameGuards DEF locals, to, cp, fp
    <3>2. Len(locals) = to - fp
      BY <3>1, SeqFacts
    <3>3. QED
      BY <2>1, <3>2
  <2> HIDE DEF m, vn
  <2>3. SubSeq(locals, vn + 1, vn + m) = WordsIn(stack, fp + vn, fp + vn + m)
    BY <2>1, VariablesAre DEF locals, fp
  <2>4. Kept(stack, s, y, to)
    BY <1>1, <1>3 DEF Kept
  <2>5. WordsIn(s, y, to) = WordsIn(stack, y, to)
    BY <2>4, <1>1, WordsKept
  <2>6. QED
    BY <2>1, <2>2, <2>3, <2>5 DEF vn
<1>10. WordsIn(s, fp, to) = (WordsIn(s, fp, x) \o words) \o WordsIn(s, y, to)
  <2>1. LieAt(s, x, words, n)
    <3>1. ASSUME NEW i \in 1 .. n PROVE s[x + i - 1] = words[i]
      <4> DEFINE a == x + i - 1
      <4>1. a \in Nat /\ a < STACK_SIZE /\ a >= x /\ a < y /\ a - x + 1 = i
        BY <1>1
      <4> HIDE DEF a
      <4>2. s[a] = words[i]
        BY <4>1, <1>2
      <4>3. QED
        BY <4>2 DEF a
    <3>2. QED
      BY <3>1 DEF LieAt
  <2>2. Extended(s, fp, x, y, words)
    BY <1>1, <2>1, WordsConcat
  <2> DEFINE m == to - y
             rest == WordsIn(s, y, to)
  <2>3. m \in Nat /\ to = y + m /\ fp <= y
    BY <1>1
  <2>4. LieAt(s, y, rest, m)
    <3> HIDE DEF m
    <3>1. IsSeq(rest, m) /\ \A i \in 1 .. m : rest[i] = s[y + i - 1]
      BY <2>3 DEF IsSeq, WordsIn, m
    <3> HIDE DEF rest
    <3>2. \A i \in 1 .. m : s[y + i - 1] = rest[i]
      BY <3>1
    <3>3. QED
      BY <3>1, <3>2 DEF LieAt
  <2> HIDE DEF m, rest
  <2>5. Extended(s, fp, y, to, rest)
    BY <1>1, <2>3, <2>4, WordsConcat
  <2>6. QED
    BY <2>2, <2>5 DEF Extended, rest
<1>11. QED
  BY <1>6, <1>7, <1>8, <1>9, <1>10 DEF locals

\* Replacing the variables of a call that has gone on.
LEMMA LocalsReplaced ==
  ASSUME NEW call, NEW pc, NEW locals, NEW ops, NEW new
  PROVE  /\ [Replaced(call, pc, locals, ops) EXCEPT !.locals = new]
              = Replaced(call, pc, new, ops)
         /\ Replaced(call, pc, locals, ops).locals = locals
<1> DEFINE t == Replaced(call, pc, locals, ops)
           u == [t EXCEPT !.locals = new]
<1>1. /\ t = [class |-> t.class, pc |-> t.pc, returnFromVM |-> t.returnFromVM,
              locals |-> t.locals, operands |-> t.operands]
      /\ t.class = call.class /\ t.pc = pc /\ t.returnFromVM = call.returnFromVM
      /\ t.locals = locals /\ t.operands = ops
  BY DEF Replaced
<1> HIDE DEF t
<1>2. u = [class |-> u.class, pc |-> u.pc, returnFromVM |-> u.returnFromVM,
           locals |-> u.locals, operands |-> u.operands]
  BY <1>1
<1>3. /\ u.class = t.class /\ u.pc = t.pc /\ u.returnFromVM = t.returnFromVM
      /\ u.locals = new /\ u.operands = t.operands
  BY <1>1
<1> HIDE DEF u
<1>4. u = Replaced(call, pc, new, ops)
  BY <1>1, <1>2, <1>3 DEF Replaced
<1>5. QED
  BY <1>1, <1>4 DEF u, t

\* fetch and pop, as one move of the registers.
LEMMA FetchedAndPopped ==
  ASSUME IInv, Running, NEW n \in Nat, n <= operands(Machine)
  PROVE  /\ fetch(Machine) = Mach(stack, Moved(context, context.programCounter + 1,
                                               context.stackPointer, context.flags))
         /\ popped(fetch(Machine), n)
              = Mach(stack, Moved(context, context.programCounter + 1,
                                  context.stackPointer - n, context.flags))
<1> DEFINE c1 == Moved(context, context.programCounter + 1, context.stackPointer, context.flags)
           c2 == Moved(context, context.programCounter + 1, context.stackPointer - n,
                       context.flags)
<1>1. context \in Registers
  BY RunningFrame, ContextIsRegisters
<1>2. fetch(Machine) = Mach(stack, c1)
  BY <1>1, OperatorsMove DEF Machine, Mach
<1>3. c1 \in Registers
  BY <1>1 DEF Registers, Moved
<1>4. Moved(c1, c1.programCounter, c1.stackPointer - n, c1.flags) = c2
  BY DEF Moved
<1>5. popped(Mach(stack, c1), n) = Mach(stack, c2)
  <2> HIDE DEF c1, c2
  <2>1. QED
    BY <1>3, <1>4, OperatorsMove
<1>6. QED
  BY <1>2, <1>5

\* Storing writes the variables and nothing else of the frame.
LEMMA StoreSteps ==
  ASSUME IInv, NEW v \in Variables, NEW n \in 1 .. 2, Store(v, n)
  PROVE  IInv' /\ CallStack!Store(v + 1, n)
<1> DEFINE fp == context.framePointer
           pc == context.programCounter + 1
           words == top(Machine, n)
           locals == CallStack!Top.locals
           s == [a \in DOMAIN stack |-> IF \E i \in 1 .. n : a = v + i - 1 + fp
                                        THEN words[a - (v + 0 - 1 + fp)] ELSE stack[a]]
           m == Mach(stack, Moved(context, pc, context.stackPointer - n, context.flags))
<1>1. /\ Running /\ GoesOn /\ v + n - 1 \in Variables /\ n <= operands(Machine) /\ n \in Nat
  BY DEF Store
<1>2. /\ v \in Nat /\ n \in Nat /\ fp \in Nat /\ v + n <= context.contextPointer - 5 - fp
      /\ v + n \in CallStack!Variables
  <2>1. /\ v \in Nat /\ n \in Nat /\ fp \in Nat /\ v + n - 1 \in Nat
        /\ v + n - 1 + 1 \in CallStack!Variables
    BY <1>1, SameGuards, RunningRegisters
  <2>2. v + n - 1 + 1 = v + n
    BY <2>1
  <2>3. v + n \in 1 .. context.contextPointer - 5 - fp
    BY <1>1, <2>1, <2>2, SameGuards
  <2>4. QED
    BY <2>1, <2>2, <2>3
<1>3. popped(fetch(Machine), n) = m
  BY <1>1, FetchedAndPopped
<1>4. Become([m EXCEPT !.stack = s])
  <2>1. m.stack = stack
    BY DEF Mach
  <2> HIDE DEF m
  <2>2. QED
    BY <1>3, <2>1 DEF Store
<1>5. Become(Mach(s, Moved(context, pc, context.stackPointer - n, context.flags)))
  <2> HIDE DEF s
  <2>1. [m EXCEPT !.stack = s]
          = Mach(s, Moved(context, pc, context.stackPointer - n, context.flags))
    BY DEF Mach
  <2>2. QED
    BY <1>4, <2>1
<1>6. IsSeq(words, n) /\ words \in Seq(Cell) /\ words = CallStack!Taken(n)
  BY <1>1, OperandsAre, TakenAreCells
<1> HIDE DEF words
<1>7. VariablesWritten(s, v, n, words)
  <2>1. stack \in Cells /\ DOMAIN stack = 0 .. STACK_SIZE - 1
    BY <1>1, RunningFrame DEF Cells
  <2> DEFINE x == fp + v
  <2>2. x \in Nat /\ x + n = fp + v + n
    BY <1>2
  <2>3. ASSUME NEW a \in 0 .. STACK_SIZE - 1
        PROVE  /\ (\E i \in 1 .. n : a = v + i - 1 + fp) <=> a >= x /\ a < x + n
               /\ a - (v + 0 - 1 + fp) = a - x + 1
    <3>1. ASSUME a >= x, a < x + n PROVE \E i \in 1 .. n : a = v + i - 1 + fp
      <4>1. a - x + 1 \in 1 .. n /\ a = v + (a - x + 1) - 1 + fp
        BY <3>1, <1>2
      <4>2. QED
        BY <4>1
    <3>2. ASSUME NEW i \in 1 .. n, a = v + i - 1 + fp PROVE a >= x /\ a < x + n
      BY <3>2, <1>2
    <3>3. a - (v + 0 - 1 + fp) = a - x + 1
      BY <1>2
    <3>4. QED
      BY <3>1, <3>2, <3>3
  <2>4. ASSUME NEW a \in 0 .. STACK_SIZE - 1
        PROVE  s[a] = IF a >= x /\ a < x + n THEN words[a - x + 1] ELSE stack[a]
    <3>1. s[a] = IF \E i \in 1 .. n : a = v + i - 1 + fp
                   THEN words[a - (v + 0 - 1 + fp)] ELSE stack[a]
      BY <2>1
    <3> HIDE DEF s, x
    <3>2. QED
      BY <3>1, <2>3
  <2>5. ASSUME NEW a \in 0 .. STACK_SIZE - 1 PROVE s[a] \in Cell
    <3>1. stack[a] \in Cell
      BY <2>1 DEF Cells
    <3>2. CASE a >= x /\ a < x + n
      <4>1. a - x + 1 \in 1 .. n
        BY <3>2, <2>2, <1>2
      <4>2. words[a - x + 1] \in Cell
        <5>1. Len(words) = n
          BY <1>6, SeqFacts
        <5> DEFINE i == a - x + 1
        <5>2. i \in 1 .. Len(words)
          BY <4>1, <5>1
        <5> HIDE DEF i
        <5>3. words[i] \in Cell
          BY <5>2, <1>6, ElementOfSeq
        <5>4. QED
          BY <5>3 DEF i
      <4> HIDE DEF s, x
      <4>3. QED
        BY <3>2, <4>2, <2>4
    <3> HIDE DEF s, x
    <3>3. QED
      BY <3>1, <3>2, <2>4
  <2>6. s \in Cells
    <3>1. s = [a \in 0 .. STACK_SIZE - 1 |-> s[a]]
      BY <2>1
    <3> HIDE DEF s
    <3>2. QED
      BY <3>1, <2>5 DEF Cells
  <2> HIDE DEF s
  <2>7. QED
    BY <2>2, <2>4, <2>6 DEF VariablesWritten, x
<1> HIDE DEF s, locals
<1>8. GoesTo(pc, SubSeq(locals, 1, v) \o words \o SubSeq(locals, v + n + 1, Len(locals)),
             CallStack!Below(n))
  BY <1>1, <1>2, <1>5, <1>6, <1>7, Stores DEF locals
<1>9. (v + 1) - 1 = v /\ v + 1 + n = v + n + 1 /\ v + 1 + n - 1 = v + n
  BY <1>2
<1> DEFINE new == SubSeq(locals, 1, (v + 1) - 1) \o words \o SubSeq(locals, v + 1 + n, Len(locals))
<1>10. GoesTo(pc, new, CallStack!Below(n))
  BY <1>8, <1>9
<1>11. [CallStack!Fetched(CallStack!Below(n)) EXCEPT
          !.locals = SubSeq(@, 1, (v + 1) - 1) \o CallStack!Taken(n)
                       \o SubSeq(@, v + 1 + n, Len(@))]
         = Replaced(CallStack!Top, pc, new, CallStack!Below(n))
  <2> DEFINE t == CallStack!Fetched(CallStack!Below(n))
  <2>1. t = Replaced(CallStack!Top, pc, locals, CallStack!Below(n))
    BY <1>1, FetchedIs DEF locals
  <2>2. t.locals = locals
    BY <2>1, LocalsReplaced
  <2>3. CallStack!Taken(n) = words
    BY <1>6
  <2> HIDE DEF t, new
  <2>4. [t EXCEPT !.locals = new] = Replaced(CallStack!Top, pc, new, CallStack!Below(n))
    BY <2>1, LocalsReplaced
  <2>5. [t EXCEPT !.locals = SubSeq(@, 1, (v + 1) - 1) \o CallStack!Taken(n)
                               \o SubSeq(@, v + 1 + n, Len(@))]
          = [t EXCEPT !.locals = new]
    BY <2>2, <2>3 DEF new
  <2>6. QED
    BY <2>4, <2>5 DEF t
<1>12. /\ CallStack!Running /\ CallStack!GoesOn /\ n <= CallStack!Count
       /\ v + 1 + n - 1 \in CallStack!Variables
  BY <1>1, <1>2, <1>9, RunningFrame, SameGuards
<1> HIDE DEF new
<1>13. CallStack!Become(
         [CallStack!Fetched(CallStack!Below(n)) EXCEPT
            !.locals = SubSeq(@, 1, (v + 1) - 1) \o CallStack!Taken(n)
                         \o SubSeq(@, v + 1 + n, Len(@))])
  BY <1>10, <1>11 DEF GoesTo
<1>14. IInv'
  BY <1>10 DEF GoesTo
<1>15. QED
  BY <1>12, <1>13, <1>14, Zenon DEF CallStack!Store

\* One element of a sequence replaced.
Changes(L, v, w) ==
  SubSeq(L, 1, v) \o <<w>> \o SubSeq(L, v + 1 + 1, Len(L)) = [L EXCEPT ![v + 1] = w]

\* Writing one variable.
LEMMA ExceptIs ==
  ASSUME NEW L, NEW m, IsSeq(L, m), NEW v \in Nat, v + 1 <= m, NEW w
  PROVE  Changes(L, v, w)
<1> DEFINE l == SubSeq(L, 1, v)
           r == SubSeq(L, v + 1 + 1, m)
           k == m - (v + 1)
           u == l \o <<w>>
           z == u \o r
           q == [L EXCEPT ![v + 1] = w]
<1>1. m \in Nat /\ Len(L) = m /\ DOMAIN L = 1 .. m
  BY SeqFacts DEF IsSeq
<1>2. IsSeq(l, v) /\ \A i \in 1 .. v : l[i] = L[i]
  <2>1. v \in Int /\ 1 <= v + 1 /\ v - 1 + 1 = v /\ \A i \in 1 .. v : 1 + i - 1 = i
    OBVIOUS
  <2>2. IsSeq(l, v - 1 + 1) /\ \A i \in 1 .. v - 1 + 1 : l[i] = L[1 + i - 1]
    BY <2>1, SubSeqIs
  <2> HIDE DEF l
  <2>3. QED
    BY <2>1, <2>2
<1>3. IsSeq(r, k) /\ \A i \in 1 .. k : r[i] = L[v + 1 + i]
  <2> DEFINE x == v + 1 + 1
  <2>1. x \in Int /\ m \in Int /\ x <= m + 1 /\ m - x + 1 = k
        /\ \A i \in 1 .. k : x + i - 1 = v + 1 + i
    BY <1>1
  <2> HIDE DEF x, k
  <2>2. IsSeq(SubSeq(L, x, m), k) /\ \A i \in 1 .. k : SubSeq(L, x, m)[i] = L[x + i - 1]
    BY <2>1, SubSeqIs
  <2>3. QED
    BY <2>1, <2>2 DEF x
<1>4. IsSeq(<<w>>, 1) /\ <<w>>[1] = w
  BY DEF IsSeq
<1> HIDE DEF l, r
<1>5. Joined(u, l, v, <<w>>, 1)
  BY <1>2, <1>4, ConcatIs
<1>6. IsSeq(u, v + 1)
  BY <1>5 DEF Joined
<1> HIDE DEF u
<1>7. Joined(z, u, v + 1, r, k)
  <2> HIDE DEF k
  <2>1. QED
    BY <1>3, <1>6, ConcatIs
<1> HIDE DEF z
<1>8. k \in Nat /\ v + 1 + k = m
  BY <1>1
<1>9. IsSeq(z, m)
  BY <1>7, <1>8 DEF Joined
<1>10. IsSeq(q, m)
  BY <1>1 DEF IsSeq
<1>11. ASSUME NEW i \in 1 .. m PROVE z[i] = q[i]
  <2>1. CASE i <= v
    <3>1. i \in 1 .. v /\ i \in 1 .. v + 1 /\ i # v + 1
      BY <2>1
    <3>2. z[i] = u[i] /\ u[i] = l[i] /\ l[i] = L[i]
      BY <3>1, <1>2, <1>5, <1>7 DEF Joined
    <3>3. q[i] = L[i]
      BY <3>1, <1>1
    <3>4. QED
      BY <3>2, <3>3
  <2>2. CASE i = v + 1
    <3>1. z[v + 1] = u[v + 1]
      <4>1. v + 1 \in 1 .. v + 1
        OBVIOUS
      <4>2. QED
        BY <4>1, <1>7 DEF Joined
    <3>2. u[v + 1] = w
      BY <1>4, <1>5 DEF Joined
    <3>3. q[v + 1] = w
      BY <2>2, <1>1
    <3>4. QED
      BY <2>2, <3>1, <3>2, <3>3
  <2>3. CASE i > v + 1
    <3> DEFINE j == i - (v + 1)
    <3>1. j \in 1 .. k /\ v + 1 + j = i /\ i # v + 1
      BY <2>3, <1>1
    <3> HIDE DEF j, k
    <3>2. z[v + 1 + j] = r[j] /\ r[j] = L[v + 1 + j]
      BY <3>1, <1>3, <1>7 DEF Joined
    <3>3. q[i] = L[i]
      BY <3>1, <1>1
    <3> HIDE DEF q
    <3>4. QED
      BY <3>1, <3>2, <3>3
  <2>4. QED
    BY <2>1, <2>2, <2>3, <1>1
<1>12. z = q
  <2> HIDE DEF q
  <2>1. QED
    BY <1>9, <1>10, <1>11, SameSeq
<1>13. QED
  BY <1>1, <1>12 DEF z, u, l, r, Changes

\* iinc writes one variable and pops nothing.
LEMMA IncrementSteps ==
  ASSUME IInv, NEW v \in Variables, NEW w \in Word, Increment(v, w)
  PROVE  IInv' /\ CallStack!Increment(v + 1, w)
<1> DEFINE fp == context.framePointer
           pc == context.programCounter + 1
           locals == CallStack!Top.locals
           s == [stack EXCEPT ![v + fp] = w]
<1>1. Running /\ GoesOn /\ v \in Variables
  BY DEF Increment
<1>2. /\ v \in Nat /\ fp \in Nat /\ v + 1 <= context.contextPointer - 5 - fp
      /\ 0 \in Nat /\ 1 \in Nat /\ 0 <= operands(Machine)
      /\ context.stackPointer - 0 = context.stackPointer
  <2>1. v \in Nat /\ fp \in Nat /\ v + 1 \in 1 .. context.contextPointer - 5 - fp
    BY <1>1, SameGuards, RunningRegisters
  <2>2. 0 <= operands(Machine) /\ context.stackPointer - 0 = context.stackPointer
    BY <1>1, RunningRegisters
  <2>3. QED
    BY <2>1, <2>2
<1> DEFINE c == Moved(context, pc, context.stackPointer, context.flags)
<1>3. fetch(Machine) = Mach(stack, c)
  BY <1>1, <1>2, FetchedAndPopped
<1>4. [Mach(stack, c) EXCEPT !.stack[v + fp] = w] = Mach(s, c)
  <2> HIDE DEF c
  <2>1. QED
    BY DEF Mach
<1>5. Become(Mach(s, Moved(context, pc, context.stackPointer - 0, context.flags)))
  <2>1. Become(Mach(s, c))
    BY <1>3, <1>4 DEF Increment
  <2>2. QED
    BY <2>1, <1>2
<1>6. VariablesWritten(s, v, 1, <<w>>)
  <2>1. stack \in Cells
    BY <1>1, RunningFrame
  <2>2. w \in Cell
    BY DEF Cell
  <2>3. s \in Cells
    BY <2>1, <2>2 DEF Cells
  <2>4. ASSUME NEW a \in 0 .. STACK_SIZE - 1
        PROVE  s[a] = IF a >= fp + v /\ a < fp + v + 1 THEN <<w>>[a - (fp + v) + 1] ELSE stack[a]
    <3>1. a >= fp + v /\ a < fp + v + 1 <=> a = v + fp
      BY <1>2
    <3>2. a = v + fp => a - (fp + v) + 1 = 1
      BY <1>2
    <3>3. s[a] = IF a = v + fp THEN w ELSE stack[a]
      BY <2>1 DEF Cells
    <3> HIDE DEF s
    <3>4. QED
      BY <3>1, <3>2, <3>3
  <2> HIDE DEF s
  <2>5. QED
    BY <2>3, <2>4 DEF VariablesWritten
<1>7. IsSeq(<<w>>, 1)
  BY DEF IsSeq
<1> HIDE DEF s, locals
<1>8. GoesTo(pc, SubSeq(locals, 1, v) \o <<w>> \o SubSeq(locals, v + 1 + 1, Len(locals)),
             CallStack!Below(0))
  BY <1>1, <1>2, <1>5, <1>6, <1>7, Stores DEF locals
<1>9. CallStack!Below(0) = CallStack!Top.operands
  <2>1. CallStack!Below(0) = WordsIn(stack, context.contextPointer, context.stackPointer - 0)
    BY <1>1, <1>2, OperandsAre
  <2>2. CallStack!Top.operands
          = WordsIn(stack, context.contextPointer, context.stackPointer)
    BY <1>1, RunningFrame DEF Call
  <2>3. QED
    BY <2>1, <2>2, <1>2
<1> DEFINE new == [locals EXCEPT ![v + 1] = w]
<1>10. SubSeq(locals, 1, v) \o <<w>> \o SubSeq(locals, v + 1 + 1, Len(locals)) = new
  <2>1. IsSeq(locals, context.contextPointer - 5 - fp)
    BY <1>1, SameGuards DEF locals
  <2>2. Changes(locals, v, w)
    BY <2>1, <1>2, ExceptIs
  <2>3. QED
    BY <2>2 DEF Changes, new
<1> HIDE DEF new
<1>11. GoesTo(pc, new, CallStack!Top.operands)
  BY <1>8, <1>9, <1>10
<1>12. [CallStack!Fetched(CallStack!Top.operands) EXCEPT !.locals[v + 1] = w]
         = Replaced(CallStack!Top, pc, new, CallStack!Top.operands)
  <2> DEFINE t == CallStack!Fetched(CallStack!Top.operands)
  <2>1. t = Replaced(CallStack!Top, pc, locals, CallStack!Top.operands)
    BY <1>1, FetchedIs DEF locals
  <2>2. t.locals = locals
    BY <2>1, LocalsReplaced
  <2> HIDE DEF t
  <2>3. [t EXCEPT !.locals = new] = Replaced(CallStack!Top, pc, new, CallStack!Top.operands)
    BY <2>1, LocalsReplaced
  <2>4. [t EXCEPT !.locals[v + 1] = w] = [t EXCEPT !.locals = new]
    BY <2>2 DEF new
  <2>5. QED
    BY <2>3, <2>4 DEF t
<1>13. CallStack!Running /\ CallStack!GoesOn
  BY <1>1, RunningFrame, SameGuards
<1>14. QED
  BY <1>11, <1>12, <1>13 DEF GoesTo, CallStack!Increment

-----------------------------------------------------------------------------
(* Calls                                                                   *)

Flag(returnFromVM) == IF returnFromVM THEN 1 ELSE 0

\* The context of a method that was just entered.
NewFrame(method, sp) ==
  [programCounter |-> method.first, classIndex |-> method.class,
   stackPointer |-> sp, contextPointer |-> sp,
   framePointer |-> sp - method.locals - 5, flags |-> 0]

\* The five words push_frame pushes.
SavedWords(c, returnFromVM) ==
  <<c.framePointer, c.programCounter, c.classIndex, c.contextPointer, Flag(returnFromVM)>>

\* push_frame writes the five registers and enters the method.  Its u1 keeps the
\* number of local variables because LocalsFit.
LEMMA PushFrame ==
  ASSUME LocalsFit, NEW s, NEW c \in Registers, NEW method \in Method, NEW rf \in BOOLEAN
  PROVE  push_frame(Mach(s, c), method, rf)
           = Mach(Written(s, c.stackPointer, SavedWords(c, rf)),
                  NewFrame(method, c.stackPointer + 5))
<1> DEFINE words == SavedWords(c, rf)
           t == Written(s, c.stackPointer, words)
           d == Moved(c, c.programCounter, c.stackPointer + Len(words), c.flags)
<1>1. pushAll(Mach(s, c), words) = Mach(t, d)
  BY OperatorsMove
<1>2. Len(words) = 5
  BY DEF SavedWords
<1>3. method.locals % 256 = method.locals
  <2>1. method.locals \in Nat /\ method.locals < 256
    BY ProgramAssumption DEF LocalsFit, MethodType
  <2>2. QED
    BY <2>1
<1>4. d.stackPointer = c.stackPointer + 5
  BY <1>2 DEF Moved
<1> HIDE DEF t, d, words
<1>5. push_frame(Mach(s, c), method, rf)
        = [Mach(t, d) EXCEPT !.context =
             [programCounter |-> method.first, classIndex |-> method.class,
              stackPointer |-> d.stackPointer, contextPointer |-> d.stackPointer,
              framePointer |-> d.stackPointer - (method.locals % 256) - 5, flags |-> 0]]
  <2>1. pushAll(Mach(s, c), <<c.framePointer, c.programCounter, c.classIndex,
                              c.contextPointer, IF rf THEN 1 ELSE 0>>) = Mach(t, d)
    BY <1>1 DEF words, SavedWords, Flag
  <2>2. Mach(s, c).context = c /\ Mach(t, d).context = d
    BY DEF Mach
  <2>3. QED
    BY <2>1, <2>2 DEF push_frame
<1>6. push_frame(Mach(s, c), method, rf)
        = [Mach(t, d) EXCEPT !.context = NewFrame(method, c.stackPointer + 5)]
  BY <1>3, <1>4, <1>5 DEF NewFrame
<1>7. [Mach(t, d) EXCEPT !.context = NewFrame(method, c.stackPointer + 5)]
        = Mach(t, NewFrame(method, c.stackPointer + 5))
  BY DEF Mach
<1>8. QED
  BY <1>6, <1>7 DEF t, words

\* A new frame fits its method.
LEMMA NewFrameIsPlaced ==
  ASSUME NEW method \in Method, NEW y \in Nat, y + method.locals + 5 <= STACK_SIZE
  PROVE  /\ NewFrame(method, y + method.locals + 5) \in Context
         /\ Placed(NewFrame(method, y + method.locals + 5))
         /\ NewFrame(method, y + method.locals + 5).framePointer = y
         /\ method.locals \in Nat
<1> DEFINE c == NewFrame(method, y + method.locals + 5)
<1>1. /\ method.class \in Nat /\ method.first \in Nat /\ method.last \in Nat
      /\ method.locals \in Nat /\ method.first <= method.last
  BY ProgramAssumption DEF MethodType
<1>2. method.first \in method.first .. method.last
  BY <1>1
<1>3. method.first \in Addresses /\ MethodAt(method.first) = method
  BY <1>2, MethodOfAddress
<1>4. /\ c.framePointer = y /\ c.contextPointer = y + method.locals + 5
      /\ c.stackPointer = y + method.locals + 5 /\ c.programCounter = method.first
      /\ c.classIndex = method.class /\ c.flags = 0
  BY <1>1 DEF NewFrame
<1>5. c \in Context
  <2>1. c = [programCounter |-> c.programCounter, classIndex |-> c.classIndex,
             flags |-> c.flags, stackPointer |-> c.stackPointer,
             framePointer |-> c.framePointer, contextPointer |-> c.contextPointer]
    BY DEF NewFrame
  <2>2. y \in 0 .. STACK_SIZE /\ y + method.locals + 5 \in 0 .. STACK_SIZE /\ 0 \in 0 .. 1
    BY <1>1
  <2> HIDE DEF c
  <2>3. QED
    BY <2>1, <2>2, <1>1, <1>4 DEF Context
<1> HIDE DEF c
<1>6. Placed(c)
  BY <1>1, <1>3, <1>4 DEF Placed
<1>7. QED
  BY <1>1, <1>4, <1>5, <1>6 DEF c

\* The registers of c, at pc, lie in t from z on.
RegistersSaved(t, z, c, pc, rf) ==
  /\ t[z] = c.framePointer /\ t[z + 1] = pc /\ t[z + 2] = c.classIndex
  /\ t[z + 3] = c.contextPointer /\ t[z + 4] = Flag(rf)

\* The caller, with its operands up to y, and the method it entered.
Called(fr, n, pc, y, method, rf) ==
  Entered(Top(fr, n, pc, y, Flag(rf)), n, NewFrame(method, y + method.locals + 5))

\* With the registers saved above the caller's operands there is a frame more.
LEMMA CallLayout ==
  ASSUME NEW s, NEW n, NEW fr, Layout(s, n, fr), NEW method \in Method, NEW rf \in BOOLEAN,
         NEW t \in Cells, Agree(s, t, fr[n]), NEW pc \in Nat, NEW y \in Nat,
         y + method.locals + 5 <= STACK_SIZE,
         IF n = 0 THEN y = 0
         ELSE /\ {pc - 1, pc} \subseteq BodyOf(fr[n].programCounter)
              /\ fr[n].contextPointer <= y,
         RegistersSaved(t, y + method.locals, fr[n], pc, rf)
  PROVE  Layout(t, n + 1, Called(fr, n, pc, y, method, rf))
<1> DEFINE gr == Top(fr, n, pc, y, Flag(rf))
           c == NewFrame(method, y + method.locals + 5)
<1>1. /\ n \in Nat /\ n \in 0 .. n
      /\ \A i \in 1 .. n : Placed(fr[i])
  BY FrameFacts
<1>2. c \in Context /\ Placed(c) /\ c.framePointer = y /\ method.locals \in Nat
  BY NewFrameIsPlaced
<1>3. Flag(rf) \in 0 .. 1
  BY DEF Flag
<1>4. y \in 0 .. STACK_SIZE
  BY <1>2
<1>5. Layout(t, n, gr)
  <2>1. n > 0 => pc \in BodyOf(fr[n].programCounter) /\ fr[n].contextPointer <= y
    OBVIOUS
  <2>2. QED
    BY <2>1, <1>1, <1>3, <1>4, Unwind
<1>6. gr[n] = Moved(fr[n], pc, y, Flag(rf))
  BY <1>1 DEF Top
<1>7. n > 0 => gr[n].programCounter - 1 \in BodyOf(gr[n].programCounter)
  <2>1. SUFFICES ASSUME n > 0 PROVE pc - 1 \in BodyOf(pc)
    BY <1>6 DEF Moved
  <2>2. pc \in BodyOf(fr[n].programCounter) /\ pc - 1 \in BodyOf(fr[n].programCounter)
    BY <2>1, <1>1
  <2>3. fr[n].programCounter \in Addresses
    BY <2>1, <1>1 DEF Placed
  <2>4. QED
    BY <2>2, <2>3, SameBody DEF BodyOf
<1>8. Saved(t, c, gr[n])
  <2> DEFINE z == y + method.locals
  <2>1. /\ z \in Nat /\ c.contextPointer - 1 = z + 4 /\ c.contextPointer - 2 = z + 3
        /\ c.contextPointer - 3 = z + 2 /\ c.contextPointer - 4 = z + 1
        /\ c.contextPointer - 5 = z
    <3>1. c.contextPointer = z + 5
      BY DEF NewFrame
    <3>2. z \in Nat
      BY <1>2
    <3> HIDE DEF z, c
    <3>3. QED
      BY <3>1, <3>2
  <2>2. /\ gr[n].flags = Flag(rf) /\ gr[n].contextPointer = fr[n].contextPointer
        /\ gr[n].classIndex = fr[n].classIndex /\ gr[n].programCounter = pc
        /\ gr[n].framePointer = fr[n].framePointer /\ gr[n].stackPointer = y
    BY <1>6 DEF Moved
  <2>3. RegistersSaved(t, z, fr[n], pc, rf)
    OBVIOUS
  <2> HIDE DEF z, c, gr
  <2>4. QED
    BY <2>1, <2>2, <2>3, <1>2 DEF Saved, RegistersSaved
<1>9. n = 0 => gr[n].stackPointer = 0
  BY <1>6 DEF Moved
<1> HIDE DEF gr, c
<1>10. Layout(t, n + 1, Entered(gr, n, c))
  BY <1>2, <1>5, <1>7, <1>8, <1>9, Enter
<1>11. QED
  BY <1>10 DEF Called, gr, c

\* The call of a method that was just entered, as the stack has it.
LEMMA CallEntered ==
  ASSUME NEW method \in Method, NEW y \in Nat, NEW rf \in BOOLEAN, NEW t,
         t[y + method.locals + 4] = Flag(rf)
  PROVE  Call(t, NewFrame(method, y + method.locals + 5))
           = [class |-> method.class, pc |-> method.first, returnFromVM |-> rf,
              locals |-> WordsIn(t, y, y + method.locals), operands |-> <<>>]
<1> DEFINE z == y + method.locals
           c == NewFrame(method, z + 5)
<1>1. method.locals \in Nat
  BY ProgramAssumption DEF MethodType
<1>2. /\ z \in Nat /\ z + 5 - 1 = z + 4 /\ z + 5 - 5 = z /\ (z + 5) - method.locals - 5 = y
      /\ z + 5 - (z + 5) = 0
  BY <1>1
<1>3. t[z + 4] = 1 <=> rf
  BY DEF Flag
<1>4. /\ c.classIndex = method.class /\ c.programCounter = method.first
      /\ c.contextPointer = z + 5 /\ c.stackPointer = z + 5 /\ c.framePointer = y
  BY <1>2 DEF NewFrame
<1>5. WordsIn(t, z + 5, z + 5) = <<>>
  <2>1. WordsIn(t, z + 5, z + 5) = [i \in 1 .. 0 |-> t[z + 5 + i - 1]]
    BY <1>2 DEF WordsIn
  <2>2. QED
    BY <2>1
<1> HIDE DEF z, c
<1>6. (t[z + 4] = 1) = rf
  BY <1>3
<1>7. Call(t, c) = [class |-> method.class, pc |-> method.first, returnFromVM |-> rf,
                    locals |-> WordsIn(t, y, z), operands |-> <<>>]
  BY <1>2, <1>4, <1>5, <1>6 DEF Call
<1>8. QED
  BY <1>7 DEF z, c

\* One call goes on, and there is a new one on top of it.
OneMore(cs, n, call, new) ==
  [i \in 1 .. n + 1 |-> IF i = n + 1 THEN new ELSE IF i = n THEN call ELSE cs[i]]

CallsOneMore(s, n, fr, t, pc, y, method, rf) ==
  [i \in 1 .. n + 1 |-> Call(t, Called(fr, n, pc, y, method, rf)[i])]
    = OneMore([i \in 1 .. n |-> Call(s, fr[i])], n,
              Replaced(Call(s, fr[n]), pc,
                       WordsIn(t, fr[n].framePointer, fr[n].contextPointer - 5),
                       WordsIn(t, fr[n].contextPointer, y)),
              [class |-> method.class, pc |-> method.first, returnFromVM |-> rf,
               locals |-> WordsIn(t, y, y + method.locals), operands |-> <<>>])

\* The callers are as they were, and the new call is the last.
LEMMA CallsEntered ==
  ASSUME NEW s, NEW n, NEW fr, Layout(s, n, fr), n > 0, NEW method \in Method,
         NEW rf \in BOOLEAN, NEW t \in Cells, Agree(s, t, fr[n]), NEW pc, NEW y \in Nat,
         t[y + method.locals + 4] = Flag(rf)
  PROVE  CallsOneMore(s, n, fr, t, pc, y, method, rf)
<1> DEFINE gr == Top(fr, n, pc, y, Flag(rf))
           c == NewFrame(method, y + method.locals + 5)
           call == Replaced(Call(s, fr[n]), pc,
                            WordsIn(t, fr[n].framePointer, fr[n].contextPointer - 5),
                            WordsIn(t, fr[n].contextPointer, y))
           new == [class |-> method.class, pc |-> method.first, returnFromVM |-> rf,
                   locals |-> WordsIn(t, y, y + method.locals), operands |-> <<>>]
           cs == [i \in 1 .. n |-> Call(s, fr[i])]
           hr == Called(fr, n, pc, y, method, rf)
<1>1. n \in Nat /\ n \in 1 .. n
  BY FrameFacts
<1>2. Call(t, c) = new
  BY CallEntered
<1>3. [i \in 1 .. n |-> Call(t, gr[i])] = GoneOn(cs, n, call)
  BY <1>1, CallsBelow
<1>4. hr[n + 1] = c /\ \A i \in 1 .. n : hr[i] = gr[i]
  BY <1>1 DEF Called, Entered
<1> HIDE DEF gr, c, call, new, cs, hr
<1>5. \A i \in 1 .. n : Call(t, hr[i]) = IF i = n THEN call ELSE cs[i]
  <2>1. \A i \in 1 .. n : Call(t, gr[i]) = IF i = n THEN call ELSE cs[i]
    BY <1>3 DEF GoneOn
  <2>2. QED
    BY <2>1, <1>4
<1>6. Call(t, hr[n + 1]) = new
  BY <1>2, <1>4
<1>7. [i \in 1 .. n + 1 |-> Call(t, hr[i])] = OneMore(cs, n, call, new)
  BY <1>1, <1>5, <1>6 DEF OneMore
<1>8. QED
  BY <1>7 DEF hr, cs, call, new, CallsOneMore

\* invokeCommon as one move: zeros above the arguments, then the registers.
Zeros(method) == [i \in 1 .. method.locals - method.args |-> Zero]

\* invokeCommon fills the variables that are no arguments with 0, then pushes the frame.
LEMMA InvokeCommonIs ==
  ASSUME LocalsFit, NEW s \in Cells, NEW method \in Method, NEW rf \in BOOLEAN,
         NEW c \in Registers, NEW y \in Nat, c.stackPointer = y + method.args
  PROVE  \E t \in Cells :
           /\ invokeCommon(Mach(s, c), method, rf)
                = Mach(t, NewFrame(method, y + method.locals + 5))
           /\ y + method.locals + 5 <= STACK_SIZE =>
                /\ \A a \in Nat : a < y + method.args => t[a] = s[a]
                /\ LieAt(t, y + method.args, Zeros(method), method.locals - method.args)
                /\ RegistersSaved(t, y + method.locals, c, c.programCounter, rf)
<1> DEFINE k == method.locals - method.args
           x == y + method.args
           z == y + method.locals
           zeros == Zeros(method)
           s1 == Written(s, x, zeros)
           c1 == Moved(c, c.programCounter, z, c.flags)
           words == SavedWords(c, rf)
           t == Written(s1, z, words)
<1>1. /\ method.locals \in Nat /\ method.args \in Nat /\ method.args <= method.locals
      /\ k \in Nat /\ x \in Nat /\ z \in Nat /\ x + k = z /\ x <= z
  BY ProgramAssumption DEF MethodType
<1>2. zeros \in Seq(Cell) /\ Len(zeros) = k /\ \A i \in 1 .. k : zeros[i] = Zero
  <2> HIDE DEF k
  <2>1. zeros = [i \in 1 .. k |-> Zero] /\ Zero \in Cell
    BY DEF Zeros, Cell, k
  <2>2. QED
    BY <2>1, <1>1
<1>3. /\ c.framePointer \in Nat /\ c.programCounter \in Nat /\ c.classIndex \in Nat
      /\ c.contextPointer \in Nat /\ c.flags \in 0 .. 1
  BY DEF Registers
<1>4. words \in Seq(Cell) /\ Len(words) = 5
  <2>1. Flag(rf) \in Nat /\ Nat \subseteq Cell
    BY DEF Flag, Cell
  <2>2. QED
    BY <1>3, <2>1 DEF SavedWords
<1>5. words[1] = c.framePointer /\ words[2] = c.programCounter /\ words[3] = c.classIndex
      /\ words[4] = c.contextPointer /\ words[5] = Flag(rf)
  BY DEF SavedWords
<1>6. invokeCommon(Mach(s, c), method, rf) = push_frame(Mach(s1, c1), method, rf)
  <2>1. pushAll(Mach(s, c), zeros)
          = Mach(Written(s, c.stackPointer, zeros),
                 Moved(c, c.programCounter, c.stackPointer + Len(zeros), c.flags))
    BY OperatorsMove
  <2>2. c.stackPointer + Len(zeros) = z /\ c.stackPointer = x
    BY <1>1, <1>2
  <2> HIDE DEF zeros, x, z
  <2>3. pushAll(Mach(s, c), zeros) = Mach(s1, c1)
    BY <2>1, <2>2
  <2>4. QED
    BY <2>3 DEF invokeCommon, zeros, Zeros
<1>7. push_frame(Mach(s1, c1), method, rf) = Mach(t, NewFrame(method, z + 5))
  <2>1. c1 \in Registers
    BY <1>1, <1>3, MovedRegisters
  <2>2. c1.stackPointer = z /\ SavedWords(c1, rf) = words
    BY DEF Moved, SavedWords
  <2> HIDE DEF c1, z, words, s1
  <2>3. QED
    BY <2>1, <2>2, PushFrame
<1> HIDE DEF x, z, k, zeros, words
<1>8. s1 \in Cells
  BY <1>1, <1>2, WrittenIs
<1>9. t \in Cells
  <2> HIDE DEF s1
  <2>1. QED
    BY <1>1, <1>4, <1>8, WrittenIs
<1>10. ASSUME z + 5 <= STACK_SIZE
       PROVE  /\ \A a \in Nat : a < x => t[a] = s[a]
              /\ LieAt(t, x, zeros, k)
              /\ RegistersSaved(t, z, c, c.programCounter, rf)
  <2>1. /\ \A a \in 0 .. STACK_SIZE - 1 : a < x => s1[a] = s[a]
        /\ \A a \in 0 .. STACK_SIZE - 1 : a >= x /\ a < x + Len(zeros) =>
             s1[a] = zeros[a - x + 1]
    <3>1. \A a \in 0 .. STACK_SIZE - 1 : a < x => Written(s, x, zeros)[a] = s[a]
      BY <1>1, <1>2, WrittenIs
    <3>2. \A a \in 0 .. STACK_SIZE - 1 : a >= x /\ a < x + Len(zeros) =>
            Written(s, x, zeros)[a] = zeros[a - x + 1]
      BY <1>1, <1>2 DEF Written, Cells
    <3>3. QED
      BY <3>1, <3>2
  <2>2. /\ \A a \in 0 .. STACK_SIZE - 1 : a < z => t[a] = s1[a]
        /\ \A a \in 0 .. STACK_SIZE - 1 : a >= z /\ a < z + Len(words) =>
             t[a] = words[a - z + 1]
    <3> HIDE DEF s1
    <3>1. \A a \in 0 .. STACK_SIZE - 1 : a < z => Written(s1, z, words)[a] = s1[a]
      BY <1>1, <1>4, <1>8, WrittenIs
    <3>2. \A a \in 0 .. STACK_SIZE - 1 : a >= z /\ a < z + Len(words) =>
            Written(s1, z, words)[a] = words[a - z + 1]
      BY <1>1, <1>4, <1>8 DEF Written, Cells
    <3>3. QED
      BY <3>1, <3>2
  <2> HIDE DEF s1, t
  <2>3. \A a \in Nat : a < x => t[a] = s[a]
    BY <1>1, <1>10, <2>1, <2>2
  <2>4. LieAt(t, x, zeros, k)
    <3>1. ASSUME NEW i \in 1 .. k PROVE t[x + i - 1] = zeros[i]
      <4> DEFINE a == x + i - 1
      <4>1. a \in 0 .. STACK_SIZE - 1 /\ a < z /\ a >= x /\ a < x + k /\ a - x + 1 = i
        BY <1>1, <1>10
      <4> HIDE DEF a
      <4>2. t[a] = s1[a] /\ s1[a] = zeros[i]
        BY <4>1, <1>2, <2>1, <2>2
      <4>3. QED
        BY <4>2 DEF a
    <3>2. IsSeq(zeros, k)
      BY <1>1, <1>2, LenProperties DEF IsSeq
    <3>3. QED
      BY <3>1, <3>2 DEF LieAt
  <2>5. RegistersSaved(t, z, c, c.programCounter, rf)
    <3>1. ASSUME NEW i \in 0 .. 4 PROVE t[z + i] = words[i + 1]
      <4> DEFINE a == z + i
      <4>1. a \in 0 .. STACK_SIZE - 1 /\ a >= z /\ a < z + 5 /\ a - z + 1 = i + 1
        BY <1>1, <1>10
      <4> HIDE DEF a
      <4>2. t[a] = words[i + 1]
        BY <4>1, <1>4, <2>2
      <4>3. QED
        BY <4>2 DEF a
    <3>2. z + 0 = z
      BY <1>1
    <3>3. /\ t[z] = words[1] /\ t[z + 1] = words[2] /\ t[z + 2] = words[3]
          /\ t[z + 3] = words[4] /\ t[z + 4] = words[5]
      BY <3>1, <3>2
    <3>4. QED
      BY <3>3, <1>5 DEF RegistersSaved
  <2>6. QED
    BY <2>3, <2>4, <2>5
<1>11. invokeCommon(Mach(s, c), method, rf) = Mach(t, NewFrame(method, z + 5))
  BY <1>6, <1>7
<1> HIDE DEF t
<1>12. QED
  BY <1>9, <1>10, <1>11 DEF x, z, k, zeros

\* The running frame goes on at pc with its operands up to y, and method is entered
\* with the arguments that s has from y on.
CallsUp(pc, y, s, method, rf) ==
  /\ pc \in Body /\ pc - 1 \in Body
  /\ y \in Nat /\ context.contextPointer <= y
  /\ s \in Cells /\ \A a \in Nat : a < y /\ a < STACK_SIZE => s[a] = stack[a]
  /\ Become(invokeCommon(Mach(s, Moved(context, pc, y + method.args, context.flags)),
                         method, rf))

\* Either kind of call: the arguments leave the caller's operands.
LEMMA Enters ==
  ASSUME LocalsFit, IInv, Running, NEW method \in Method, NEW rf \in BOOLEAN,
         NEW pc, NEW y, NEW s, CallsUp(pc, y, s, method, rf)
  PROVE  /\ IInv' /\ (context'.flags = 1 <=> context.flags = 1)
         /\ calls' = OneMore(calls, Len(calls),
                       Replaced(CallStack!Top, pc, CallStack!Top.locals,
                                WordsIn(stack, context.contextPointer, y)),
                       CallStack!NewCall(method, WordsIn(s, y, y + method.args), rf))
         /\ IsSeq(calls, Len(calls)) /\ Len(calls) > 0
         /\ y + method.locals + 5 <= STACK_SIZE
<1>1. PICK n \in Nat, fr \in UNION {[0 .. k -> Context] : k \in Nat} : FramesAre(n, fr)
  BY DEF IInv
<1>2. /\ Layout(stack, n, fr) /\ context = fr[n] /\ n > 0 /\ stack \in Cells
      /\ context \in Context /\ IsSeq(calls, n) /\ Len(calls) = n
      /\ CallStack!Top = Call(stack, context) /\ n \in 1 .. n /\ context.flags = 0
  BY <1>1, RunningIsTop DEF FramesAre, Running
<1> DEFINE fp == context.framePointer
           cp == context.contextPointer
           x == y + method.args
           z == y + method.locals
           c == Moved(context, pc, x, context.flags)
           zeros == Zeros(method)
           k == method.locals - method.args
           t == stack'
<1>3. /\ method.locals \in Nat /\ method.args \in Nat /\ method.args <= method.locals
  BY ProgramAssumption DEF MethodType
<1>4. /\ y \in Nat /\ cp <= y /\ s \in Cells
      /\ \A a \in Nat : a < y /\ a < STACK_SIZE => s[a] = stack[a]
      /\ pc \in BodyOf(context.programCounter) /\ pc - 1 \in BodyOf(context.programCounter)
  BY DEF CallsUp, Body, BodyOf
<1>5. /\ fp \in Nat /\ cp \in Nat /\ fp <= cp - 5 /\ cp - 5 \in Nat
      /\ context.programCounter \in Addresses
  BY RunningRegisters
<1>6. pc \in Nat
  BY <1>4, <1>5, SameBody, MethodOfAddress
<1>7. /\ x \in Nat /\ z \in Nat /\ x + k = z /\ y <= x /\ x <= z /\ k \in Nat
  BY <1>3, <1>4
<1>8. c \in Registers /\ c.stackPointer = y + method.args /\ c.programCounter = pc
      /\ c.framePointer = fp /\ c.classIndex = context.classIndex /\ c.contextPointer = cp
  <2>1. context \in Registers
    BY <1>2, ContextIsRegisters
  <2>2. context.flags \in 0 .. 1
    BY <1>2
  <2>3. c \in Registers
    <3> HIDE DEF x
    <3>1. QED
      BY <2>1, <2>2, <1>6, <1>7, MovedRegisters
  <2>4. QED
    BY <2>3 DEF Moved
<1> HIDE DEF c
<1>9. PICK u \in Cells :
        /\ invokeCommon(Mach(s, c), method, rf) = Mach(u, NewFrame(method, z + 5))
        /\ z + 5 <= STACK_SIZE =>
             /\ \A a \in Nat : a < x => u[a] = s[a]
             /\ LieAt(u, x, zeros, k)
             /\ RegistersSaved(u, z, c, c.programCounter, rf)
  BY <1>4, <1>8, InvokeCommonIs
<1>10. Become(Mach(u, NewFrame(method, z + 5)))
  BY <1>9 DEF CallsUp, c
<1> HIDE DEF x, z, zeros, k
<1>11. /\ context' = NewFrame(method, z + 5) /\ z + 5 <= STACK_SIZE
       /\ t = [a \in 0 .. STACK_SIZE - 1 |-> IF a < z + 5 THEN u[a] ELSE Stale]
  <2> DEFINE new == NewFrame(method, z + 5)
  <2>1. new.stackPointer = z + 5
    BY DEF NewFrame
  <2> HIDE DEF new
  <2>2. Become(Mach(u, new))
    BY <1>10 DEF new
  <2>3. QED
    BY <2>1, <2>2, <1>2, BecomeIs DEF new
<1>12. t \in Cells
  BY <1>9, <1>11 DEF Cells, Cell
<1>13. \A a \in Nat : a < z + 5 => t[a] = u[a]
  BY <1>7, <1>11
<1> HIDE DEF t
<1>14. /\ \A a \in Nat : a < x => u[a] = s[a]
       /\ LieAt(u, x, zeros, k)
       /\ RegistersSaved(u, z, c, c.programCounter, rf)
  BY <1>9, <1>11
<1>15. /\ \A a \in Nat : a < x => t[a] = s[a]
       /\ \A a \in Nat : a < y => t[a] = stack[a]
  BY <1>4, <1>7, <1>11, <1>13, <1>14
<1>16. RegistersSaved(t, z, fr[n], pc, rf)
  <2>1. /\ t[z] = u[z] /\ t[z + 1] = u[z + 1] /\ t[z + 2] = u[z + 2]
        /\ t[z + 3] = u[z + 3] /\ t[z + 4] = u[z + 4]
    BY <1>7, <1>13
  <2>2. QED
    BY <2>1, <1>2, <1>8, <1>14 DEF RegistersSaved
<1>17. Agree(stack, t, fr[n])
  BY <1>2, <1>4, <1>5, <1>15 DEF Agree
<1> DEFINE hr == Called(fr, n, pc, y, method, rf)
<1>18. Layout(t, n + 1, hr)
  <2>1. n # 0
    BY <1>2
  <2>2. /\ {pc - 1, pc} \subseteq BodyOf(fr[n].programCounter)
        /\ fr[n].contextPointer <= y
    BY <1>2, <1>4
  <2>3. y + method.locals + 5 <= STACK_SIZE /\ RegistersSaved(t, y + method.locals, fr[n], pc, rf)
    BY <1>11, <1>16 DEF z
  <2>4. QED
    BY <2>1, <2>2, <2>3, <1>2, <1>4, <1>6, <1>12, <1>17, CallLayout
<1>19. context' = hr[n + 1]
  <2>1. hr[n + 1] = NewFrame(method, z + 5)
    BY DEF Called, Entered, z
  <2>2. QED
    BY <2>1, <1>11
<1>20. IInv' /\ calls' = [i \in 1 .. n + 1 |-> Call(t, hr[i])]
  <2> HIDE DEF hr
  <2>1. \A m, gr : Layout(stack', m, gr) /\ context' = gr[m] =>
          IInv' /\ calls' = [i \in 1 .. m |-> Call(stack', gr[i])]
    BY InvHolds
  <2>2. QED
    BY <2>1, <1>18, <1>19 DEF t
<1> DEFINE call == Replaced(CallStack!Top, pc, WordsIn(t, fp, cp - 5), WordsIn(t, cp, y))
           new == [class |-> method.class, pc |-> method.first, returnFromVM |-> rf,
                   locals |-> WordsIn(t, y, z), operands |-> <<>>]
<1>21. calls' = OneMore(calls, n, call, new)
  <2>1. calls = [i \in 1 .. n |-> Call(stack, fr[i])]
    BY <1>2, CallsAreFrames DEF calls
  <2>2. t[y + method.locals + 4] = Flag(rf)
    BY <1>16 DEF RegistersSaved, z
  <2>3. CallsOneMore(stack, n, fr, t, pc, y, method, rf)
    BY <2>2, <1>2, <1>4, <1>12, <1>17, CallsEntered
  <2>4. QED
    BY <2>1, <2>3, <1>2, <1>20 DEF z, CallsOneMore
<1>22. WordsIn(t, fp, cp - 5) = CallStack!Top.locals
  <2> DEFINE to == cp - 5
  <2>1. to \in Nat /\ fp \in Nat /\ Kept(stack, t, fp, to)
    BY <1>4, <1>5, <1>15 DEF Kept
  <2> HIDE DEF to, fp
  <2>2. WordsIn(t, fp, to) = WordsIn(stack, fp, to)
    BY <2>1, WordsKept
  <2>3. CallStack!Top.locals = WordsIn(stack, fp, to)
    BY <1>2 DEF Call, to, fp
  <2>4. QED
    BY <2>2, <2>3 DEF to, fp
<1>23. WordsIn(t, cp, y) = WordsIn(stack, cp, y)
  <2>1. cp \in Nat /\ y \in Nat /\ Kept(stack, t, cp, y)
    BY <1>4, <1>5, <1>15 DEF Kept
  <2> HIDE DEF cp
  <2>2. QED
    BY <2>1, WordsKept
<1>24. new = CallStack!NewCall(method, WordsIn(s, y, x), rf)
  <2>1. WordsIn(t, y, x) = WordsIn(s, y, x)
    <3>1. Kept(s, t, y, x)
      BY <1>4, <1>7, <1>15 DEF Kept
    <3>2. QED
      BY <3>1, <1>4, <1>7, WordsKept
  <2>2. LieAt(t, x, zeros, k)
    <3>1. ASSUME NEW i \in 1 .. k PROVE t[x + i - 1] = u[x + i - 1]
      <4>1. x + i - 1 \in Nat /\ x + i - 1 < z + 5
        BY <1>7
      <4>2. QED
        BY <4>1, <1>13
    <3>2. QED
      BY <3>1, <1>14 DEF LieAt
  <2>3. Extended(t, y, x, z, zeros)
    BY <2>2, <1>4, <1>7, WordsConcat
  <2>4. WordsIn(t, y, z) = WordsIn(s, y, x) \o zeros
    BY <2>1, <2>3 DEF Extended
  <2>5. QED
    BY <2>4 DEF CallStack!NewCall, zeros, Zeros
<1>25. context'.flags = 0
  BY <1>11 DEF NewFrame
<1> HIDE DEF call, new
<1>26. call = Replaced(CallStack!Top, pc, CallStack!Top.locals, WordsIn(stack, cp, y))
  BY <1>22, <1>23 DEF call
<1>27. calls' = OneMore(calls, Len(calls),
                  Replaced(CallStack!Top, pc, CallStack!Top.locals, WordsIn(stack, cp, y)),
                  CallStack!NewCall(method, WordsIn(s, y, x), rf))
  BY <1>2, <1>21, <1>24, <1>26
<1>28. y + method.locals + 5 <= STACK_SIZE
  BY <1>11 DEF z
<1>29. QED
  BY <1>2, <1>20, <1>25, <1>27, <1>28 DEF x

\* OneMore in terms of sequences.
LEMMA OneMoreIs ==
  ASSUME NEW cs, NEW n, IsSeq(cs, n), n > 0, NEW call, NEW new
  PROVE  /\ Front(cs) \o <<call, new>> = OneMore(cs, n, call, new)
         /\ Append(cs, new) = OneMore(cs, n, cs[n], new)
<1>1. n \in Nat /\ Len(cs) = n
  BY SeqFacts DEF IsSeq
<1> DEFINE l == Front(cs)
           m == n - 1
           two == <<call, new>>
           u == l \o two
           q == OneMore(cs, n, call, new)
<1>2. IsSeq(l, m) /\ \A i \in 1 .. m : l[i] = cs[i]
  <2>1. l = SubSeq(cs, 1, m)
    BY <1>1 DEF Front
  <2>2. m \in Int /\ 1 <= m + 1 /\ m - 1 + 1 = m /\ \A i \in 1 .. m : 1 + i - 1 = i
    BY <1>1
  <2> HIDE DEF m, l
  <2>3. IsSeq(SubSeq(cs, 1, m), m) /\ \A i \in 1 .. m : SubSeq(cs, 1, m)[i] = cs[1 + i - 1]
    BY <2>2, SubSeqIs
  <2>4. QED
    BY <2>1, <2>2, <2>3
<1>3. IsSeq(two, 2) /\ two[1] = call /\ two[2] = new
  BY DEF IsSeq
<1>4. Joined(u, l, m, two, 2)
  <2> HIDE DEF l, m, two
  <2>1. QED
    BY <1>2, <1>3, ConcatIs
<1>5. m + 2 = n + 1 /\ m + 1 = n /\ n + 1 \in Nat /\ m \in Nat
  BY <1>1
<1> HIDE DEF l, m, two, u
<1>6. IsSeq(u, n + 1)
  BY <1>4, <1>5 DEF Joined
<1>7. IsSeq(q, n + 1)
  BY <1>5 DEF IsSeq, OneMore
<1>8. ASSUME NEW i \in 1 .. n + 1 PROVE u[i] = q[i]
  <2>1. q[i] = IF i = n + 1 THEN new ELSE IF i = n THEN call ELSE cs[i]
    BY DEF OneMore
  <2> HIDE DEF q
  <2>2. CASE i = n + 1
    <3>1. u[m + 2] = two[2]
      BY <1>4 DEF Joined
    <3>2. QED
      BY <3>1, <2>1, <2>2, <1>3, <1>5
  <2>3. CASE i = n
    <3>1. u[m + 1] = two[1]
      BY <1>4 DEF Joined
    <3>2. n # n + 1
      BY <1>1
    <3>3. QED
      BY <3>1, <3>2, <2>1, <2>3, <1>3, <1>5
  <2>4. CASE i # n /\ i # n + 1
    <3>1. i \in 1 .. m
      BY <2>4, <1>1, <1>5
    <3>2. u[i] = l[i] /\ l[i] = cs[i]
      BY <3>1, <1>2, <1>4 DEF Joined
    <3>3. QED
      BY <3>2, <2>1, <2>4
  <2>5. QED
    BY <2>2, <2>3, <2>4
<1> HIDE DEF q
<1>9. u = q
  BY <1>6, <1>7, <1>8, SameSeq
<1>10. Append(cs, new) = OneMore(cs, n, cs[n], new)
  <2>1. Append(cs, new) = [i \in 1 .. n + 1 |-> IF i = n + 1 THEN new ELSE cs[i]]
    BY AppendIs
  <2>2. QED
    BY <2>1 DEF OneMore
<1>11. QED
  BY <1>9, <1>10 DEF u, l, two, q

\* The invoke instructions.
LEMMA InvokeSteps ==
  ASSUME LocalsFit, IInv, NEW method \in Method, Invoke(method)
  PROVE  IInv' /\ CallStack!Invoke(method)
<1> DEFINE pc == context.programCounter + 1
           y == context.stackPointer - method.args
<1>1. /\ Running /\ GoesOn /\ method.args <= operands(Machine)
      /\ Become(invokeCommon(fetch(Machine), method, FALSE))
  BY DEF Invoke
<1>2. method.args \in Nat
  BY ProgramAssumption DEF MethodType
<1>3. /\ y \in Nat /\ context.contextPointer <= y /\ y + method.args = context.stackPointer
      /\ 0 \in Nat /\ 0 <= operands(Machine) /\ context.programCounter \in Addresses
      /\ context.programCounter \in Nat
  BY <1>1, <1>2, RunningRegisters
<1>4. CallsUp(pc, y, stack, method, FALSE)
  <2>1. pc \in Body /\ pc - 1 \in Body
    <3>1. pc - 1 = context.programCounter
      BY <1>3
    <3>2. QED
      BY <3>1, <1>1, <1>3, MethodOfAddress DEF GoesOn, Body, BodyOf
  <2>2. fetch(Machine) = Mach(stack, Moved(context, pc, y + method.args, context.flags))
    <3>1. fetch(Machine) = Mach(stack, Moved(context, pc, context.stackPointer, context.flags))
      BY <1>1, <1>3, FetchedAndPopped
    <3> HIDE DEF y
    <3>2. QED
      BY <3>1, <1>3
  <2>3. stack \in Cells
    BY <1>1, RunningFrame
  <2> HIDE DEF y
  <2>4. QED
    BY <2>1, <2>2, <2>3, <1>1, <1>3 DEF CallsUp
<1>5. /\ IInv' /\ (context'.flags = 1 <=> context.flags = 1)
      /\ calls' = OneMore(calls, Len(calls),
                       Replaced(CallStack!Top, pc, CallStack!Top.locals,
                                WordsIn(stack, context.contextPointer, y)),
                       CallStack!NewCall(method, WordsIn(stack, y, y + method.args), FALSE))
      /\ IsSeq(calls, Len(calls)) /\ Len(calls) > 0
  BY <1>1, <1>4, Enters
<1>6. /\ WordsIn(stack, context.contextPointer, y) = CallStack!Below(method.args)
      /\ WordsIn(stack, y, y + method.args) = CallStack!Taken(method.args)
  <2>1. /\ WordsIn(stack, context.contextPointer, y) = CallStack!Below(method.args)
        /\ WordsIn(stack, y, context.stackPointer) = CallStack!Taken(method.args)
    BY <1>1, <1>2, OperandsAre
  <2> HIDE DEF y
  <2>2. QED
    BY <2>1, <1>3
<1>7. Replaced(CallStack!Top, pc, CallStack!Top.locals, CallStack!Below(method.args))
        = CallStack!Fetched(CallStack!Below(method.args))
  BY <1>1, FetchedIs
<1> DEFINE call == CallStack!Fetched(CallStack!Below(method.args))
           new == CallStack!NewCall(method, CallStack!Taken(method.args), FALSE)
<1>8. calls' = OneMore(calls, Len(calls), call, new)
  BY <1>5, <1>6, <1>7
<1> HIDE DEF call, new
<1>9. Front(calls) \o <<call, new>> = OneMore(calls, Len(calls), call, new)
  BY <1>5, OneMoreIs
<1>10. calls' = CallStack!Front(calls) \o <<call, new>>
  BY <1>8, <1>9, SameProgram
<1>11. CallStack!Running /\ CallStack!GoesOn /\ method.args <= CallStack!Count
  BY <1>1, RunningFrame, SameGuards
<1>12. (context'.flags = 1) = (context.flags = 1)
  BY <1>5
<1>13. IInv'
  BY <1>5
<1>14. QED
  BY <1>10, <1>11, <1>12, <1>13, Zenon DEF CallStack!Invoke, call, new

\* Calls of Java by C code.
LEMMA CallFromCSteps ==
  ASSUME LocalsFit, IInv, NEW method \in Method, NEW args \in [1 .. method.args -> Word],
         CallFromC(method, args)
  PROVE  IInv' /\ CallStack!CallFromC(method, args)
<1> DEFINE pc == context.programCounter
           y == context.stackPointer
           s == Written(stack, y, args)
<1>1. /\ Running /\ InC
      /\ Become(invokeCommon(pushAll(Machine, args), method, TRUE))
  BY DEF CallFromC
<1>2. method.args \in Nat /\ method.locals \in Nat /\ method.args <= method.locals
  BY ProgramAssumption DEF MethodType
<1>3. args \in Seq(Cell) /\ Len(args) = method.args
  BY <1>2, WordSequences
<1>4. /\ y \in Nat /\ context.contextPointer <= y /\ context.contextPointer \in Nat
      /\ pc \in Addresses /\ stack \in Cells /\ context \in Context
      /\ CallStack!Top = Call(stack, context)
  BY <1>1, RunningRegisters, RunningFrame
<1>5. /\ s \in Cells
      /\ \A a \in 0 .. STACK_SIZE - 1 : a < y => s[a] = stack[a]
      /\ \A a \in 0 .. STACK_SIZE - 1 : a >= y /\ a < y + Len(args) => s[a] = args[a - y + 1]
  BY <1>3, <1>4, WrittenIs
<1>6. pushAll(Machine, args)
        = Mach(s, Moved(context, pc, y + method.args, context.flags))
  <2>1. context \in Registers
    BY <1>4, ContextIsRegisters
  <2>2. Machine = Mach(stack, context)
    BY DEF Machine, Mach
  <2>3. pushAll(Mach(stack, context), args)
          = Mach(s, Moved(context, pc, y + Len(args), context.flags))
    BY <2>1, OperatorsMove
  <2>4. QED
    BY <2>2, <2>3, <1>3
<1> HIDE DEF s
<1>7. CallsUp(pc, y, s, method, TRUE)
  <2>1. pc \in Body /\ pc - 1 \in Body
    BY <1>1, <1>4, MethodOfAddress DEF InC, Body, BodyOf
  <2>2. \A a \in Nat : a < y /\ a < STACK_SIZE => s[a] = stack[a]
    BY <1>5
  <2>3. QED
    BY <2>1, <2>2, <1>1, <1>4, <1>5, <1>6 DEF CallsUp
<1>8. /\ IInv' /\ (context'.flags = 1 <=> context.flags = 1)
      /\ calls' = OneMore(calls, Len(calls),
                       Replaced(CallStack!Top, pc, CallStack!Top.locals,
                                WordsIn(stack, context.contextPointer, y)),
                       CallStack!NewCall(method, WordsIn(s, y, y + method.args), TRUE))
      /\ IsSeq(calls, Len(calls)) /\ Len(calls) > 0
      /\ y + method.locals + 5 <= STACK_SIZE
  BY <1>1, <1>7, Enters
<1>9. WordsIn(s, y, y + method.args) = args
  <2> DEFINE k == method.args
             w == WordsIn(s, y, y + k)
  <2>1. ASSUME NEW i \in 1 .. k PROVE w[i] = args[i]
    <3> DEFINE a == y + i - 1
    <3>1. a \in 0 .. STACK_SIZE - 1 /\ a >= y /\ a < y + Len(args) /\ a - y + 1 = i
      <4>1. i \in Nat /\ i >= 1 /\ i <= Len(args) /\ y \in Nat
        BY <1>2, <1>3, <1>4
      <4>2. i <= method.locals /\ y + method.locals + 5 <= STACK_SIZE /\ method.locals \in Nat
        BY <1>2, <1>3, <1>8, <4>1
      <4> HIDE DEF y
      <4>3. QED
        BY <4>1, <4>2, FramesAssumption
    <3>2. w[i] = s[a]
      <4> DEFINE to == y + k
      <4>1. to \in Nat /\ y <= to /\ to - y = k /\ y \in Nat
        BY <1>2, <1>4
      <4> HIDE DEF to, k, y, a
      <4>2. \A j \in 1 .. to - y : WordsIn(s, y, to)[j] = s[y + j - 1]
        BY <4>1, WordsInIs
      <4>3. WordsIn(s, y, to)[i] = s[y + i - 1]
        BY <4>1, <4>2
      <4>4. QED
        BY <4>3 DEF to, a
    <3> HIDE DEF a, w, k, y
    <3>3. s[a] = args[i]
      BY <3>1, <1>5
    <3>4. QED
      BY <3>2, <3>3
  <2>2. IsSeq(w, k)
    <3> DEFINE to == y + k
    <3>1. to \in Nat /\ y <= to /\ to - y = k /\ y \in Nat
      BY <1>2, <1>4
    <3> HIDE DEF to, k, y
    <3>2. IsSeq(WordsIn(s, y, to), to - y)
      BY <3>1, WordsInIs
    <3>3. QED
      BY <3>1, <3>2 DEF to
  <2>3. IsSeq(args, k)
    BY <1>2 DEF IsSeq
  <2> HIDE DEF w, k
  <2>4. w = args
    BY <2>1, <2>2, <2>3, SameSeq
  <2>5. QED
    BY <2>4 DEF w, k
<1>10. /\ Replaced(CallStack!Top, pc, CallStack!Top.locals,
                   WordsIn(stack, context.contextPointer, y)) = CallStack!Top
       /\ CallStack!Top = calls[Len(calls)]
  <2>1. CallStack!Top = calls[Len(calls)]
    BY SameProgram DEF CallStack!Top, Last
  <2>2. Replaced(Call(stack, context), pc, Call(stack, context).locals,
                 WordsIn(stack, context.contextPointer, y)) = Call(stack, context)
    BY DEF Replaced, Call
  <2>3. QED
    BY <2>1, <2>2, <1>4
<1> DEFINE new == CallStack!NewCall(method, args, TRUE)
<1>11. calls' = OneMore(calls, Len(calls), calls[Len(calls)], new)
  BY <1>8, <1>9, <1>10
<1> HIDE DEF new
<1>12. calls' = Append(calls, new)
  <2> DEFINE n == Len(calls)
  <2>1. IsSeq(calls, n) /\ n > 0
    BY <1>8
  <2> HIDE DEF n
  <2>2. /\ Front(calls) \o <<new, new>> = OneMore(calls, n, new, new)
        /\ Append(calls, new) = OneMore(calls, n, calls[n], new)
    BY <2>1, OneMoreIs
  <2>3. QED
    BY <1>11, <2>2 DEF n
<1>13. CallStack!Running /\ CallStack!InC
  BY <1>1, RunningFrame, SameGuards
<1>14. (context'.flags = 1) = (context.flags = 1)
  BY <1>8
<1>15. IInv'
  BY <1>8
<1>16. QED
  BY <1>12, <1>13, <1>14, <1>15, Zenon DEF CallStack!CallFromC, new

-----------------------------------------------------------------------------
(* Ends of calls                                                           *)

\* The loop of execute() has seen the flag: no call changes.
LEMMA ReturnFromVMSteps ==
  ASSUME IInv, ReturnFromVM
  PROVE  IInv' /\ CallStack!ReturnFromVM
<1>1. PICK n \in Nat, fr \in UNION {[0 .. k -> Context] : k \in Nat} : FramesAre(n, fr)
  BY DEF IInv
<1>2. /\ Layout(stack, n, fr) /\ context = fr[n] /\ n \in 0 .. n /\ stack \in Cells
      /\ \A i \in 0 .. n : fr[i] \in Context
      /\ \A i \in 1 .. n : Placed(fr[i])
  BY <1>1, FrameFacts DEF FramesAre
<1> DEFINE pc == context.programCounter
           sp == context.stackPointer
           gr == Top(fr, n, pc, sp, 0)
<1>3. pc \in Nat /\ sp \in 0 .. STACK_SIZE
  BY <1>2 DEF Context
<1>4. n > 0 => pc \in BodyOf(fr[n].programCounter) /\ fr[n].contextPointer <= sp
  <2> SUFFICES ASSUME n > 0
               PROVE  pc \in BodyOf(fr[n].programCounter) /\ fr[n].contextPointer <= sp
    OBVIOUS
  <2>1. Placed(fr[n])
    BY <1>2
  <2>2. QED
    BY <2>1, <1>2, MethodOfAddress DEF Placed
<1>5. Layout(stack, n, gr)
  <2>1. Agree(stack, stack, fr[n])
    BY DEF Agree
  <2> HIDE DEF pc, sp
  <2>2. QED
    BY <2>1, <1>2, <1>3, <1>4, Unwind
<1>6. context' = gr[n]
  <2>1. \A c \in Context : [c EXCEPT !.flags = 0]
                           = Moved(c, c.programCounter, c.stackPointer, 0)
    <3> SUFFICES ASSUME NEW c \in Context
                 PROVE  [c EXCEPT !.flags = 0] = Moved(c, c.programCounter, c.stackPointer, 0)
      OBVIOUS
    <3> DEFINE u == [c EXCEPT !.flags = 0]
    <3>1. c \in Registers
      BY ContextIsRegisters
    <3>2. /\ u.programCounter = c.programCounter /\ u.classIndex = c.classIndex
          /\ u.stackPointer = c.stackPointer /\ u.framePointer = c.framePointer
          /\ u.contextPointer = c.contextPointer /\ u.flags = 0
      BY <3>1 DEF Registers
    <3>3. u = [programCounter |-> u.programCounter, classIndex |-> u.classIndex,
               stackPointer |-> u.stackPointer, framePointer |-> u.framePointer,
               contextPointer |-> u.contextPointer, flags |-> u.flags]
      BY <3>1 DEF Registers
    <3> HIDE DEF u
    <3>4. QED
      BY <3>2, <3>3 DEF Moved, u
  <2>2. context' = Moved(context, pc, sp, 0)
    BY <2>1, <1>2 DEF ReturnFromVM
  <2>3. gr[n] = Moved(fr[n], pc, sp, 0)
    BY DEF Top
  <2>4. QED
    BY <2>2, <2>3, <1>2
<1>7. stack' = stack
  BY DEF ReturnFromVM
<1>8. \A i \in 1 .. n : Call(stack, gr[i]) = Call(stack, fr[i])
  <2> SUFFICES ASSUME NEW i \in 1 .. n PROVE Call(stack, gr[i]) = Call(stack, fr[i])
    OBVIOUS
  <2>1. CASE i = n
    <3>1. gr[i] = Moved(fr[i], fr[i].programCounter, fr[i].stackPointer, 0)
      BY <2>1, <1>2 DEF Top
    <3>2. QED
      BY <3>1 DEF Call, Moved
  <2>2. CASE i # n
    BY <2>2 DEF Top
  <2>3. QED
    BY <2>1, <2>2
<1>9. IInv' /\ calls' = [i \in 1 .. n |-> Call(stack', gr[i])]
  <2> HIDE DEF gr
  <2>1. \A hr : Layout(stack', n, hr) /\ context' = hr[n] =>
          IInv' /\ calls' = [i \in 1 .. n |-> Call(stack', hr[i])]
    BY InvHolds
  <2>2. QED
    BY <2>1, <1>5, <1>6, <1>7
<1>10. calls = [i \in 1 .. n |-> Call(stack, fr[i])]
  BY <1>2, CallsAreFrames DEF calls
<1>11. calls' = calls
  <2> HIDE DEF gr
  <2>1. QED
    BY <1>7, <1>8, <1>9, <1>10
<1>12. context.flags = 1 /\ (context'.flags = 1) = FALSE
  BY <1>2 DEF ReturnFromVM, Context
<1>13. IInv'
  BY <1>9
<1>14. QED
  BY <1>11, <1>12, <1>13, Zenon DEF CallStack!ReturnFromVM

\* All but the last of the calls.
FrontOf(u, cs, n) ==
  /\ IsSeq(u, n - 1) /\ \A i \in 1 .. n - 1 : u[i] = cs[i]
  /\ u = <<>> <=> n = 1

\* Front of the calls.
LEMMA FrontIs ==
  ASSUME NEW cs, NEW n, IsSeq(cs, n), n > 0
  PROVE  FrontOf(Front(cs), cs, n)
<1>1. Len(cs) = n /\ n \in Nat
  BY SeqFacts DEF IsSeq
<1>2. Front(cs) = SubSeq(cs, 1, n - 1)
  BY <1>1 DEF Front
<1> DEFINE u == Front(cs)
           m == n - 1
<1>3. m \in Nat /\ m = n - 1
  BY <1>1
<1> HIDE DEF m
<1>4. IsSeq(u, m) /\ \A i \in 1 .. m : u[i] = cs[i]
  <2>1. m \in Int /\ 1 <= m + 1 /\ m - 1 + 1 = m /\ \A i \in 1 .. m : 1 + i - 1 = i
    BY <1>3
  <2>2. IsSeq(SubSeq(cs, 1, m), m) /\ \A i \in 1 .. m : SubSeq(cs, 1, m)[i] = cs[i]
    BY <2>1, SubSeqIs
  <2>3. u = SubSeq(cs, 1, m)
    BY <1>2 DEF m
  <2> HIDE DEF u
  <2>4. QED
    BY <2>2, <2>3
<1> HIDE DEF u
<1>5. u = <<>> <=> n = 1
  <2>1. Len(u) = m
    BY <1>4, SeqFacts
  <2>2. m = 0 => u = <<>>
    BY <1>4, SeqFacts, EmptySeq
  <2>3. u = <<>> => m = 0
    BY <2>1
  <2>4. QED
    BY <1>1, <1>3, <2>2, <2>3
<1>6. QED
  BY <1>3, <1>4, <1>5 DEF FrontOf, u

\* The caller's frame, as it was left, with the results on its operands.
CallerAt(fr, n) == fr[n - 1]

\* What a return leaves: the caller's words and the results above them.
LEMMA ReturnIs ==
  ASSUME IInv, NEW n, NEW fr, FramesAre(n, fr), NEW k \in 0 .. 2, Return(k)
  PROVE  LET up == CallerAt(fr, n)
             s == Written(stack, up.stackPointer, top(Machine, k))
         IN /\ Become(Mach(s, Moved(up, up.programCounter, up.stackPointer + k, up.flags)))
            /\ n \in Nat /\ n > 0 /\ up \in Context /\ up = fr[n - 1]
            /\ up.contextPointer <= up.stackPointer
            /\ s \in Cells /\ stack \in Cells /\ top(Machine, k) \in Seq(Cell)
            /\ IsSeq(top(Machine, k), k) /\ Len(top(Machine, k)) = k
            /\ up.stackPointer + k <= STACK_SIZE
            /\ up.flags = stack[context.contextPointer - 1]
            /\ Agree(stack, s, up)
<1> DEFINE up == CallerAt(fr, n)
           words == top(Machine, k)
           s == Written(stack, up.stackPointer, words)
           m == popped(fetch(Machine), k)
<1>1. /\ Running /\ k <= operands(Machine) /\ k \in Nat
      /\ Become(pushAll(pop_frame(m), words))
  BY DEF Return
<1>2. /\ n \in Nat /\ n > 0 /\ context = fr[n] /\ n \in 1 .. n /\ n - 1 \in 0 .. n
      /\ Layout(stack, n, fr)
  BY <1>1, RunningIsTop DEF FramesAre
<1>3. /\ stack \in Cells /\ context \in Context /\ up \in Context
      /\ Saved(stack, context, up) /\ up = fr[n - 1]
      /\ fr[0].contextPointer = 0
      /\ \A i \in 1 .. n : Placed(fr[i])
  BY <1>2, FrameFacts DEF CallerAt
<1>4. m = Mach(stack, Moved(context, context.programCounter + 1,
                            context.stackPointer - k, context.flags))
  BY <1>1, FetchedAndPopped
<1> HIDE DEF up, m, words
<1>5. InFrame(m, stack, context)
  BY <1>4 DEF InFrame, Mach, Moved
<1>6. pop_frame(m) = Mach(stack, up)
  BY <1>3, <1>5, PopFrame DEF Mach
<1>7. words \in Seq(Cell) /\ IsSeq(words, k) /\ Len(words) = k
  <2>1. words = CallStack!Taken(k)
    BY <1>1, OperandsAre DEF words
  <2>2. words \in Seq(Cell) /\ IsSeq(words, k)
    BY <1>1, <2>1, TakenAreCells
  <2>3. QED
    BY <2>2, SeqFacts
<1>8. /\ up.stackPointer \in Nat /\ up.contextPointer \in Nat
      /\ up.contextPointer <= up.stackPointer
  <2>1. up.stackPointer \in Nat /\ up.contextPointer \in Nat
    BY <1>3 DEF Context
  <2>2. CASE n = 1
    BY <2>1, <2>2, <1>3
  <2>3. CASE n # 1
    <3>1. n - 1 \in 1 .. n
      BY <1>2, <2>3
    <3>2. Placed(up)
      BY <3>1, <1>3
    <3>3. QED
      BY <2>1, <3>2 DEF Placed
  <2>4. QED
    BY <2>2, <2>3
<1>9. Become(Mach(s, Moved(up, up.programCounter, up.stackPointer + k, up.flags)))
  <2>1. up \in Registers
    BY <1>3, ContextIsRegisters
  <2>2. pushAll(Mach(stack, up), words)
          = Mach(s, Moved(up, up.programCounter, up.stackPointer + Len(words), up.flags))
    BY <2>1, OperatorsMove
  <2>3. QED
    BY <2>2, <1>1, <1>6, <1>7
<1>10. /\ s \in Cells
       /\ \A a \in 0 .. STACK_SIZE - 1 : a < up.stackPointer => s[a] = stack[a]
  BY <1>3, <1>7, <1>8, WrittenIs
<1> HIDE DEF s
<1>11. up.stackPointer + k <= STACK_SIZE
  <2> DEFINE c == Moved(up, up.programCounter, up.stackPointer + k, up.flags)
  <2>1. c.stackPointer = up.stackPointer + k
    BY DEF Moved
  <2> HIDE DEF c
  <2>2. Become(Mach(s, c))
    BY <1>9 DEF c
  <2>3. QED
    BY <1>3, <2>1, <2>2, BecomeIs
<1>12. Agree(stack, s, up)
  <2>1. STACK_SIZE \in Nat /\ up.stackPointer <= STACK_SIZE
    BY <1>8, <1>11, FramesAssumption
  <2>2. \A a \in 0 .. up.contextPointer - 1 : s[a] = stack[a]
    BY <1>8, <1>10, <2>1
  <2>3. QED
    BY <2>2 DEF Agree
<1>13. up.flags = stack[context.contextPointer - 1]
  BY <1>3 DEF Saved
<1>14. QED
  BY <1>2, <1>3, <1>7, <1>8, <1>9, <1>10, <1>11, <1>12, <1>13 DEF s, words, up

\* The outermost call has ended: there is none.
LEMMA NoCallLeft ==
  ASSUME NEW s, NEW n, NEW fr, Layout(s, n, fr), stack' \in Cells,
         NEW pc \in Nat, NEW sp \in 0 .. STACK_SIZE, NEW flags \in 0 .. 1,
         context' = Moved(fr[0], pc, sp, flags)
  PROVE  IInv' /\ calls' = <<>>
<1> DEFINE gr == Top(fr, 0, pc, sp, flags)
<1>1. n \in Nat /\ 0 \in 0 .. n /\ fr[0].contextPointer = 0
  BY FrameFacts
<1>2. Layout(stack', 0, gr)
  <2> DEFINE t == stack'
  <2>1. t \in Cells /\ Agree(s, t, fr[0])
    BY <1>1 DEF Agree
  <2> HIDE DEF t
  <2>2. Layout(t, 0, gr)
    BY <1>1, <2>1, Unwind
  <2>3. QED
    BY <2>2 DEF t
<1>3. context' = gr[0]
  BY DEF Top
<1>4. IInv' /\ calls' = [i \in 1 .. 0 |-> Call(stack', gr[i])]
  <2> HIDE DEF gr
  <2>1. \A hr : Layout(stack', 0, hr) /\ context' = hr[0] =>
          IInv' /\ calls' = [i \in 1 .. 0 |-> Call(stack', hr[i])]
    BY InvHolds
  <2>2. QED
    BY <2>1, <1>2, <1>3
<1>5. calls' = <<>>
  <2> DEFINE u == calls'
  <2>1. IsSeq(u, 0)
    BY <1>4 DEF IsSeq
  <2> HIDE DEF u
  <2>2. u = <<>>
    BY <2>1, SeqFacts, EmptySeq
  <2>3. QED
    BY <2>2 DEF u
<1>6. QED
  BY <1>4, <1>5

\* A call that is given results.
Given(call, words) == [call EXCEPT !.operands = @ \o words]

\* The caller's operands are extended by the results.
LEMMA GivenIs ==
  ASSUME NEW s, NEW c, NEW words
  PROVE  Given(Call(s, c), words)
           = Replaced(Call(s, c), c.programCounter,
                      WordsIn(s, c.framePointer, c.contextPointer - 5),
                      WordsIn(s, c.contextPointer, c.stackPointer) \o words)
<1> DEFINE t == Call(s, c)
           new == t.operands \o words
           u == [t EXCEPT !.operands = new]
<1>1. /\ t = [class |-> t.class, pc |-> t.pc, returnFromVM |-> t.returnFromVM,
              locals |-> t.locals, operands |-> t.operands]
      /\ t.pc = c.programCounter
      /\ t.locals = WordsIn(s, c.framePointer, c.contextPointer - 5)
      /\ t.operands = WordsIn(s, c.contextPointer, c.stackPointer)
  BY DEF Call
<1> HIDE DEF t, new
<1>2. u = [class |-> t.class, pc |-> t.pc, returnFromVM |-> t.returnFromVM,
           locals |-> t.locals, operands |-> new]
  BY <1>1
<1>3. u = Replaced(t, t.pc, t.locals, new)
  BY <1>2 DEF Replaced
<1>4. Given(t, words) = u
  BY DEF Given, new
<1>5. QED
  BY <1>1, <1>3, <1>4 DEF t, new

\* Returning to a caller, which goes on as it was, with the results.
LEMMA ReturnToCaller ==
  ASSUME IInv, NEW n, NEW fr, FramesAre(n, fr), NEW k \in 0 .. 2, Return(k), n # 1
  PROVE  /\ IInv'
         /\ calls' = GoneOn(calls, n - 1, Given(calls[n - 1], top(Machine, k)))
         /\ context'.flags = stack[context.contextPointer - 1]
<1> DEFINE up == CallerAt(fr, n)
           words == top(Machine, k)
           s == Written(stack, up.stackPointer, words)
           j == n - 1
<1>1. /\ Become(Mach(s, Moved(up, up.programCounter, up.stackPointer + k, up.flags)))
      /\ n \in Nat /\ n > 0 /\ up \in Context /\ up = fr[n - 1]
      /\ up.contextPointer <= up.stackPointer
      /\ s \in Cells /\ stack \in Cells /\ words \in Seq(Cell)
      /\ IsSeq(words, k) /\ Len(words) = k
      /\ up.stackPointer + k <= STACK_SIZE
      /\ up.flags = stack[context.contextPointer - 1]
      /\ Agree(stack, s, up)
  BY ReturnIs
<1> DEFINE sp == up.stackPointer
           fp == up.framePointer
           cp == up.contextPointer
           pc == up.programCounter
<1>2. j \in 1 .. n /\ up = fr[j]
  BY <1>1
<1>3. Placed(up) /\ Layout(stack, n, fr)
  BY <1>2, FrameFacts DEF FramesAre
<1>4. /\ sp \in Nat /\ fp \in Nat /\ cp \in Nat /\ cp - 5 \in Nat /\ fp <= cp - 5
      /\ cp <= sp /\ up.flags \in 0 .. 1 /\ pc \in BodyOf(pc) /\ sp + k \in Nat /\ cp <= sp + k
  <2>1. fp \in Nat /\ cp \in Nat /\ sp \in Nat /\ fp + 5 <= cp /\ cp <= sp
    BY <1>1, <1>3, FrameBounds
  <2>2. up.flags \in 0 .. 1
    BY <1>1 DEF Context
  <2>3. pc \in BodyOf(pc)
    BY <1>3, MethodOfAddress DEF Placed
  <2>4. QED
    BY <2>1, <2>2, <2>3
<1> HIDE DEF up, words, s, j
<1>5. Resumes(fr, j, pc, sp + k, up.flags, s)
  BY <1>1, <1>2, <1>4 DEF Resumes
<1>6. /\ IInv' /\ context'.flags = up.flags
      /\ calls' = GoneOn(calls, j, Replaced(calls[j], pc, WordsIn(s, fp, cp - 5),
                                            WordsIn(s, cp, sp + k)))
  <2>1. \A p, q, f : Resumes(fr, j, p, q, f, s) =>
         /\ IInv'
         /\ calls' = GoneOn(calls, j,
                        Replaced(calls[j], p,
                                 WordsIn(s, fr[j].framePointer, fr[j].contextPointer - 5),
                                 WordsIn(s, fr[j].contextPointer, q)))
         /\ context'.flags = f
    BY <1>2, Resume
  <2>2. QED
    BY <2>1, <1>2, <1>5
<1>7. /\ WordsIn(s, fp, cp - 5) = WordsIn(stack, fp, cp - 5)
      /\ WordsIn(s, cp, sp + k) = WordsIn(stack, cp, sp) \o words
  <2>1. sp + Len(words) <= STACK_SIZE
    BY <1>1
  <2> HIDE DEF sp, fp, cp
  <2>0. s = Written(stack, sp, words)
    BY DEF s, sp
  <2>2. /\ \A from, to \in Nat : from <= to /\ to <= sp =>
              WordsIn(s, from, to) = WordsIn(stack, from, to)
        /\ \A from \in Nat : from <= sp =>
              WordsIn(s, from, sp + Len(words)) = WordsIn(stack, from, sp) \o words
    <3>1. stack \in Cells /\ words \in Seq(Cell) /\ sp \in Nat
      BY <1>1, <1>4
    <3>2. /\ Written(stack, sp, words) \in Cells
          /\ \A a \in Nat : a < sp => Written(stack, sp, words)[a] = stack[a]
          /\ \A from, to \in Nat : from <= to /\ to <= sp =>
               WordsIn(Written(stack, sp, words), from, to) = WordsIn(stack, from, to)
          /\ \A from \in Nat : from <= sp =>
               WordsIn(Written(stack, sp, words), from, sp + Len(words))
                 = WordsIn(stack, from, sp) \o words
      BY <3>1, <2>1, WordsPushed
    <3>3. QED
      BY <2>0, <3>2
  <2> DEFINE to == cp - 5
  <2>3. to \in Nat /\ fp <= to /\ to <= sp
    BY <1>4
  <2>4. WordsIn(s, fp, to) = WordsIn(stack, fp, to)
    <3> HIDE DEF to
    <3>1. QED
      BY <2>2, <2>3, <1>4
  <2>5. WordsIn(s, cp, sp + Len(words)) = WordsIn(stack, cp, sp) \o words
    BY <2>2, <1>4
  <2>6. QED
    BY <2>4, <2>5, <1>1
<1>8. calls[j] = Call(stack, up)
  <2>1. calls = [i \in 1 .. n |-> Call(stack, fr[i])]
    BY <1>3, CallsAreFrames DEF calls, FramesAre
  <2>2. QED
    BY <2>1, <1>2
<1>9. Replaced(calls[j], pc, WordsIn(s, fp, cp - 5), WordsIn(s, cp, sp + k))
        = Given(calls[j], words)
  BY <1>7, <1>8, GivenIs
<1>10. QED
  BY <1>1, <1>6, <1>9 DEF j, words

\* The return instructions, from the start method too.
LEMMA ReturnSteps ==
  ASSUME IInv, NEW k \in 0 .. 2, Return(k)
  PROVE  IInv' /\ CallStack!Return(k)
<1>1. PICK n \in Nat, fr \in UNION {[0 .. i -> Context] : i \in Nat} : FramesAre(n, fr)
  BY DEF IInv
<1> DEFINE words == top(Machine, k)
           F == Front(calls)
<1>2. /\ Running /\ k <= operands(Machine) /\ CallStack!Running
      /\ words = CallStack!Taken(k) /\ k <= CallStack!Count
      /\ CallStack!Top = Call(stack, context)
      /\ context.flags = 0
  <2>1. Running /\ k <= operands(Machine) /\ k \in Nat
    BY DEF Return
  <2>2. QED
    BY <2>1, RunningFrame, OperandsAre
<1>3. n \in Nat /\ n > 0 /\ IsSeq(calls, n)
  BY <1>1, <1>2, RunningIsTop
<1>4. FrontOf(F, calls, n)
  BY <1>3, FrontIs
<1>5. CASE n = 1
  <2> DEFINE up == CallerAt(fr, n)
             s == Written(stack, up.stackPointer, words)
             sp == up.stackPointer + k
  <2>1. /\ Become(Mach(s, Moved(up, up.programCounter, sp, up.flags)))
        /\ up \in Context /\ up = fr[n - 1]
        /\ s \in Cells /\ stack \in Cells /\ sp <= STACK_SIZE
        /\ up.flags = stack[context.contextPointer - 1]
    BY <1>1, ReturnIs
  <2>2. Layout(stack, n, fr) /\ up = fr[0]
    BY <1>1, <1>5, <2>1 DEF FramesAre
  <2>3. /\ up.programCounter \in Nat /\ sp \in 0 .. STACK_SIZE /\ up.flags \in 0 .. 1
    <3>1. /\ up.programCounter \in Nat /\ up.flags \in 0 .. 1
          /\ up.stackPointer \in 0 .. STACK_SIZE
      BY <2>1 DEF Context
    <3> HIDE DEF up
    <3>2. sp \in Nat /\ sp <= STACK_SIZE
      BY <2>1, <3>1
    <3> HIDE DEF sp
    <3>3. QED
      BY <3>1, <3>2
  <2> HIDE DEF up, s, sp, words
  <2>4. /\ context' = Moved(up, up.programCounter, sp, up.flags)
        /\ stack' = [a \in 0 .. STACK_SIZE - 1 |->
                       IF a < Moved(up, up.programCounter, sp, up.flags).stackPointer
                       THEN s[a] ELSE Stale]
    BY <2>1, BecomeIs
  <2>5. stack' \in Cells
    BY <2>1, <2>4 DEF Cells, Cell
  <2>6. IInv' /\ calls' = <<>>
    BY <2>2, <2>3, <2>4, <2>5, NoCallLeft
  <2>7. context'.flags = stack[context.contextPointer - 1]
    BY <2>1, <2>4 DEF Moved
  <2>8. F = <<>>
    BY <1>4, <1>5 DEF FrontOf
  <2>9. (context'.flags = 1) = CallStack!Top.returnFromVM
    BY <2>7, <1>2 DEF Call
  <2>10. CallStack!Front(calls) = <<>>
    BY <2>8, SameProgram
  <2>11. CallStack!Return(k)
    BY <2>6, <2>9, <2>10, <1>2, Zenon DEF CallStack!Return
  <2>12. QED
    BY <2>6, <2>11
<1>6. CASE n # 1
  <2> DEFINE j == n - 1
             call == Given(calls[j], words)
  <2>1. /\ IInv' /\ calls' = GoneOn(calls, j, call)
        /\ context'.flags = stack[context.contextPointer - 1]
    BY <1>1, <1>6, ReturnToCaller
  <2>2. IsSeq(F, j) /\ j > 0 /\ F # <<>> /\ \A i \in 1 .. j : F[i] = calls[i]
    BY <1>3, <1>4, <1>6 DEF FrontOf
  <2> HIDE DEF F, words, j
  <2>3. j \in Nat /\ Last(F) = F[j] /\ F[j] = calls[j]
    BY <2>2, SeqFacts DEF IsSeq
  <2>4. Given(Last(F), words) = call
    BY <2>3
  <2>5. GoneOn(F, j, call) = GoneOn(calls, j, call)
    <3> HIDE DEF call
    <3>1. QED
      BY <2>2 DEF GoneOn
  <2>6. Append(Front(F), call) = GoneOn(F, j, call)
    <3> HIDE DEF call
    <3>1. QED
      BY <2>2, LastGoesOn
  <2>7. calls' = Append(Front(F), Given(Last(F), words))
    BY <2>1, <2>4, <2>5, <2>6
  <2>8. calls' = Append(CallStack!Front(CallStack!Front(calls)),
             [CallStack!Last(CallStack!Front(calls)) EXCEPT
                !.operands = @ \o CallStack!Taken(k)])
    BY <2>7, <1>2, SameProgram DEF F, words, Given
  <2>9. (context'.flags = 1) = CallStack!Top.returnFromVM
    BY <2>1, <1>2 DEF Call
  <2>10. CallStack!Front(calls) # <<>>
    BY <2>2, SameProgram DEF F
  <2>11. CallStack!Return(k)
    BY <2>8, <2>9, <2>10, <1>2, Zenon DEF CallStack!Return
  <2>12. QED
    BY <2>1, <2>11
<1>7. QED
  BY <1>5, <1>6

-----------------------------------------------------------------------------
(* Exceptions                                                              *)

\* The calls with a handler for e, when the program counters are pcs.
HandlingIn(pcs, e) == {i \in DOMAIN calls : Hits(calls[i].class, pcs[i], e) # {}}

\* The calls end down to the h-th, which handles e above the operands ops.
Handled(e, pcs, h, ops) ==
  /\ CallStack!Running /\ HandlingIn(pcs, e) # {}
  /\ h = Max(HandlingIn(pcs, e))
  /\ calls' = Append(SubSeq(calls, 1, h - 1),
                [calls[h] EXCEPT !.pc = HandlerPC(calls[h].class, pcs[h], e),
                                 !.operands = Append(ops, e)])
  /\ (context'.flags = 1) = (h < Len(calls) /\ calls[h + 1].returnFromVM)

\* From what Handled says to the action; likewise for athrow below.
LEMMA ThrowFromCIs ==
  ASSUME NEW e, NEW h, CallStack!InC,
         Handled(e, [i \in DOMAIN calls |-> calls[i].pc], h, calls[h].operands),
         h \in DOMAIN calls
  PROVE  CallStack!ThrowFromC(e)
<1> DEFINE pcs == [i \in DOMAIN calls |-> calls[i].pc]
           H == {i \in DOMAIN calls : CallStack!Hits(calls[i].class, calls[i].pc, e) # {}}
           M == CallStack!Max(H)
<1>1. H = HandlingIn(pcs, e)
  BY SameProgram DEF HandlingIn
<1>2. M = h /\ H # {} /\ CallStack!Running
  BY <1>1, SameProgram DEF Handled
<1>3. HandlerPC(calls[h].class, pcs[h], e) = CallStack!HandlerPC(calls[h].class, calls[h].pc, e)
  BY SameProgram
<1>4. calls' = Append(SubSeq(calls, 1, h - 1),
                 [calls[h] EXCEPT !.pc = HandlerPC(calls[h].class, pcs[h], e),
                                  !.operands = Append(calls[h].operands, e)])
  BY DEF Handled
<1>5. calls' = Append(SubSeq(calls, 1, h - 1),
                 [calls[h] EXCEPT
                    !.pc = CallStack!HandlerPC(calls[h].class, calls[h].pc, e),
                    !.operands = Append(calls[h].operands, e)])
  <2> DEFINE q == HandlerPC(calls[h].class, pcs[h], e)
  <2>1. q = CallStack!HandlerPC(calls[h].class, calls[h].pc, e)
    BY <1>3
  <2>2. calls' = Append(SubSeq(calls, 1, h - 1),
                   [calls[h] EXCEPT !.pc = q, !.operands = Append(calls[h].operands, e)])
    BY <1>4
  <2> HIDE DEF q
  <2>3. QED
    BY <2>1, <2>2
<1>6. (context'.flags = 1) = (h < Len(calls) /\ calls[h + 1].returnFromVM)
  BY DEF Handled
<1> HIDE DEF M
<1>7. calls' = Append(SubSeq(calls, 1, M - 1),
                 [calls[M] EXCEPT
                    !.pc = CallStack!HandlerPC(calls[M].class, calls[M].pc, e),
                    !.operands = Append(calls[M].operands, e)])
  BY <1>2, <1>5
<1>8. (context'.flags = 1) = (M < Len(calls) /\ calls[M + 1].returnFromVM)
  BY <1>2, <1>6
<1>9. QED
  BY <1>2, <1>7, <1>8, Zenon DEF CallStack!ThrowFromC, CallStack!Throw, M

\* athrow has been fetched, and pops the exception.
LEMMA AthrowIs ==
  ASSUME NEW e, NEW h, h \in DOMAIN calls,
         CallStack!Count > 0 /\ Last(CallStack!Top.operands) = e,
         Handled(e, [i \in DOMAIN calls |->
                       IF i = Len(calls) THEN CallStack!Top.pc + 1 ELSE calls[i].pc],
                 h, IF h = Len(calls) THEN CallStack!Below(1) ELSE calls[h].operands)
  PROVE  CallStack!athrow(e)
<1> DEFINE pc(i) == IF i = Len(calls) THEN CallStack!Top.pc + 1 ELSE calls[i].pc
           ops(i) == IF i = Len(calls) THEN CallStack!Below(1) ELSE calls[i].operands
           pcs == [i \in DOMAIN calls |-> pc(i)]
           H == {i \in DOMAIN calls : CallStack!Hits(calls[i].class, pc(i), e) # {}}
           M == CallStack!Max(H)
<1>1. H = HandlingIn(pcs, e)
  <2> HIDE DEF pc
  <2>1. QED
    BY SameProgram DEF HandlingIn
<1>2. M = h /\ H # {} /\ CallStack!Running
  BY <1>1, SameProgram DEF Handled
<1>3. HandlerPC(calls[h].class, pcs[h], e) = CallStack!HandlerPC(calls[h].class, pc(h), e)
  <2> HIDE DEF pc
  <2>1. QED
    BY SameProgram
<1>4. calls' = Append(SubSeq(calls, 1, h - 1),
                 [calls[h] EXCEPT !.pc = HandlerPC(calls[h].class, pcs[h], e),
                                  !.operands = Append(ops(h), e)])
  BY DEF Handled
<1>5. calls' = Append(SubSeq(calls, 1, h - 1),
                 [calls[h] EXCEPT
                    !.pc = CallStack!HandlerPC(calls[h].class, pc(h), e),
                    !.operands = Append(ops(h), e)])
  <2> DEFINE q == HandlerPC(calls[h].class, pcs[h], e)
  <2>1. q = CallStack!HandlerPC(calls[h].class, pc(h), e)
    BY <1>3
  <2>2. calls' = Append(SubSeq(calls, 1, h - 1),
                   [calls[h] EXCEPT !.pc = q, !.operands = Append(ops(h), e)])
    BY <1>4
  <2> HIDE DEF q, pc, ops
  <2>3. QED
    BY <2>1, <2>2
<1>6. (context'.flags = 1) = (h < Len(calls) /\ calls[h + 1].returnFromVM)
  BY DEF Handled
<1> HIDE DEF M
<1>7. calls' = Append(SubSeq(calls, 1, M - 1),
                 [calls[M] EXCEPT
                    !.pc = CallStack!HandlerPC(calls[M].class, pc(M), e),
                    !.operands = Append(ops(M), e)])
  <2> HIDE DEF pc, ops
  <2>1. QED
    BY <1>2, <1>5
<1>8. (context'.flags = 1) = (M < Len(calls) /\ calls[M + 1].returnFromVM)
  BY <1>2, <1>6
<1>9. CallStack!Last(CallStack!Top.operands) = e
  BY SameProgram
<1>10. QED
  BY <1>2, <1>7, <1>8, <1>9, Zenon DEF CallStack!athrow, CallStack!Throw, M

\* The least entry that fits lies in the method that threw.
LEMMA HandlerInBody ==
  ASSUME NEW q \in Addresses, NEW pc \in Nat, pc - 1 \in BodyOf(q), NEW e,
         Hits(MethodAt(q).class, pc, e) # {}
  PROVE  HandlerPC(MethodAt(q).class, pc, e) \in BodyOf(q)
<1> DEFINE class == MethodAt(q).class
           T == Hits(class, pc, e)
           h == Min(T)
<1>1. T \subseteq DOMAIN Handlers /\ Handlers \in Seq(HandlerType) /\ T # {}
  BY ProgramAssumption DEF Hits
<1>2. T \in SUBSET Nat
  BY <1>1
<1>3. h \in T
  <2> HIDE DEF T
  <2>1. \E x \in T : \A y \in T : x <= y
    BY <1>1, <1>2, Least
  <2>2. QED
    BY <2>1 DEF Min
<1>4. /\ h \in DOMAIN Handlers /\ Handlers[h].classId = class
      /\ Handlers[h].startPC <= pc - 1 /\ pc - 1 < Handlers[h].endPC
  BY <1>3 DEF Hits
<1> HIDE DEF h, T
<1>5. PICK m \in Method :
        {Handlers[h].startPC, Handlers[h].endPC - 1, Handlers[h].handlerPC} \subseteq m.first .. m.last
  BY <1>4, ProgramAssumption
<1>6. m.first \in Nat /\ m.last \in Nat /\ Handlers[h].endPC \in Nat
  <2>1. m \in MethodType
    BY ProgramAssumption
  <2>2. Handlers[h] \in HandlerType
    BY <1>1, <1>4
  <2>3. m.first \in Nat /\ m.last \in Nat
    BY <2>1 DEF MethodType
  <2>4. Handlers[h].endPC \in Nat
    BY <2>2 DEF HandlerType
  <2>5. QED
    BY <2>3, <2>4
<1>7. pc - 1 \in m.first .. m.last
  BY <1>4, <1>5, <1>6
<1>8. MethodAt(pc - 1) = m
  BY <1>7, MethodOfAddress
<1>9. MethodAt(pc - 1) = MethodAt(q)
  BY SameBody
<1>10. Handlers[h].handlerPC \in BodyOf(q)
  BY <1>5, <1>8, <1>9 DEF BodyOf
<1>11. QED
  BY <1>10 DEF HandlerPC, h, T

\* The frames as throwException finds them: the topmost is at c.
Interrupted(fr, n, c) == [i \in 0 .. n |-> IF i = n THEN c ELSE fr[i]]

\* The walk of throwException meets the frames.
LEMMA FramesWalked ==
  ASSUME NEW n, NEW fr, FramesAre(n, fr), n > 0, NEW c,
         c.contextPointer = context.contextPointer, c.framePointer = context.framePointer
  PROVE  /\ \A k \in 0 .. n - 1 :
              Walk(Mach(stack, c))[k] = Mach(stack, Interrupted(fr, n, c)[n - k])
         /\ \A k \in Nat : k >= n => Walk(Mach(stack, c))[k] = Walk(Mach(stack, c))[n - 1]
<1> DEFINE m == Mach(stack, c)
           W == Walk(m)
           g == Interrupted(fr, n, c)
<1>1. n \in Nat /\ Layout(stack, n, fr) /\ context = fr[n]
  BY FrameFacts DEF FramesAre
<1>2. InFrame(m, stack, fr[n]) /\ m.stack = stack /\ m.context = c
  BY <1>1 DEF InFrame, Mach
<1> HIDE DEF W
<1>3. \A k \in Nat : W[k] = Above(m, n, fr, k)
  BY <1>1, <1>2, WalkAscends DEF W
<1>4. g[n] = c /\ \A i \in 1 .. n - 1 : g[i] = fr[i]
  BY <1>1 DEF Interrupted
<1> HIDE DEF g
<1>5. ASSUME NEW k \in 0 .. n - 1
      PROVE  W[k] = Mach(stack, g[n - k])
  <2>1. k \in Nat /\ k < n
    BY <1>1
  <2>2. CASE k = 0
    <3>1. n - k = n
      BY <2>2, <1>1
    <3>2. W[k] = m
      BY <2>1, <2>2, <1>3 DEF Above
    <3>3. QED
      BY <3>1, <3>2, <1>4
  <2>3. CASE k # 0
    <3>1. n # 1 /\ n - k \in 1 .. n - 1
      BY <2>1, <2>3, <1>1
    <3>2. W[k] = [stack |-> m.stack, context |-> fr[n - k]]
      BY <2>1, <2>3, <3>1, <1>3 DEF Above
    <3>3. QED
      BY <3>1, <3>2, <1>2, <1>4 DEF Mach
  <2>4. QED
    BY <2>2, <2>3
<1>6. ASSUME NEW k \in Nat, k >= n
      PROVE  W[k] = W[n - 1]
  <2>1. CASE n = 1
    BY <2>1, <1>3 DEF Above
  <2>2. CASE n # 1
    <3>1. n - 1 \in Nat /\ n - 1 < n /\ n - 1 # 0 /\ n - (n - 1) = 1 /\ ~ (k < n) /\ k # 0
      BY <2>2, <1>1, <1>6
    <3>2. W[n - 1] = [stack |-> m.stack, context |-> fr[n - (n - 1)]]
      BY <3>1, <2>2, <1>3 DEF Above
    <3>3. W[k] = [stack |-> m.stack, context |-> fr[1]]
      BY <3>1, <2>2, <1>3 DEF Above
    <3>4. QED
      BY <3>1, <3>2, <3>3
  <2>3. QED
    BY <2>1, <2>2
<1>7. QED
  BY <1>5, <1>6 DEF W, g

\* The machine after the exception has found a handler in the frame at d.
Caught(d, e) ==
  [push(Mach(stack, d), e) EXCEPT
     !.context.programCounter = HandlerPC(d.classIndex, d.programCounter, e)]

\* j is the topmost frame that handles e.
Catches(g, n, j, e) ==
  /\ Hits(g[j].classIndex, g[j].programCounter, e) # {}
  /\ \A i \in j + 1 .. n : Hits(g[i].classIndex, g[i].programCounter, e) = {}
  /\ Become(Caught(g[j], e))

\* It stops at the topmost frame that handles e, at the outermost at the latest.
LEMMA ThrowFinds ==
  ASSUME NEW n, NEW fr, FramesAre(n, fr), n > 0, NEW c, NEW e,
         c.contextPointer = context.contextPointer, c.framePointer = context.framePointer,
         throwException(Mach(stack, c), e)
  PROVE  \E j \in 1 .. n : Catches(Interrupted(fr, n, c), n, j, e)
<1> DEFINE W == Walk(Mach(stack, c))
           g == Interrupted(fr, n, c)
           hits(k) == Hits(W[k].context.classIndex, W[k].context.programCounter, e)
<1>1. n \in Nat
  BY FrameFacts DEF FramesAre
<1>2. /\ \A k \in 0 .. n - 1 : W[k] = Mach(stack, g[n - k])
      /\ \A k \in Nat : k >= n => W[k] = W[n - 1]
  BY FramesWalked
<1>3. PICK k \in Depths :
        /\ hits(k) # {}
        /\ \A i \in 0 .. k - 1 : hits(i) = {}
        /\ Become([push(W[k], e) EXCEPT !.context.programCounter =
              HandlerPC(W[k].context.classIndex, W[k].context.programCounter, e)])
  BY DEF throwException, getExceptionHandler
<1> HIDE DEF W, g
<1>4. k \in Nat
  BY DEF Depths
<1>5. k <= n - 1
  <2> SUFFICES ASSUME k >= n PROVE FALSE
    BY <1>1, <1>4
  <2>1. n - 1 \in 0 .. k - 1 /\ W[k] = W[n - 1]
    BY <1>1, <1>2, <1>4
  <2>2. hits(n - 1) = {} /\ hits(k) = hits(n - 1)
    BY <2>1, <1>3
  <2> HIDE DEF hits
  <2>3. QED
    BY <2>2, <1>3
<1> DEFINE j == n - k
<1>6. j \in 1 .. n /\ k \in 0 .. n - 1 /\ n - k = j /\ j \in Nat
  BY <1>1, <1>4, <1>5
<1> HIDE DEF j
<1>7. W[k] = Mach(stack, g[j])
  BY <1>2, <1>6
<1>8. Hits(g[j].classIndex, g[j].programCounter, e) # {}
  BY <1>3, <1>7 DEF Mach
<1>9. ASSUME NEW i \in j + 1 .. n
      PROVE  Hits(g[i].classIndex, g[i].programCounter, e) = {}
  <2> DEFINE l == n - i
  <2>1. l \in 0 .. k - 1 /\ l \in 0 .. n - 1 /\ n - l = i
    BY <1>1, <1>4, <1>6
  <2> HIDE DEF l
  <2>2. W[l] = Mach(stack, g[i])
    BY <2>1, <1>2
  <2>3. W[l].context = g[i]
    BY <2>2 DEF Mach
  <2>4. hits(l) = {}
    BY <2>1, <1>3
  <2>5. QED
    BY <2>3, <2>4
<1>10. Become(Caught(g[j], e))
  <2>1. W[k].context = g[j]
    BY <1>7 DEF Mach
  <2>2. [push(W[k], e) EXCEPT !.context.programCounter =
              HandlerPC(W[k].context.classIndex, W[k].context.programCounter, e)]
          = Caught(g[j], e)
    BY <2>1, <1>7 DEF Caught
  <2>3. QED
    BY <2>2, <1>3
<1>11. QED
  BY <1>6, <1>8, <1>9, <1>10 DEF Catches, g

\* The exception is one more word on the operands of the frame at d.
LEMMA CaughtIs ==
  ASSUME NEW s \in Cells, NEW d \in Registers, NEW e, NEW q
  PROVE  [push(Mach(s, d), e) EXCEPT !.context.programCounter = q]
           = Mach([s EXCEPT ![d.stackPointer] = e], Moved(d, q, d.stackPointer + 1, d.flags))
<1> DEFINE t == [s EXCEPT ![d.stackPointer] = e]
           v == [d EXCEPT !.stackPointer = d.stackPointer + 1]
           u == [v EXCEPT !.programCounter = q]
<1>1. d = [programCounter |-> d.programCounter, classIndex |-> d.classIndex,
           flags |-> d.flags, stackPointer |-> d.stackPointer,
           framePointer |-> d.framePointer, contextPointer |-> d.contextPointer]
  BY DEF Registers
<1>2. push(Mach(s, d), e) = [stack |-> t, context |-> v]
  <2>1. push(Mach(s, d), e)
          = [[Mach(s, d) EXCEPT !.stack = t] EXCEPT !.context = v]
    BY DEF push, Mach
  <2> HIDE DEF t, v
  <2>2. QED
    BY <2>1 DEF Mach
<1>3. v = Moved(d, d.programCounter, d.stackPointer + 1, d.flags)
  BY <1>1 DEF Moved
<1> HIDE DEF v, t
<1>4. u = Moved(d, q, d.stackPointer + 1, d.flags)
  BY <1>3 DEF Moved
<1>5. [[stack |-> t, context |-> v] EXCEPT !.context.programCounter = q]
        = [stack |-> t, context |-> u]
  OBVIOUS
<1>6. QED
  BY <1>2, <1>4, <1>5 DEF Mach, t

\* j is the last of the calls that have a handler.
LEMMA LastHandling ==
  ASSUME NEW H, NEW n \in Nat, H \subseteq 1 .. n, NEW j \in H, \A i \in j + 1 .. n : i \notin H
  PROVE  Max(H) = j
<1>1. \A x \in H : x \in Nat /\ x <= n /\ (x > j => x \in j + 1 .. n)
  OBVIOUS
<1>2. \A x \in H : x <= j
  BY <1>1
<1>3. \A x \in H : (\A y \in H : x >= y) => x = j
  BY <1>1, <1>2
<1>4. QED
  BY <1>1, <1>2, <1>3 DEF Max

\* The calls up to the h-th, and that one changed.
LEMMA CutAt ==
  ASSUME NEW cs, NEW n, IsSeq(cs, n), NEW h \in 1 .. n, NEW call
  PROVE  Append(SubSeq(cs, 1, h - 1), call) = GoneOn(cs, h, call)
<1>1. n \in Nat
  BY DEF IsSeq
<1>2. IsSeq(SubSeq(cs, 1, h - 1), h - 1) /\ \A i \in 1 .. h - 1 : SubSeq(cs, 1, h - 1)[i] = cs[i]
  <2> DEFINE to == h - 1
  <2>1. to \in Int /\ 1 <= to + 1 /\ to - 1 + 1 = to /\ \A i \in 1 .. to : 1 + i - 1 = i
    BY <1>1
  <2> HIDE DEF to
  <2>2. IsSeq(SubSeq(cs, 1, to), to) /\ \A i \in 1 .. to : SubSeq(cs, 1, to)[i] = cs[i]
    BY <2>1, SubSeqIs
  <2>3. QED
    BY <2>2 DEF to
<1>3. Append(SubSeq(cs, 1, h - 1), call)
        = [i \in 1 .. (h - 1) + 1 |-> IF i = (h - 1) + 1 THEN call ELSE SubSeq(cs, 1, h - 1)[i]]
  BY <1>2, AppendIs
<1>4. QED
  BY <1>1, <1>2, <1>3 DEF GoneOn

\* A call at its handler.
HandledCall(call, q, ops, e) == [call EXCEPT !.pc = q, !.operands = Append(ops, e)]

\* HandledCall in terms of Replaced.
LEMMA HandledIs ==
  ASSUME NEW s, NEW c, NEW q, NEW ops, NEW e
  PROVE  HandledCall(Call(s, c), q, ops, e)
           = Replaced(Call(s, c), q, Call(s, c).locals, Append(ops, e))
<1> DEFINE t == Call(s, c)
           new == Append(ops, e)
           v == [t EXCEPT !.pc = q]
<1>1. t = [class |-> t.class, pc |-> t.pc, returnFromVM |-> t.returnFromVM,
           locals |-> t.locals, operands |-> t.operands]
  BY DEF Call
<1> HIDE DEF t, new
<1>2. v = [class |-> t.class, pc |-> q, returnFromVM |-> t.returnFromVM,
           locals |-> t.locals, operands |-> t.operands]
  BY <1>1
<1> HIDE DEF v
<1>3. [v EXCEPT !.operands = new]
        = [class |-> t.class, pc |-> q, returnFromVM |-> t.returnFromVM,
           locals |-> t.locals, operands |-> new]
  BY <1>2
<1>4. [v EXCEPT !.operands = new] = Replaced(t, q, t.locals, new)
  BY <1>3 DEF Replaced
<1>5. QED
  BY <1>4 DEF v, t, new, HandledCall

OnTop(s, t, cp, sp, e) == WordsIn(t, cp, sp + 1) = Append(WordsIn(s, cp, sp), e)

\* One word more on the operands.
LEMMA WordOnTop ==
  ASSUME NEW s \in Cells, NEW cp \in Nat, NEW sp \in Nat, cp <= sp, sp < STACK_SIZE, NEW e
  PROVE  OnTop(s, [s EXCEPT ![sp] = e], cp, sp, e)
<1> DEFINE t == [s EXCEPT ![sp] = e]
           w == WordsIn(s, cp, sp)
           n == sp - cp
<1>1. n \in Nat /\ sp + 1 - cp = n + 1
  OBVIOUS
<1>2. t[sp] = e /\ \A a \in Nat : a < sp => t[a] = s[a]
  BY DEF Cells
<1>3. IsSeq(w, n) /\ \A i \in 1 .. n : w[i] = s[cp + i - 1]
  BY WordsInIs
<1>4. Append(w, e) = [i \in 1 .. n + 1 |-> IF i = n + 1 THEN e ELSE w[i]]
  <2> HIDE DEF w, n
  <2>1. QED
    BY <1>3, AppendIs
<1>5. WordsIn(t, cp, sp + 1) = [i \in 1 .. n + 1 |-> t[cp + i - 1]]
  BY <1>1 DEF WordsIn
<1>6. \A i \in 1 .. n + 1 : t[cp + i - 1] = IF i = n + 1 THEN e ELSE w[i]
  <2> SUFFICES ASSUME NEW i \in 1 .. n + 1
               PROVE  t[cp + i - 1] = IF i = n + 1 THEN e ELSE w[i]
    OBVIOUS
  <2>1. CASE i = n + 1
    <3>1. cp + i - 1 = sp
      BY <2>1
    <3> HIDE DEF t, w
    <3>2. QED
      BY <2>1, <3>1, <1>2
  <2>2. CASE i # n + 1
    <3>1. i \in 1 .. n /\ cp + i - 1 \in Nat /\ cp + i - 1 < sp
      BY <2>2
    <3> HIDE DEF t, w
    <3>2. QED
      BY <2>2, <3>1, <1>2, <1>3
  <2>3. QED
    BY <2>1, <2>2
<1> HIDE DEF t, w
<1>7. WordsIn(t, cp, sp + 1) = Append(w, e)
  BY <1>4, <1>5, <1>6
<1>8. QED
  BY <1>7 DEF t, w, OnTop

\* The running frame is at pc, with operands up to sp, when e is thrown.
ThrownAt(pc, sp, e) ==
  /\ pc \in Nat /\ pc - 1 \in Body
  /\ sp \in Nat /\ context.contextPointer <= sp /\ sp <= STACK_SIZE
  /\ throwException(Mach(stack, Moved(context, pc, sp, context.flags)), e)

CountersAt(pc) == [i \in DOMAIN calls |-> IF i = Len(calls) THEN pc ELSE calls[i].pc]

OperandsAt(sp, h) ==
  IF h = Len(calls) THEN WordsIn(stack, context.contextPointer, sp) ELSE calls[h].operands

\* What is known of the frame that catches.
Catcher(fr, n, j, d, pc, sp) ==
  /\ d \in Registers
  /\ d.classIndex = MethodAt(fr[j].programCounter).class
  /\ fr[j].programCounter \in Addresses
  /\ d.classIndex = calls[j].class
  /\ d.programCounter = CountersAt(pc)[j]
  /\ d.programCounter - 1 \in BodyOf(fr[j].programCounter)
  /\ d.contextPointer = fr[j].contextPointer /\ d.framePointer = fr[j].framePointer
  /\ d.contextPointer <= d.stackPointer
  /\ d.classIndex = fr[j].classIndex /\ d.flags \in 0 .. 1
  /\ OperandsAt(sp, j) = WordsIn(stack, d.contextPointer, d.stackPointer)
  /\ (d.flags = 1) = (j < Len(calls) /\ calls[j + 1].returnFromVM)

\* The frames the walk meets are those of the calls.
LEMMA CatcherIs ==
  ASSUME IInv, Running, NEW n, NEW fr, FramesAre(n, fr), NEW pc, NEW sp, NEW e,
         ThrownAt(pc, sp, e), NEW j \in 1 .. n
  PROVE  Catcher(fr, n, j,
                 Interrupted(fr, n, Moved(context, pc, sp, context.flags))[j], pc, sp)
<1> DEFINE c == Moved(context, pc, sp, context.flags)
           d == Interrupted(fr, n, c)[j]
<1>1. /\ n \in Nat /\ n > 0 /\ context = fr[n] /\ IsSeq(calls, n) /\ Len(calls) = n
      /\ \A i \in 1 .. n : calls[i] = Call(stack, fr[i])
      /\ Layout(stack, n, fr) /\ DOMAIN calls = 1 .. n
  BY RunningIsTop, SeqFacts DEF FramesAre
<1>2. /\ \A i \in 0 .. n : fr[i] \in Context
      /\ \A i \in 1 .. n : Placed(fr[i]) /\ Saved(stack, fr[i], fr[i - 1])
      /\ \A i \in 1 .. n - 1 : fr[i].programCounter - 1 \in BodyOf(fr[i].programCounter)
  BY <1>1, FrameFacts DEF Layout
<1>3. d = IF j = n THEN c ELSE fr[j]
  BY <1>1 DEF Interrupted
<1>4. fr[j] \in Context /\ Placed(fr[j]) /\ j \in DOMAIN calls /\ calls[j] = Call(stack, fr[j])
  BY <1>1, <1>2
<1>5. fr[j] \in Registers /\ fr[j].flags \in 0 .. 1
  BY <1>4, ContextIsRegisters DEF Context
<1>6. /\ fr[j].classIndex = MethodAt(fr[j].programCounter).class
      /\ fr[j].programCounter \in Addresses
      /\ fr[j].classIndex = calls[j].class
  BY <1>4 DEF Placed, Call
<1> HIDE DEF d, c
<1>7. CASE j = n
  <2>1. d = c /\ fr[j] = context
    BY <1>1, <1>3, <1>7
  <2>2. c \in Registers
    BY <2>1, <1>5, MovedRegisters DEF c, ThrownAt
  <2>3. /\ c.programCounter = pc /\ c.stackPointer = sp /\ c.flags = context.flags
        /\ c.classIndex = context.classIndex /\ c.contextPointer = context.contextPointer
        /\ c.framePointer = context.framePointer
    BY DEF c, Moved
  <2>4. CountersAt(pc)[j] = pc /\ OperandsAt(sp, j) = WordsIn(stack, context.contextPointer, sp)
    BY <1>1, <1>4, <1>7 DEF CountersAt, OperandsAt
  <2>5. pc - 1 \in BodyOf(context.programCounter) /\ context.contextPointer <= sp
    BY DEF ThrownAt, Body, BodyOf
  <2>6. context.flags = 0 /\ ~ (j < Len(calls))
    BY <1>1, <1>7 DEF Running
  <2>7. (c.flags = 1) = (j < Len(calls) /\ calls[j + 1].returnFromVM)
    BY <2>3, <2>6
  <2>8. QED
    BY <2>1, <2>2, <2>3, <2>4, <2>5, <2>6, <2>7, <1>5, <1>6 DEF Catcher, d, c
<1>8. CASE j # n
  <2>1. d = fr[j] /\ j \in 1 .. n - 1 /\ j + 1 \in 1 .. n /\ (j + 1) - 1 = j /\ j < Len(calls)
    BY <1>1, <1>3, <1>8
  <2>2. CountersAt(pc)[j] = fr[j].programCounter
    BY <1>1, <1>4, <1>8 DEF CountersAt, Call
  <2>3. OperandsAt(sp, j) = WordsIn(stack, fr[j].contextPointer, fr[j].stackPointer)
    BY <1>1, <1>4, <1>8 DEF OperandsAt, Call
  <2>4. fr[j].contextPointer <= fr[j].stackPointer
    BY <1>4 DEF Placed
  <2>5. (fr[j].flags = 1) = (j < Len(calls) /\ calls[j + 1].returnFromVM)
    <3>1. Saved(stack, fr[j + 1], fr[j])
      BY <2>1, <1>2
    <3>2. stack[fr[j + 1].contextPointer - 1] = fr[j].flags
      BY <3>1 DEF Saved
    <3>3. calls[j + 1] = Call(stack, fr[j + 1])
      BY <2>1, <1>1
    <3>4. calls[j + 1].returnFromVM = (stack[fr[j + 1].contextPointer - 1] = 1)
      BY <3>3 DEF Call
    <3>5. QED
      BY <2>1, <3>2, <3>4
  <2>6. fr[j].programCounter - 1 \in BodyOf(fr[j].programCounter)
    BY <2>1, <1>2
  <2>7. QED
    BY <2>1, <2>2, <2>3, <2>4, <2>5, <2>6, <1>5, <1>6 DEF Catcher, d, c
<1>9. QED
  BY <1>7, <1>8 DEF d, c

\* The h-th call handles the exception.
ThrownTo(h, pc, sp, e) == Handled(e, CountersAt(pc), h, OperandsAt(sp, h))

\* An exception ends the calls above the handler's and leaves those below alone.
LEMMA Throws ==
  ASSUME IInv, Running, NEW pc, NEW sp, NEW e \in Throwable, ThrownAt(pc, sp, e)
  PROVE  IInv' /\ \E h \in DOMAIN calls : ThrownTo(h, pc, sp, e)
<1>1. PICK n \in Nat, fr \in UNION {[0 .. i -> Context] : i \in Nat} : FramesAre(n, fr)
  BY DEF IInv
<1> DEFINE c == Moved(context, pc, sp, context.flags)
           g == Interrupted(fr, n, c)
<1>2. /\ n \in Nat /\ n > 0 /\ context = fr[n] /\ IsSeq(calls, n) /\ Len(calls) = n
      /\ \A i \in 1 .. n : calls[i] = Call(stack, fr[i])
      /\ stack \in Cells /\ DOMAIN calls = 1 .. n /\ CallStack!Running
      /\ Layout(stack, n, fr)
  BY <1>1, RunningIsTop, SeqFacts DEF FramesAre
<1>3. PICK j \in 1 .. n : Catches(g, n, j, e)
  <2>1. c.contextPointer = context.contextPointer /\ c.framePointer = context.framePointer
    BY DEF Moved
  <2>2. throwException(Mach(stack, c), e)
    BY DEF ThrownAt
  <2> HIDE DEF c
  <2>3. QED
    BY <1>1, <1>2, <2>1, <2>2, ThrowFinds
<1> DEFINE d == g[j]
           q == HandlerPC(d.classIndex, d.programCounter, e)
           x == d.stackPointer
           t == [stack EXCEPT ![x] = e]
<1>4. /\ Hits(d.classIndex, d.programCounter, e) # {}
      /\ \A i \in j + 1 .. n : Hits(g[i].classIndex, g[i].programCounter, e) = {}
      /\ Become(Caught(d, e))
  BY <1>3 DEF Catches
<1>5. \A i \in 1 .. n : Catcher(fr, n, i, g[i], pc, sp)
  BY <1>1, CatcherIs
<1> HIDE DEF g, c
<1>6. Catcher(fr, n, j, d, pc, sp)
  BY <1>5
<1>7. /\ fr[j] \in Context /\ Placed(fr[j]) /\ calls[j] = Call(stack, fr[j]) /\ j \in Nat
  BY <1>2, FrameFacts
<1> HIDE DEF d
<1>8. q \in BodyOf(fr[j].programCounter)
  <2>1. /\ fr[j].programCounter \in Addresses /\ d.programCounter \in Nat
        /\ d.programCounter - 1 \in BodyOf(fr[j].programCounter)
        /\ d.classIndex = MethodAt(fr[j].programCounter).class
    BY <1>6 DEF Catcher, Registers
  <2>2. QED
    BY <2>1, <1>4, HandlerInBody
<1> HIDE DEF q
<1>9. Caught(d, e) = Mach(t, Moved(d, q, x + 1, d.flags))
  <2>1. d \in Registers
    BY <1>6 DEF Catcher
  <2>2. QED
    BY <2>1, <1>2, CaughtIs DEF Caught, q
<1>10. Moved(d, q, x + 1, d.flags) = Moved(fr[j], q, x + 1, d.flags)
  BY <1>6 DEF Catcher, Moved
<1>11. /\ x \in Nat /\ fr[j].contextPointer <= x /\ fr[j].contextPointer \in Nat
       /\ fr[j].framePointer \in Nat /\ fr[j].contextPointer - 5 \in Nat
       /\ fr[j].framePointer <= fr[j].contextPointer - 5 /\ d.flags \in 0 .. 1
  <2>1. x \in Nat /\ fr[j].contextPointer <= x /\ d.flags \in 0 .. 1
    BY <1>6 DEF Catcher, Registers
  <2>2. /\ fr[j].framePointer \in Nat /\ fr[j].contextPointer \in Nat
        /\ fr[j].framePointer + 5 <= fr[j].contextPointer
    BY <1>7, FrameBounds
  <2>3. QED
    BY <2>1, <2>2
<1> HIDE DEF x
<1>12. Become(Mach(t, Moved(fr[j], q, x + 1, d.flags)))
  BY <1>4, <1>9, <1>10
<1>13. x < STACK_SIZE
  <2> DEFINE cc == Moved(fr[j], q, x + 1, d.flags)
  <2>1. cc.stackPointer = x + 1
    BY DEF Moved
  <2> HIDE DEF cc, t
  <2>2. Become(Mach(t, cc))
    BY <1>12 DEF cc
  <2>3. QED
    BY <2>1, <2>2, <1>2, <1>11, FramesAssumption, BecomeIs
<1>14. t \in Cells /\ \A a \in Nat : a < x => t[a] = stack[a]
  <2>1. e \in Cell
    BY ProgramAssumption DEF Cell
  <2>2. QED
    BY <2>1, <1>2, <1>11, <1>13 DEF Cells
<1>15. WordsIn(t, fr[j].contextPointer, x + 1) = Append(OperandsAt(sp, j), e)
  <2>1. OperandsAt(sp, j) = WordsIn(stack, fr[j].contextPointer, x)
    BY <1>6 DEF Catcher, x
  <2>2. OnTop(stack, t, fr[j].contextPointer, x, e)
    BY <1>2, <1>11, <1>13, WordOnTop
  <2> HIDE DEF t
  <2>3. QED
    BY <2>1, <2>2 DEF OnTop
<1> HIDE DEF t
<1>16. Resumes(fr, j, q, x + 1, d.flags, t)
  <2>1. Agree(stack, t, fr[j])
    BY <1>11, <1>14 DEF Agree
  <2>2. x + 1 \in Nat /\ fr[j].contextPointer <= x + 1
    BY <1>11
  <2>3. QED
    BY <2>1, <2>2, <1>8, <1>11, <1>12, <1>14 DEF Resumes
<1> DEFINE fp == fr[j].framePointer
           to == fr[j].contextPointer - 5
<1>17. /\ IInv' /\ context'.flags = d.flags
       /\ calls' = GoneOn(calls, j, Replaced(calls[j], q, WordsIn(t, fp, to),
                                             WordsIn(t, fr[j].contextPointer, x + 1)))
  <2>1. \A q_, y, f, s : Resumes(fr, j, q_, y, f, s) =>
         /\ IInv'
         /\ calls' = GoneOn(calls, j,
                        Replaced(calls[j], q_,
                                 WordsIn(s, fr[j].framePointer, fr[j].contextPointer - 5),
                                 WordsIn(s, fr[j].contextPointer, y)))
         /\ context'.flags = f
    BY <1>1, Resume
  <2>2. QED
    BY <2>1, <1>16
<1>18. WordsIn(t, fp, to) = calls[j].locals
  <2>1. calls[j].locals = WordsIn(stack, fp, to)
    BY <1>7 DEF Call
  <2>2. fp \in Nat /\ to \in Nat /\ fp <= to /\ to <= x
    BY <1>11
  <2> HIDE DEF fp, to
  <2>3. Kept(stack, t, fp, to)
    BY <2>2, <1>11, <1>14 DEF Kept
  <2>4. QED
    BY <2>1, <2>2, <2>3, WordsKept
<1> HIDE DEF fp, to
<1> DEFINE H == HandlingIn(CountersAt(pc), e)
           ops == OperandsAt(sp, j)
<1>19. j \in H /\ H # {} /\ Max(H) = j
  <2>1. \A i \in 1 .. n : /\ g[i].classIndex = calls[i].class
                          /\ g[i].programCounter = CountersAt(pc)[i]
    BY <1>5 DEF Catcher
  <2>2. /\ H \subseteq 1 .. n
        /\ \A i \in 1 .. n : i \in H <=> Hits(g[i].classIndex, g[i].programCounter, e) # {}
    BY <2>1, <1>2 DEF HandlingIn
  <2>3. j \in H
    BY <2>2, <1>4 DEF d
  <2>4. \A i \in j + 1 .. n : i \notin H
    BY <2>2, <1>2, <1>4, <1>7
  <2> HIDE DEF H
  <2>5. QED
    BY <2>2, <2>3, <2>4, <1>2, LastHandling
<1>20. q = HandlerPC(calls[j].class, CountersAt(pc)[j], e)
  BY <1>6 DEF Catcher, q
<1> DEFINE call == Replaced(calls[j], q, calls[j].locals, Append(ops, e))
<1>21. calls' = Append(SubSeq(calls, 1, j - 1), call)
  <2>1. calls' = GoneOn(calls, j, call)
    BY <1>15, <1>17, <1>18
  <2> HIDE DEF call
  <2>2. Append(SubSeq(calls, 1, j - 1), call) = GoneOn(calls, j, call)
    BY <1>2, CutAt
  <2>3. QED
    BY <2>1, <2>2
<1> HIDE DEF ops
<1>22. call = HandledCall(calls[j], q, ops, e)
  BY <1>7, HandledIs
<1>23. (context'.flags = 1) = (j < Len(calls) /\ calls[j + 1].returnFromVM)
  BY <1>6, <1>17 DEF Catcher
<1> HIDE DEF H
<1>24. ThrownTo(j, pc, sp, e)
  <2>1. calls' = Append(SubSeq(calls, 1, j - 1),
           [calls[j] EXCEPT !.pc = HandlerPC(calls[j].class, CountersAt(pc)[j], e),
                            !.operands = Append(OperandsAt(sp, j), e)])
    BY <1>20, <1>21, <1>22 DEF ops, HandledCall
  <2>2. QED
    BY <2>1, <1>2, <1>19, <1>23, Zenon DEF ThrownTo, Handled, H
<1>25. QED
  BY <1>2, <1>17, <1>24

\* A native, or an instruction, throws an exception: pc is behind it.
LEMMA ThrowFromCSteps ==
  ASSUME IInv, NEW e \in Throwable, ThrowFromC(e)
  PROVE  IInv' /\ CallStack!ThrowFromC(e)
<1> DEFINE pc == context.programCounter
           sp == context.stackPointer
<1>1. Running /\ InC /\ throwException(Machine, e)
  BY DEF ThrowFromC
<1>2. /\ context \in Registers /\ pc \in Nat /\ sp \in Nat /\ sp <= STACK_SIZE
      /\ context.contextPointer <= sp /\ CallStack!Top = Call(stack, context)
  BY <1>1, RunningRegisters, RunningFrame, ContextIsRegisters
<1>3. ThrownAt(pc, sp, e)
  <2>1. Machine = Mach(stack, Moved(context, pc, sp, context.flags))
    BY <1>2, MovedIs DEF Machine, Mach
  <2>2. pc - 1 \in Body
    BY <1>1 DEF InC
  <2>3. QED
    BY <2>1, <2>2, <1>1, <1>2 DEF ThrownAt
<1> HIDE DEF pc, sp
<1>4. IInv' /\ \E h \in DOMAIN calls : ThrownTo(h, pc, sp, e)
  BY <1>1, <1>3, Throws
<1>5. PICK h \in DOMAIN calls : ThrownTo(h, pc, sp, e)
  BY <1>4
<1>6. calls[Len(calls)] = Call(stack, context)
  BY <1>2, SameProgram DEF CallStack!Top, Last
<1>7. CountersAt(pc) = [i \in DOMAIN calls |-> calls[i].pc]
  <2>1. calls[Len(calls)].pc = pc
    BY <1>6 DEF Call, pc
  <2>2. QED
    BY <2>1 DEF CountersAt
<1>8. OperandsAt(sp, h) = calls[h].operands
  <2>1. calls[Len(calls)].operands = WordsIn(stack, context.contextPointer, sp)
    BY <1>6 DEF Call, sp
  <2>2. QED
    BY <2>1 DEF OperandsAt
<1>9. CallStack!InC
  BY <1>1, SameGuards
<1>10. Handled(e, [i \in DOMAIN calls |-> calls[i].pc], h, calls[h].operands)
  BY <1>5, <1>7, <1>8 DEF ThrownTo
<1>11. CallStack!ThrowFromC(e)
  BY <1>9, <1>10, ThrowFromCIs
<1>12. QED
  BY <1>4, <1>11

\* athrow, which has been fetched and has popped the exception when it throws it.
LEMMA AthrowSteps ==
  ASSUME IInv, NEW e \in Throwable, athrow(e)
  PROVE  IInv' /\ CallStack!athrow(e)
<1> DEFINE pc == context.programCounter + 1
           sp == context.stackPointer - 1
           cp == context.contextPointer
<1>1. /\ Running /\ operands(Machine) > 0 /\ top(Machine, 1) = <<e>>
      /\ throwException(popped(fetch(Machine), 1), e)
  BY DEF athrow
<1>2. /\ context.programCounter \in Nat /\ context.programCounter \in Addresses
      /\ cp \in Nat /\ context.stackPointer \in Nat /\ context.stackPointer <= STACK_SIZE
      /\ operands(Machine) = context.stackPointer - cp
      /\ CallStack!Top = Call(stack, context)
      /\ CallStack!Count = operands(Machine)
  BY <1>1, RunningRegisters, RunningFrame
<1>3. 1 <= operands(Machine) /\ 1 \in Nat
  BY <1>1, <1>2
<1>4. ThrownAt(pc, sp, e)
  <2>1. popped(fetch(Machine), 1) = Mach(stack, Moved(context, pc, sp, context.flags))
    BY <1>1, <1>3, FetchedAndPopped
  <2>2. pc - 1 \in Body
    <3>1. context.programCounter \in BodyOf(context.programCounter)
      BY <1>2, MethodOfAddress
    <3>2. pc - 1 = context.programCounter
      BY <1>2
    <3>3. QED
      BY <3>1, <3>2 DEF Body, BodyOf
  <2>3. pc \in Nat /\ sp \in Nat /\ cp <= sp /\ sp <= STACK_SIZE
    BY <1>1, <1>2
  <2>4. QED
    BY <2>1, <2>2, <2>3, <1>1 DEF ThrownAt
<1>5. CallStack!Below(1) = WordsIn(stack, cp, sp)
  BY <1>1, <1>3, OperandsAre
<1>6. CallStack!Top.pc + 1 = pc
  BY <1>2 DEF Call
<1>7. CallStack!Count > 0 /\ Last(CallStack!Top.operands) = e
  <2> DEFINE ops == CallStack!Top.operands
             y == context.stackPointer
             k == y - cp
  <2>1. ops = WordsIn(stack, cp, y)
    BY <1>2 DEF Call
  <2>2. k \in Nat /\ k > 0 /\ k = y - cp /\ cp <= y /\ y \in Nat /\ cp \in Nat
        /\ cp + k - 1 = y - 1
    BY <1>1, <1>2
  <2> HIDE DEF k, y, cp, ops
  <2>3. IsSeq(ops, k) /\ \A i \in 1 .. k : ops[i] = stack[cp + i - 1]
    <3>1. IsSeq(WordsIn(stack, cp, y), y - cp)
      BY <2>2, WordsInIs
    <3>2. \A i \in 1 .. y - cp : WordsIn(stack, cp, y)[i] = stack[cp + i - 1]
      BY <2>2, WordsInIs
    <3>3. QED
      BY <2>1, <2>2, <3>1, <3>2
  <2>4. Last(ops) = ops[k]
    BY <2>3, SeqFacts
  <2>5. ops[k] = stack[y - 1]
    BY <2>2, <2>3
  <2>6. top(Machine, 1) = [i \in 1 .. 1 |-> stack[(y - 1) + i - 1]]
    BY DEF top, Machine, y
  <2>7. top(Machine, 1)[1] = stack[y - 1]
    BY <2>2, <2>6
  <2>8. <<e>>[1] = e
    OBVIOUS
  <2>9. QED
    BY <1>1, <1>2, <2>4, <2>5, <2>7, <2>8 DEF ops
<1> HIDE DEF pc, sp
<1>8. IInv' /\ \E h \in DOMAIN calls : ThrownTo(h, pc, sp, e)
  BY <1>1, <1>4, Throws
<1>9. PICK h \in DOMAIN calls : ThrownTo(h, pc, sp, e)
  BY <1>8
<1>10. Handled(e, [i \in DOMAIN calls |->
                     IF i = Len(calls) THEN CallStack!Top.pc + 1 ELSE calls[i].pc],
               h, IF h = Len(calls) THEN CallStack!Below(1) ELSE calls[h].operands)
  BY <1>5, <1>6, <1>9 DEF ThrownTo, CountersAt, OperandsAt
<1>11. CallStack!athrow(e)
  BY <1>7, <1>10, AthrowIs
<1>12. QED
  BY <1>8, <1>11

-----------------------------------------------------------------------------
(* The start of the machine, and every step                                *)

Cleared ==
  [programCounter |-> start.first, classIndex |-> start.class, stackPointer |-> 0,
   framePointer |-> 0, contextPointer |-> 0, flags |-> 0]

\* The frame of the start method, below which there is none.
LEMMA StartFrame ==
  ASSUME LocalsFit, Init
  PROVE  \E fr \in [0 .. 1 -> Context] :
           /\ FramesAre(1, fr) /\ context.flags = 0
           /\ Call(stack, fr[1]) = [class |-> start.class, pc |-> start.first,
                                    returnFromVM |-> TRUE, locals |-> <<>>, operands |-> <<>>]
<1> DEFINE s == [i \in 0 .. STACK_SIZE - 1 |-> Stale]
           words == SavedWords(Cleared, TRUE)
           t == Written(s, 0, words)
           base == [i \in 0 .. 0 |-> Cleared]
           fr == Called(base, 0, start.first, 0, start, TRUE)
<1>1. /\ start \in Method /\ start.locals = 0 /\ start.args = 0
      /\ start.first \in Nat /\ start.class \in Nat
  BY ProgramAssumption DEF MethodType
<1>2. Cleared \in Context /\ Cleared \in Registers
  <2>1. Cleared \in Context
    BY <1>1, FramesAssumption DEF Cleared, Context
  <2>2. QED
    BY <2>1, ContextIsRegisters
<1>3. s \in Cells
  BY DEF Cells, Cell
<1>4. stack = t /\ context = NewFrame(start, 5)
  <2>1. push_frame(Mach(s, Cleared), start, TRUE)
          = Mach(Written(s, Cleared.stackPointer, words), NewFrame(start, Cleared.stackPointer + 5))
    BY <1>1, <1>2, PushFrame
  <2>2. Cleared.stackPointer = 0 /\ 0 + 5 = 5
    BY DEF Cleared
  <2> HIDE DEF t, words, s
  <2>3. push_frame(Mach(s, Cleared), start, TRUE) = Mach(t, NewFrame(start, 5))
    BY <2>1, <2>2 DEF t
  <2>4. /\ stack = push_frame(Mach(s, Cleared), start, TRUE).stack
        /\ context = push_frame(Mach(s, Cleared), start, TRUE).context
    BY DEF Init, Mach, Cleared, s
  <2> DEFINE p == push_frame(Mach(s, Cleared), start, TRUE)
             c == NewFrame(start, 5)
  <2>5. p = [stack |-> t, context |-> c]
    BY <2>3 DEF Mach
  <2>6. stack = p.stack /\ context = p.context
    BY <2>4
  <2> HIDE DEF p, c
  <2>7. stack = t /\ context = c
    BY <2>5, <2>6
  <2>8. QED
    BY <2>7 DEF c
<1>5. /\ words \in Seq(Cell) /\ Len(words) = 5
      /\ words[1] = 0 /\ words[2] = start.first /\ words[3] = start.class
      /\ words[4] = 0 /\ words[5] = 1
  BY <1>1 DEF SavedWords, Cleared, Flag, Cell
<1> HIDE DEF words, s
<1>6. t \in Cells /\ \A a \in 0 .. 4 : t[a] = words[a + 1]
  <2>1. /\ t \in Cells
        /\ \A a \in 0 .. STACK_SIZE - 1 : a >= 0 /\ a < 0 + Len(words) => t[a] = words[a - 0 + 1]
    BY <1>3, <1>5, WrittenIs
  <2> HIDE DEF t
  <2>2. QED
    BY <2>1, <1>5, FramesAssumption
<1> HIDE DEF t
<1>7. Layout(s, 0, base)
  BY <1>2, <1>3 DEF Layout, Cleared
<1>8. RegistersSaved(t, 0 + start.locals, base[0], start.first, TRUE)
  BY <1>1, <1>5, <1>6 DEF RegistersSaved, Cleared, Flag
<1>9. Layout(t, 0 + 1, fr)
  <2>1. Agree(s, t, base[0])
    BY DEF Agree, Cleared
  <2>2. 0 + start.locals + 5 <= STACK_SIZE
    BY <1>1, FramesAssumption
  <2> HIDE DEF fr, base
  <2>3. QED
    BY <2>1, <2>2, <1>1, <1>6, <1>7, <1>8, CallLayout DEF fr
<1>10. fr[1] = NewFrame(start, 5)
  <2>1. 0 + start.locals + 5 = 5 /\ 0 + 1 = 1
    BY <1>1
  <2>2. QED
    BY <2>1 DEF Called, Entered
<1>11. Call(t, NewFrame(start, 5)) = [class |-> start.class, pc |-> start.first,
                                      returnFromVM |-> TRUE, locals |-> <<>>, operands |-> <<>>]
  <2>1. 0 + start.locals + 5 = 5 /\ 0 + start.locals = 0 /\ 0 + start.locals + 4 = 4
    BY <1>1
  <2>2. t[4] = Flag(TRUE)
    BY <1>5, <1>6 DEF Flag
  <2>3. Call(t, NewFrame(start, 0 + start.locals + 5))
          = [class |-> start.class, pc |-> start.first, returnFromVM |-> TRUE,
             locals |-> WordsIn(t, 0, 0 + start.locals), operands |-> <<>>]
    BY <1>1, <2>1, <2>2, CallEntered
  <2>4. WordsIn(t, 0, 0) = <<>>
    <3>1. IsSeq(WordsIn(t, 0, 0), 0)
      BY DEF IsSeq, WordsIn
    <3>2. QED
      BY <3>1, SeqFacts, EmptySeq
  <2>5. QED
    BY <2>1, <2>3, <2>4
<1> HIDE DEF fr
<1>12. Layout(stack, 1, fr) /\ context = fr[1]
  BY <1>4, <1>9, <1>10
<1>13. fr \in [0 .. 1 -> Context]
  BY <1>12 DEF Layout
<1>14. context.flags = 0
  BY <1>4 DEF NewFrame
<1>15. QED
  BY <1>4, <1>10, <1>11, <1>12, <1>13, <1>14 DEF FramesAre

\* The start of the machine.
LEMMA InitMaps ==
  ASSUME LocalsFit, Init
  PROVE  IInv /\ CallStack!Init
<1> DEFINE new == [class |-> start.class, pc |-> start.first, returnFromVM |-> TRUE,
                   locals |-> <<>>, operands |-> <<>>]
<1>1. PICK fr \in [0 .. 1 -> Context] :
        FramesAre(1, fr) /\ context.flags = 0 /\ Call(stack, fr[1]) = new
  BY StartFrame
<1>2. IInv
  BY <1>1 DEF IInv
<1>3. calls = [i \in 1 .. 1 |-> Call(stack, fr[i])]
  <2>1. Layout(stack, 1, fr) /\ context = fr[1]
    BY <1>1 DEF FramesAre
  <2>2. calls = CallsIn(stack, fr[1])
    BY <2>1 DEF calls
  <2>3. CallsIn(stack, fr[1]) = [i \in 1 .. 1 |-> Call(stack, fr[i])]
    <3> DEFINE n == 1
    <3>1. Layout(stack, n, fr)
      BY <2>1
    <3> HIDE DEF n
    <3>2. CallsIn(stack, fr[n]) = [i \in 1 .. n |-> Call(stack, fr[i])]
      BY <3>1, CallsAreFrames
    <3>3. QED
      BY <3>2 DEF n
  <2>4. QED
    BY <2>2, <2>3, Zenon
<1> HIDE DEF new
<1>4. calls = <<new>>
  <2>1. IsSeq(calls, 1) /\ calls[1] = new
    BY <1>1, <1>3 DEF IsSeq
  <2>2. IsSeq(<<new>>, 1) /\ <<new>>[1] = new
    BY DEF IsSeq
  <2>3. QED
    BY <2>1, <2>2, SameSeq
<1>5. CallStack!NewCall(start, <<>>, TRUE) = new
  <2>1. start.locals = 0 /\ start.args = 0 /\ start.locals - start.args = 0
    BY ProgramAssumption
  <2> DEFINE z == [i \in 1 .. start.locals - start.args |-> Zero]
  <2>2. z = <<>>
    <3>1. IsSeq(z, 0)
      BY <2>1 DEF IsSeq
    <3> HIDE DEF z
    <3>2. QED
      BY <3>1, SeqFacts, EmptySeq
  <2>3. <<>> \o <<>> = <<>>
    OBVIOUS
  <2> HIDE DEF z
  <2>4. CallStack!NewCall(start, <<>>, TRUE)
          = [class |-> start.class, pc |-> start.first, returnFromVM |-> TRUE,
             locals |-> <<>> \o z, operands |-> <<>>]
    BY DEF CallStack!NewCall, z
  <2>5. QED
    BY <2>2, <2>3, <2>4 DEF new
<1>6. (context.flags = 1) = FALSE
  BY <1>1
<1>7. calls = <<CallStack!NewCall(start, <<>>, TRUE)>>
  BY <1>4, <1>5
<1>8. QED
  BY <1>2, <1>6, <1>7, Zenon DEF CallStack!Init


\* The sequences both modules let Operate push.
LEMMA SameSeqOf == \A S, n : CallStack!SeqOf(S, n) = SeqOf(S, n)
BY DEF SeqOf, CallStack!SeqOf

\* Every step keeps the layout, and is the step of the same name of CallStack.
LEMMA NextMaps ==
  ASSUME LocalsFit, IInv, Next
  PROVE  IInv' /\ CallStack!Next
<1>1. ASSUME NEW n \in 0 .. 2, NEW results \in SeqOf(Word, 2), Operate(n, results)
      PROVE  IInv' /\ CallStack!Next
  <2>1. IInv' /\ CallStack!Operate(n, results)
    BY <1>1, OperateSteps
  <2>2. results \in CallStack!SeqOf(Word, 2)
    BY SameSeqOf
  <2>3. QED
    BY <2>1, <2>2, Zenon DEF CallStack!Next
<1>2. ASSUME NEW n \in 0 .. 2, NEW target \in Addresses, Branch(n, target)
      PROVE  IInv' /\ CallStack!Next
  <2>1. IInv' /\ CallStack!Branch(n, target)
    BY <1>2, BranchSteps
  <2>2. target \in CallStack!Addresses
    BY SameProgram
  <2>3. QED
    BY <2>1, <2>2, Zenon DEF CallStack!Next
<1>3. ASSUME NEW n \in 1 .. 2, NEW skip \in 0 .. 1, Dup(n, skip)
      PROVE  IInv' /\ CallStack!Next
  <2>1. IInv' /\ CallStack!Dup(n, skip)
    BY <1>3, DupSteps
  <2>2. QED
    BY <2>1, Zenon DEF CallStack!Next
<1>4. ASSUME NEW v \in Variables, NEW n \in 1 .. 2, Load(v, n) \/ Store(v, n)
      PROVE  IInv' /\ CallStack!Next
  <2>1. Running
    BY <1>4 DEF Load, Store
  <2>2. v + 1 \in CallStack!Variables
    BY <2>1, SameGuards
  <2>3. IInv' /\ (CallStack!Load(v + 1, n) \/ CallStack!Store(v + 1, n))
    BY <1>4, LoadSteps, StoreSteps
  <2>4. QED
    BY <2>2, <2>3, Zenon DEF CallStack!Next
<1>5. ASSUME NEW v \in Variables, NEW w \in Word, Increment(v, w)
      PROVE  IInv' /\ CallStack!Next
  <2>1. Running
    BY <1>5 DEF Increment
  <2>2. v + 1 \in CallStack!Variables
    BY <2>1, SameGuards
  <2>3. IInv' /\ CallStack!Increment(v + 1, w)
    BY <1>5, IncrementSteps
  <2>4. QED
    BY <2>2, <2>3, Zenon DEF CallStack!Next
<1>6. ASSUME NEW m \in Method, Invoke(m)
      PROVE  IInv' /\ CallStack!Next
  <2>1. IInv' /\ CallStack!Invoke(m)
    BY <1>6, InvokeSteps
  <2>2. QED
    BY <2>1, Zenon DEF CallStack!Next
<1>7. ASSUME NEW m \in Method, NEW args \in [1 .. m.args -> Word], CallFromC(m, args)
      PROVE  IInv' /\ CallStack!Next
  <2>1. IInv' /\ CallStack!CallFromC(m, args)
    BY <1>7, CallFromCSteps
  <2>2. QED
    BY <2>1, Zenon DEF CallStack!Next
<1>8. ASSUME NEW n \in 0 .. 2, Return(n)
      PROVE  IInv' /\ CallStack!Next
  <2>1. IInv' /\ CallStack!Return(n)
    BY <1>8, ReturnSteps
  <2>2. QED
    BY <2>1, Zenon DEF CallStack!Next
<1>9. ASSUME NEW e \in Throwable, athrow(e) \/ ThrowFromC(e)
      PROVE  IInv' /\ CallStack!Next
  <2>1. IInv' /\ (CallStack!athrow(e) \/ CallStack!ThrowFromC(e))
    BY <1>9, AthrowSteps, ThrowFromCSteps
  <2>2. QED
    BY <2>1, Zenon DEF CallStack!Next
<1>10. ASSUME ReturnFromVM
       PROVE  IInv' /\ CallStack!Next
  <2>1. IInv' /\ CallStack!ReturnFromVM
    BY <1>10, ReturnFromVMSteps
  <2>2. QED
    BY <2>1, Zenon DEF CallStack!Next
<1>11. QED
  BY <1>1, <1>2, <1>3, <1>4, <1>5, <1>6, <1>7, <1>8, <1>9, <1>10, Zenon DEF Next

\* Nothing changes.
LEMMA StutterMaps ==
  ASSUME IInv, UNCHANGED vars
  PROVE  IInv' /\ UNCHANGED CallStack!vars
<1>1. stack' = stack /\ context' = context
  BY DEF vars
<1>2. IInv'
  BY <1>1 DEF IInv, FramesAre
<1>3. calls' = calls
  BY <1>1 DEF calls
<1>4. (context'.flags = 1) = (context.flags = 1)
  BY <1>1
<1>5. QED
  BY <1>2, <1>3, <1>4, Zenon DEF CallStack!vars

\* Both together.
LEMMA StepMaps ==
  ASSUME LocalsFit, IInv, [Next]_vars
  PROVE  IInv' /\ [CallStack!Next]_(CallStack!vars)
BY NextMaps, StutterMaps

-----------------------------------------------------------------------------
(* What holds of every behaviour, when no method has more than 255 local   *)
(* variables, the most that push_frame's argument can say.                 *)

\* The words of the stack are the frames of calls, one above the other.
THEOREM Invariance ==
  ASSUME LocalsFit
  PROVE  Spec => []IInv
<1>1. Init => IInv
  BY InitMaps
<1>2. IInv /\ [Next]_vars => IInv'
  BY StepMaps
<1>3. QED
  BY <1>1, <1>2, PTL DEF Spec

\* No register leaves the stack, whatever is called and thrown: the machine exits
\* before the stack overflows.
THEOREM TypeCorrect ==
  ASSUME LocalsFit
  PROVE  Spec => []TypeOK
<1>1. IInv => TypeOK
  BY InvTypeOK
<1>2. QED
  BY <1>1, Invariance, PTL

\* However deep the calls are, popping the frames meets one frame after another, each
\* with its method's class and variables, and none overlaps the next.
THEOREM FramesAreNested ==
  ASSUME LocalsFit
  PROVE  Spec => []FramesNested
<1>1. IInv => FramesNested
  BY InvFramesNested
<1>2. QED
  BY <1>1, Invariance, PTL

\* A stack trace is as long as there are calls, and has the instruction each is at.
THEOREM StackTraceIsExact ==
  ASSUME LocalsFit
  PROVE  Spec => []StackTraceExact
<1>1. IInv => StackTraceExact
  BY InvStackTraceExact
<1>2. QED
  BY <1>1, Invariance, PTL

\* The array of words with its registers is a stack of calls, each with variables and
\* operands of its own: every step of frame.c and operandstack.c is the step of the
\* same name of CallStack, the unwinding for an exception included.
THEOREM FramesAreCallStack ==
  ASSUME LocalsFit
  PROVE  Spec => ImplementsCallStack
<1>1. Init => CallStack!Init
  BY InitMaps
<1>2. IInv /\ [Next]_vars => [CallStack!Next]_(CallStack!vars)
  BY StepMaps
<1>3. QED
  BY <1>1, <1>2, Invariance, PTL DEF Spec, ImplementsCallStack, CallStack!Spec
=============================================================================

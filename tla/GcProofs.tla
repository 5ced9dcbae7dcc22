------------------------------ MODULE GcProofs ------------------------------
(***************************************************************************)
(* Garbage collection frees nothing that is needed before one of the two   *)
(* losses ClassesAreKept and ExceptionIsKept speak of, and always all that *)
(* is not; it is never misled by a mark of an earlier collection.  All of  *)
(* it for any heap, any number of classes and threads, and any stacks.     *)
(*                                                                         *)
(* After a loss the machine runs on with references to free blocks, which  *)
(* later allocations take: the invariant says what is true even then, and  *)
(* what only until then.                                                   *)
(***************************************************************************)
EXTENDS Gc, SequenceTheorems, TLAPS

Startup == {"osStackInit", "newClassArray", "newClass"}
Holding == {"newString", "constructor", "constructed"}

Shape ==
  /\ TypeOK
  /\ doing \in [Thread -> Startup \cup Holding \cup {"java"}]
  /\ pc \in {"idle", "alloc", "retry"} /\ base \in [Thread -> Nat]

\* main's stack and the class array, before a static field refers to them.
StartupBlock(o) == o \in {jstack, javaLangClassArray} /\ type[o] = "protected"

\* What a reference may lead to: never a block that only the startup knows, and
\* until something is lost only a block in use.
Sound(o) == o \in Object /\ ~ StartupBlock(o) /\ (~ lost => type[o] = "used")

ReferToSound ==
  /\ \A t \in Thread : \A i \in 1 .. Len(stack[t]) : Sound(stack[t][i])
  /\ \A f \in Field : static[f] # NULL => Sound(static[f])
  /\ \A x \in Object : \A y \in refs[x] :
       ~ StartupBlock(y) /\ (~ lost /\ type[x] # "free" => type[y] = "used")
  /\ \A t \in Thread : doing[t] \in {"constructor", "constructed"} => Sound(held[t])

\* A block in the heap has the mark of the last collection, or none.  A protected
\* block has none, but that a String may be visited through a lost reference.
MarksOnTrack ==
  /\ markValue % 2 = 1
  /\ \A o \in Object : type[o] # "free" => mark[o] \in {0, markValue}
  /\ \A o \in Object : type[o] = "protected" /\ mark[o] # 0 =>
       pc = "retry" /\ doing[cur] = "newString" /\ o = held[cur]

\* A protected block refers to nothing, but for the class array being filled.
ProtectedRefersToNone ==
  \A o \in Object : type[o] = "protected" /\ refs[o] # {} =>
    o = javaLangClassArray /\ doing[main] = "newClass"

\* Only main runs until threads are scheduled, and the machine starts before that.
BeforeScheduling ==
  /\ ~ scheduling => cur = main /\ \A t \in Thread \ {main} : doing[t] = "java" /\ stack[t] = <<>>
  /\ \A t \in Thread : doing[t] \in Startup => ~ scheduling /\ stack[t] = <<>>

\* What the C code of a thread holds.
HeldOnTrack ==
  \A t \in Thread :
    /\ doing[t] \in Holding <=> held[t] # NULL
    /\ doing[t] = "newString" =>
         t = cur /\ type[held[t]] = "protected" /\ held[t] \notin {jstack, javaLangClassArray}
    /\ doing[t] = "constructor" => base[t] < Len(stack[t]) /\ stack[t][base[t] + 1] = held[t]
    /\ doing[t] # "constructor" => base[t] = 0

\* main's stack and the class array are protected until a static field has them,
\* and never freed.
StartupOnTrack ==
  /\ doing[main] = "osStackInit" => jstack = NULL
  /\ doing[main] # "osStackInit" =>
       /\ jstack # NULL
       /\ IF scheduling THEN static["aAllThreads"] = jstack /\ type[jstack] = "used"
                        ELSE type[jstack] = "protected"
  /\ doing[main] \in Startup => \A f \in Field : static[f] = NULL
  /\ doing[main] \in {"osStackInit", "newClassArray"} =>
       javaLangClassArray = NULL /\ \A o \in Object : refs[o] = {}
  /\ doing[main] = "newClass" =>
       javaLangClassArray \notin {NULL, jstack} /\ type[javaLangClassArray] = "protected"
  /\ doing[main] \notin Startup =>
       /\ javaLangClassArray # NULL
       /\ javaLangClassArray = static["aAllClasses"] /\ type[javaLangClassArray] = "used"

\* The array is published only when no instance is being allocated.
CallOnTrack == pc # "idle" /\ doing[main] = "newClass" => classes < NClasses

\* After a collection that is not over, every used block is needed.
CollectedAll == pc = "retry" => \A o \in Object : type[o] = "used" => o \in Needed

GInv ==
  /\ Shape /\ ReferToSound /\ MarksOnTrack /\ ProtectedRefersToNone /\ BeforeScheduling
  /\ HeldOnTrack /\ StartupOnTrack /\ CallOnTrack /\ ProtectionEnds /\ CollectedAll

USE GcAssumption
-----------------------------------------------------------------------------
(* The mark values                                                         *)

\* A remainder is the one number in range that differs by a multiple.
LEMMA Remainders ==
  ASSUME NEW w \in Nat \ {0}, NEW n \in 0 .. 2 * w - 1
  PROVE  n % w = IF n < w THEN n ELSE n - w
<1> DEFINE q == n \div w
           r == n % w
<1>1. n \in Int /\ q \in Int /\ r \in 0 .. w - 1 /\ n = w * q + r
  OBVIOUS
<1>2. q >= 2 => w * q >= 2 * w
  BY <1>1
<1>3. q <= -1 => w * q <= -w
  BY <1>1
<1>4. q \in {0, 1}
  BY <1>1, <1>2, <1>3
<1>5. QED  BY <1>1, <1>4

\* Mark values stay odd, so that no one is 0, and two in a row differ.
LEMMA NextMark ==
  ASSUME markValue \in MarkValue, markValue % 2 = 1
  PROVE  /\ NextMarkValue \in MarkValue /\ NextMarkValue % 2 = 1
         /\ NextMarkValue # 0 /\ NextMarkValue # markValue
<1> DEFINE w == 2 ^ MARK_BIT_SIZE
<1>1. PICK half \in Nat : w = 2 * half /\ half >= 2
  BY MarkBitsAssumption
<1>2. markValue \in 0 .. w - 1 /\ NextMarkValue = (markValue + 2) % w /\ MarkValue = 0 .. w - 1
  BY DEF MarkValue, NextMarkValue
<1> HIDE DEF w
<1>3. w \in Nat \ {0} /\ markValue + 2 \in 0 .. 2 * w - 1
  BY <1>1, <1>2
<1>4. NextMarkValue = IF markValue + 2 < w THEN markValue + 2 ELSE markValue + 2 - w
  <2> DEFINE n == markValue + 2
  <2> HIDE DEF n
  <2>1. n % w = IF n < w THEN n ELSE n - w
    BY <1>3, Remainders DEF n
  <2>2. QED  BY <1>2, <1>3, <2>1 DEF n
<1>5. QED  BY <1>1, <1>2, <1>4

-----------------------------------------------------------------------------
(* Stacks                                                                  *)

LEMMA TopFacts ==
  ASSUME NEW s \in Seq(Object), Len(s) > 0
  PROVE  Last(s) = s[Len(s)] /\ Len(s) \in 1 .. Len(s) /\ Front(s) = SubSeq(s, 1, Len(s) - 1)
  BY DEF Last, Front

LEMMA ShorterFacts ==
  ASSUME NEW s \in Seq(Object), NEW n \in 0 .. Len(s)
  PROVE  /\ SubSeq(s, 1, n) \in Seq(Object) /\ Len(SubSeq(s, 1, n)) = n
         /\ \A i \in 1 .. n : SubSeq(s, 1, n)[i] = s[i]
<1>1. \A i \in 1 .. n : s[i] \in Object
  OBVIOUS
<1>2. /\ SubSeq(s, 1, n) \in Seq(Object)
      /\ Len(SubSeq(s, 1, n)) = IF 1 <= n THEN n - 1 + 1 ELSE 0
      /\ \A i \in 1 .. n - 1 + 1 : SubSeq(s, 1, n)[i] = s[1 + i - 1]
  BY <1>1, SubSeqProperties
<1>3. QED  BY <1>2

LEMMA UnwoundFacts ==
  ASSUME NEW s \in Seq(Object), NEW u \in Unwound(s)
  PROVE  u \in Seq(Object) /\ Len(u) <= Len(s) /\ \A i \in 1 .. Len(u) : u[i] = s[i]
<1>1. PICK n \in 0 .. Len(s) : u = SubSeq(s, 1, n)
  BY DEF Unwound
<1>2. QED  BY <1>1, ShorterFacts

LEMMA PushFacts ==
  ASSUME NEW s \in Seq(Object), NEW o \in Object
  PROVE  /\ Append(s, o) \in Seq(Object) /\ Len(Append(s, o)) = Len(s) + 1
         /\ \A i \in 1 .. Len(s) : Append(s, o)[i] = s[i]
         /\ Append(s, o)[Len(s) + 1] = o
  OBVIOUS

\* Every reference on every stack is found where the collector looks for it.
LEMMA RootsFacts ==
  ASSUME Shape, ReferToSound, BeforeScheduling
  PROVE  /\ Roots \subseteq Object /\ NULL \notin Roots
         /\ \A o \in Roots : Sound(o)
         /\ \A t \in Thread : \A i \in 1 .. Len(stack[t]) : stack[t][i] \in Roots
         /\ \A f \in Field : static[f] # NULL => static[f] \in Roots
<1>1. \A t \in Thread : /\ stack[t] \in Seq(Object) /\ DOMAIN stack[t] = 1 .. Len(stack[t])
                        /\ \A i \in 1 .. Len(stack[t]) : stack[t][i] \in Object
  BY DEF Shape, TypeOK
<1>2. \A f \in Field : static[f] \in Object \cup {NULL}
  BY DEF Shape, TypeOK
<1>3. ASSUME NEW o \in Roots PROVE o \in Object /\ o # NULL /\ Sound(o)
  <2>1. CASE o \in {static[f] : f \in Field} \ {NULL}
    BY <1>2, <2>1 DEF ReferToSound
  <2>2. CASE o \in UNION {ToSet(stack[t]) : t \in IF scheduling THEN Thread ELSE {cur}}
    <3>1. PICK t \in Thread : o \in ToSet(stack[t])
      BY <2>2 DEF Shape, TypeOK
    <3>2. PICK i \in 1 .. Len(stack[t]) : o = stack[t][i]
      BY <3>1, <1>1 DEF ToSet
    <3>3. QED  BY <3>2, <1>1 DEF ReferToSound
  <2>3. QED  BY <2>1, <2>2 DEF Roots
<1>4. ASSUME NEW t \in Thread, NEW i \in 1 .. Len(stack[t]) PROVE stack[t][i] \in Roots
  <2>1. stack[t][i] \in ToSet(stack[t])
    BY <1>1 DEF ToSet
  <2>2. scheduling \/ t = cur
    <3>1. CASE ~ scheduling /\ t # cur
      <4>1. stack[t] = <<>>
        BY <3>1 DEF BeforeScheduling
      <4>2. QED  BY <4>1
    <3>2. QED  BY <3>1
  <2>3. QED  BY <2>1, <2>2 DEF Roots
<1>5. ASSUME NEW f \in Field, static[f] # NULL PROVE static[f] \in Roots
  BY <1>5 DEF Roots
<1>6. QED  BY <1>3, <1>4, <1>5

-----------------------------------------------------------------------------
(* Collection                                                              *)

\* With no block free and no stale mark, marking visits what the roots lead to:
\* never what only the startup knows, and used blocks only until something is lost.
LEMMA VisitedFacts ==
  ASSUME GInv, Free = {}, pc = "alloc", NEW m, m = NextMarkValue
  PROVE  /\ Visited(m) \subseteq Object /\ Roots \subseteq Visited(m)
         /\ \A x \in Visited(m) : Sound(x) /\ refs[x] \subseteq Visited(m)
         /\ Visited(m) \subseteq Needed
<1>1. \A o \in Object : type[o] # "free" /\ mark[o] # m
  <2>1. \A o \in Object : type[o] # "free"
    BY DEF Free
  <2>2. m # 0 /\ m # markValue
    BY NextMark DEF GInv, Shape, TypeOK, MarksOnTrack
  <2>3. QED  BY <2>1, <2>2 DEF GInv, MarksOnTrack
<1>2. \A x \in Object : refs[x] \subseteq Object /\ \A y \in refs[x] : Sound(y)
  BY <1>1 DEF GInv, Shape, TypeOK, ReferToSound, Sound
<1>3. Roots \subseteq Object /\ NULL \notin Roots /\ \A o \in Roots : Sound(o)
  BY RootsFacts DEF GInv
<1>4. Visited(m) \subseteq Object /\ Roots \subseteq Visited(m)
  BY <1>3 DEF Visited
<1>5. ASSUME NEW x \in Visited(m) PROVE Sound(x)
  <2> DEFINE S == {o \in Object : Sound(o)}
  <2>1. S \in SUBSET Object /\ Roots \subseteq S /\ \A y \in S : refs[y] \subseteq S
    BY <1>2, <1>3
  <2>2. x \in S
    BY <2>1 DEF Visited
  <2>3. QED  BY <2>2
<1>6. ASSUME NEW x \in Visited(m), NEW y \in refs[x] PROVE y \in Visited(m)
  <2>1. y \in Object
    BY <1>2, <1>4
  <2>2. ASSUME NEW S \in SUBSET Object, Roots \subseteq S,
               \A z \in S : mark[z] # m => refs[z] \subseteq S
        PROVE  y \in S
    <3>1. x \in S
      BY <2>2 DEF Visited
    <3>2. QED  BY <1>1, <2>2, <3>1
  <2>3. QED  BY <2>1, <2>2 DEF Visited
<1>7. ASSUME NEW x \in Visited(m) PROVE x \in Needed
  <2> DEFINE starts == (Roots \cup {jstack, javaLangClassArray} \cup {held[t] : t \in Thread})
                         \ {NULL}
  <2>1. ASSUME NEW S \in SUBSET Object, starts \subseteq S, \A y \in S : refs[y] \subseteq S
        PROVE  x \in S
    <3>1. Roots \subseteq S
      BY <1>3, <2>1
    <3>2. QED  BY <2>1, <3>1 DEF Visited
  <2>2. QED  BY <1>4, <2>1 DEF Needed
<1>8. QED  BY <1>4, <1>5, <1>6, <1>7

LEMMA CollectInv == ASSUME GInv, Collect PROVE GInv'
<1> DEFINE m == NextMarkValue
           V == Visited(m)
<1>1. /\ pc = "alloc" /\ Free = {} /\ pc' = "retry" /\ markValue' = m /\ refs' = refs
      /\ mark' = [o \in Object |-> IF o \in V THEN m ELSE mark[o]]
      /\ type' = [o \in Object |-> IF type[o] = "used" /\ mark'[o] # m THEN "free" ELSE type[o]]
      /\ UNCHANGED <<static, startup, stack, threads, doing, held, base, call>>
      /\ lost' \in BOOLEAN /\ (~ lost' => ~ lost /\ ClassesAreKept' /\ ExceptionIsKept')
  BY DEF Collect, markAndSweep, GInv, Shape, TypeOK
<1>2. /\ V \subseteq Object /\ Roots \subseteq V /\ V \subseteq Needed
      /\ \A x \in V : Sound(x) /\ refs[x] \subseteq V
  BY <1>1, VisitedFacts
<1>3. /\ m \in MarkValue /\ m % 2 = 1 /\ m # 0 /\ m # markValue
  BY NextMark DEF GInv, Shape, TypeOK, MarksOnTrack
<1>4. /\ \A t \in Thread : \A i \in 1 .. Len(stack[t]) : stack[t][i] \in V
      /\ \A f \in Field : static[f] # NULL => static[f] \in V
  BY <1>2, RootsFacts DEF GInv
<1> HIDE DEF m, V
<1>5. \A o \in Object : /\ type[o] \in {"used", "protected"} /\ mark[o] # m
                        /\ type[o] = "protected" => mark[o] = 0
  BY <1>1, <1>3 DEF Free, GInv, Shape, TypeOK, MarksOnTrack
<1>6. \A o \in Object :
        /\ type'[o] = IF type[o] = "used" /\ o \notin V THEN "free" ELSE type[o]
        /\ mark'[o] = IF o \in V THEN m ELSE mark[o]
  BY <1>1, <1>5
<1>7. Shape'
  <2>1. type' \in [Object -> {"free", "used", "protected"}]
    BY <1>1, <1>5
  <2>2. mark' \in [Object -> MarkValue]
    BY <1>1, <1>3 DEF GInv, Shape, TypeOK
  <2>3. QED  BY <1>1, <1>3, <2>1, <2>2 DEF GInv, Shape, TypeOK, startup, threads
<1>8. \A o \in Object : StartupBlock(o)' => StartupBlock(o)
  BY <1>1, <1>6 DEF StartupBlock, startup
<1>9. \A o \in V : Sound(o)'
  <2>1. \A o \in V : o \in Object /\ ~ StartupBlock(o) /\ (~ lost => type[o] = "used")
    BY <1>2 DEF Sound
  <2>2. QED  BY <1>1, <1>6, <1>8, <2>1 DEF Sound
<1>10. ReferToSound'
  <2>1. ASSUME ~ lost', NEW o \in Object, type'[o] # "free", NEW x \in refs[o]
        PROVE  type'[x] = "used"
    <3>1. x \in Object /\ type[x] = "used"
      BY <1>1, <1>5, <2>1 DEF GInv, ReferToSound, Shape, TypeOK
    <3>2. CASE o \in V
      BY <1>2, <1>6, <3>1, <3>2
    <3>3. CASE o \notin V
      <4>1. type[o] = "protected"
        BY <1>5, <1>6, <2>1, <3>3
      <4>2. doing[main] = "newClass" /\ o = javaLangClassArray
        BY <2>1, <4>1 DEF GInv, ProtectedRefersToNone
      <4>3. x \notin Free'
        BY <1>1, <2>1, <4>2 DEF ClassesAreKept, startup
      <4>4. QED  BY <1>6, <3>1, <4>3 DEF Free
    <3>4. QED  BY <3>2, <3>3
  <2>2. \A t \in Thread : \A i \in 1 .. Len(stack[t]) : Sound(stack[t][i])'
    BY <1>1, <1>4, <1>9
  <2>3. \A f \in Field : static[f] # NULL => Sound(static[f])'
    BY <1>1, <1>4, <1>9
  <2>4. \A o \in Object : \A x \in refs[o] : ~ StartupBlock(x)'
    BY <1>8 DEF GInv, ReferToSound, Shape, TypeOK
  <2>5. ASSUME NEW t \in Thread, doing[t] \in {"constructor", "constructed"}
        PROVE  Sound(held[t])'
    <3>1. CASE doing[t] = "constructor"
      <4>1. base[t] < Len(stack[t]) /\ stack[t][base[t] + 1] = held[t]
        BY <3>1 DEF GInv, HeldOnTrack
      <4>2. base[t] + 1 \in 1 .. Len(stack[t])
        BY <4>1 DEF GInv, Shape, TypeOK
      <4>3. held[t] \in V
        BY <1>4, <4>1, <4>2
      <4>4. QED  BY <1>1, <1>9, <4>3
    <3>2. CASE doing[t] = "constructed"
      <4>1. Sound(held[t])
        BY <3>2 DEF GInv, ReferToSound
      <4>2. held[t] \in Object /\ ~ StartupBlock(held[t]) /\ (~ lost => type[held[t]] = "used")
        BY <4>1 DEF Sound
      <4>3. ~ StartupBlock(held[t])'
        BY <1>1, <1>8, <4>2 DEF StartupBlock, startup
      <4>4. ~ lost' => held[t] \notin Free'
        BY <1>1, <3>2 DEF ExceptionIsKept
      <4>5. ~ lost' => type'[held[t]] = "used"
        BY <1>1, <1>6, <4>2, <4>4 DEF Free
      <4>6. QED  BY <1>1, <4>2, <4>3, <4>5 DEF Sound
    <3>3. QED  BY <2>5, <3>1, <3>2
  <2>6. QED  BY <1>1, <2>1, <2>2, <2>3, <2>4, <2>5 DEF ReferToSound
<1>11. MarksOnTrack'
  <2>1. ASSUME NEW o \in Object, type'[o] = "protected", mark'[o] # 0
        PROVE  doing[cur] = "newString" /\ o = held[cur]
    <3>1. type[o] = "protected" /\ o \in V
      BY <1>5, <1>6, <2>1
    <3>2. ~ StartupBlock(o)
      BY <1>2, <3>1 DEF Sound
    <3>3. PICK t \in Thread : o = held[t] /\ doing[t] = "newString"
      BY <3>1, <3>2 DEF GInv, ProtectionEnds, StartupBlock
    <3>4. QED  BY <3>3 DEF GInv, HeldOnTrack
  <2>2. \A o \in Object : type'[o] # "free" => mark'[o] \in {0, m}
    BY <1>5, <1>6
  <2>3. QED  BY <1>1, <1>3, <2>1, <2>2 DEF MarksOnTrack, threads
<1>12. ProtectedRefersToNone'
  BY <1>1, <1>6 DEF GInv, ProtectedRefersToNone, startup
<1>13. BeforeScheduling'
  BY <1>1 DEF GInv, BeforeScheduling, threads
<1>14. HeldOnTrack'
  <2>1. ASSUME NEW t \in Thread, doing[t] = "newString"
        PROVE  type'[held[t]] = "protected"
    <3>1. held[t] \in Object /\ type[held[t]] = "protected"
      BY <2>1 DEF GInv, HeldOnTrack, Shape, TypeOK, Holding
    <3>2. QED  BY <1>6, <3>1
  <2>2. HeldOnTrack
    BY DEF GInv
  <2>3. QED  BY <1>1, <2>1, <2>2 DEF HeldOnTrack, startup, threads
<1>15. StartupOnTrack'
  <2>1. \A o \in Object : type[o] = "protected" => type'[o] = "protected"
    BY <1>6
  <2>2. \A f \in Field : static[f] \in Object /\ type[static[f]] = "used" => type'[static[f]] = "used"
    BY <1>4, <1>6 DEF GInv, Shape, TypeOK
  <2>3. StartupOnTrack /\ {jstack, javaLangClassArray} \subseteq Object \cup {NULL}
    BY DEF GInv, Shape, TypeOK
  <2>4. QED  BY <1>1, <2>1, <2>2, <2>3 DEF StartupOnTrack, startup, threads, Field
<1>16. CallOnTrack'
  BY <1>1 DEF GInv, CallOnTrack, startup, threads
<1>17. ProtectionEnds'
  BY <1>1, <1>6 DEF GInv, ProtectionEnds, startup, threads
<1>18. CollectedAll'
  <2>1. Needed' = Needed
    BY <1>1 DEF Needed, Roots, startup, threads
  <2>2. QED  BY <1>2, <1>6, <2>1 DEF CollectedAll
<1>19. QED
  BY <1>7, <1>10, <1>11, <1>12, <1>13, <1>14, <1>15, <1>16, <1>17, <1>18 DEF GInv

\* A call begins: nothing has happened yet.
LEMMA RequestInv ==
  ASSUME GInv, NEW what, Request(what), UNCHANGED <<header, markValue, static, startup, stack,
         threads, doing, held, base, lost>>,
         doing[main] = "newClass" => classes < NClasses
  PROVE  GInv'
<1>1. pc = "idle" /\ pc' = "alloc"
  BY DEF Request
<1>2. Shape'
  BY <1>1 DEF GInv, Shape, TypeOK, header, startup, threads
<1>3. /\ ReferToSound' /\ ProtectedRefersToNone' /\ BeforeScheduling'
  BY DEF GInv, ReferToSound, Sound, StartupBlock, ProtectedRefersToNone, BeforeScheduling, header,
         startup, threads
<1>4. MarksOnTrack'
  BY <1>1 DEF GInv, MarksOnTrack, header
<1>5. /\ HeldOnTrack' /\ StartupOnTrack' /\ ProtectionEnds'
  BY DEF GInv, HeldOnTrack, StartupOnTrack, ProtectionEnds, header, startup, threads
<1>6. CallOnTrack' /\ CollectedAll'
  BY <1>1 DEF CallOnTrack, CollectedAll, startup, threads
<1>7. QED  BY <1>2, <1>3, <1>4, <1>5, <1>6 DEF GInv

-----------------------------------------------------------------------------
(* Instructions                                                            *)

LEMMA Basics ==
  ASSUME GInv
  PROVE  /\ cur \in Thread /\ main \in Thread /\ NULL \notin Object
         /\ \A t \in Thread : stack[t] \in Seq(Object) /\ Len(stack[t]) \in Nat
                             /\ \A i \in 1 .. Len(stack[t]) : stack[t][i] \in Object
         /\ \A t \in Thread : base[t] \in Nat /\ base[t] <= Len(stack[t])
                             /\ held[t] \in Object \cup {NULL}
         /\ \A f \in Field : static[f] \in Object \cup {NULL}
         /\ jstack \in Object \cup {NULL} /\ javaLangClassArray \in Object \cup {NULL}
         /\ \A o \in Object : refs[o] \subseteq Object
         /\ \A o \in Object : Sound(o) =>
              o # NULL /\ ~ StartupBlock(o) /\ (~ lost => type[o] = "used")
  BY DEF GInv, Shape, TypeOK, Sound

\* While a thread is at its instructions, the startup alone protects anything.
LEMMA ProtectedInJava ==
  ASSUME GInv, doing[cur] # "newString"
  PROVE  /\ \A o \in Object : type[o] = "protected" => StartupBlock(o) /\ mark[o] = 0
         /\ \A t \in Thread : doing[t] # "newString"
<1>1. \A t \in Thread : doing[t] # "newString"
  BY DEF GInv, HeldOnTrack
<1>2. QED  BY <1>1 DEF GInv, ProtectionEnds, StartupBlock, MarksOnTrack

\* An instruction changes the current stack to s; what it stores is sound.
LEMMA InstructionInv ==
  ASSUME GInv, Instruction, NEW s \in Seq(Object), stack' = [stack EXCEPT ![cur] = s],
         \A i \in 1 .. Len(s) : Sound(s[i]),
         doing[cur] = "constructor" => base[cur] < Len(s) /\ s[base[cur] + 1] = held[cur],
         static' \in [Field -> Object \cup {NULL}],
         \A f \in Field : static'[f] # NULL => Sound(static'[f]),
         \A f \in {"aAllClasses", "aAllThreads"} : static'[f] = static[f],
         refs' \in [Object -> SUBSET Object],
         \A x \in Object : \A y \in refs'[x] :
           ~ StartupBlock(y) /\ (~ lost /\ type[x] # "free" => type[y] = "used"),
         \A o \in Object : type[o] = "protected" => refs'[o] = refs[o]
  PROVE  GInv'
<1>1. /\ doing[cur] \in {"java", "constructor"} /\ pc = "idle"
      /\ UNCHANGED <<type, mark, doing, held, base, call, pc, markValue, startup, threads, lost>>
      /\ UNCHANGED <<jstack, javaLangClassArray, classes, cur, scheduling>>
  BY DEF Instruction, InJava, startup, threads
<1>2. stack'[cur] = s /\ \A t \in Thread \ {cur} : stack'[t] = stack[t]
  BY Basics DEF GInv, Shape, TypeOK
<1>3. stack' \in [Thread -> Seq(Object)]
  BY DEF GInv, Shape, TypeOK
<1>4. base[cur] <= Len(s)
  BY <1>1, Basics DEF GInv, HeldOnTrack
<1>5. Shape'
  <2>1. \A t \in Thread : base[t] \in 0 .. Len(stack'[t])
    BY <1>2, <1>4, Basics
  <2>2. QED  BY <1>1, <1>3, <2>1 DEF GInv, Shape, TypeOK
<1>6. ReferToSound'
  <2>1. \A t \in Thread : \A i \in 1 .. Len(stack'[t]) : Sound(stack'[t][i])
    BY <1>2 DEF GInv, ReferToSound
  <2>2. QED  BY <1>1, <2>1 DEF GInv, ReferToSound, Sound, StartupBlock
<1>7. MarksOnTrack' /\ ProtectedRefersToNone' /\ ProtectionEnds'
  BY <1>1 DEF GInv, MarksOnTrack, ProtectedRefersToNone, ProtectionEnds
<1>8. BeforeScheduling'
  <2>1. \A t \in Thread : doing[t] \in Startup => t # cur
    BY <1>1 DEF Startup
  <2>2. QED  BY <1>1, <1>2, <2>1 DEF GInv, BeforeScheduling
<1>9. HeldOnTrack'
  BY <1>1, <1>2 DEF GInv, HeldOnTrack
<1>10. StartupOnTrack'
  <2>1. static'["aAllClasses"] = static["aAllClasses"] /\ static'["aAllThreads"] = static["aAllThreads"]
    OBVIOUS
  <2>2. doing[main] \notin Startup
    BY <1>1, Basics DEF GInv, BeforeScheduling, Startup
  <2>3. QED  BY <1>1, <2>1, <2>2 DEF GInv, StartupOnTrack, Startup
<1>11. CallOnTrack' /\ CollectedAll'
  BY <1>1 DEF CallOnTrack, CollectedAll
<1>12. QED  BY <1>5, <1>6, <1>7, <1>8, <1>9, <1>10, <1>11 DEF GInv

\* The stack without its top, which holds the exception of a constructor still.
LEMMA PoppedFacts ==
  ASSUME GInv, Instruction, Poppable
  PROVE  LET s == Front(stack[cur])
         IN /\ s \in Seq(Object) /\ \A i \in 1 .. Len(s) : Sound(s[i])
            /\ doing[cur] = "constructor" => base[cur] < Len(s) /\ s[base[cur] + 1] = held[cur]
            /\ Top \in Object /\ Sound(Top)
<1> DEFINE n == Len(stack[cur])
           s == SubSeq(stack[cur], 1, n - 1)
<1>1. /\ stack[cur] \in Seq(Object) /\ n \in Nat /\ n > 0 /\ base[cur] \in Nat
      /\ doing[cur] = "constructor" => n > base[cur] + 1
  BY Basics DEF Poppable
<1>2. Top = stack[cur][n] /\ n \in 1 .. n /\ Front(stack[cur]) = s
  BY <1>1, TopFacts DEF Top
<1>3. s \in Seq(Object) /\ Len(s) = n - 1 /\ \A i \in 1 .. n - 1 : s[i] = stack[cur][i]
  <2>1. n - 1 \in 0 .. n
    BY <1>1
  <2>2. QED  BY <1>1, <2>1, ShorterFacts
<1>4. \A i \in 1 .. n : stack[cur][i] \in Object /\ Sound(stack[cur][i])
  BY Basics DEF GInv, ReferToSound
<1>5. doing[cur] = "constructor" => stack[cur][base[cur] + 1] = held[cur]
  BY Basics DEF GInv, HeldOnTrack
<1> HIDE DEF s, n
<1>6. \A i \in 1 .. Len(s) : Sound(s[i])
  BY <1>1, <1>3, <1>4
<1>7. doing[cur] = "constructor" => base[cur] < Len(s) /\ s[base[cur] + 1] = held[cur]
  BY <1>1, <1>3, <1>5
<1>8. QED  BY <1>2, <1>3, <1>4, <1>6, <1>7

\* The stack with one more object on top.
LEMMA PushedFacts ==
  ASSUME GInv, NEW o \in Object, Sound(o)
  PROVE  LET s == Append(stack[cur], o)
         IN /\ s \in Seq(Object) /\ \A i \in 1 .. Len(s) : Sound(s[i])
            /\ doing[cur] = "constructor" => base[cur] < Len(s) /\ s[base[cur] + 1] = held[cur]
<1> DEFINE n == Len(stack[cur])
           s == Append(stack[cur], o)
<1>1. stack[cur] \in Seq(Object) /\ n \in Nat /\ base[cur] \in Nat
  BY Basics
<1>2. /\ s \in Seq(Object) /\ Len(s) = n + 1 /\ s[n + 1] = o
      /\ \A i \in 1 .. n : s[i] = stack[cur][i]
  BY <1>1, PushFacts
<1>3. \A i \in 1 .. n : Sound(stack[cur][i])
  BY Basics DEF GInv, ReferToSound
<1>4. doing[cur] = "constructor" => base[cur] < n /\ stack[cur][base[cur] + 1] = held[cur]
  BY Basics DEF GInv, HeldOnTrack
<1> HIDE DEF s, n
<1>5. \A i \in 1 .. Len(s) : Sound(s[i])
  <2>1. \A i \in 1 .. n + 1 : i \in 1 .. n \/ i = n + 1
    BY <1>1
  <2>2. QED  BY <1>2, <1>3, <2>1
<1>6. QED  BY <1>1, <1>2, <1>4, <1>5 DEF s

LEMMA MemoryFacts ==
  ASSUME GInv
  PROVE  /\ static \in [Field -> Object \cup {NULL}]
         /\ \A f \in Field : static[f] # NULL => Sound(static[f])
         /\ refs \in [Object -> SUBSET Object]
         /\ \A x \in Object : \A y \in refs[x] :
              ~ StartupBlock(y) /\ (~ lost /\ type[x] # "free" => type[y] = "used")
  BY DEF GInv, Shape, TypeOK, ReferToSound

LEMMA PopRefInv == GInv /\ PopRef => GInv'
<1> SUFFICES ASSUME GInv, PopRef PROVE GInv'
  OBVIOUS
<1>1. Instruction /\ Poppable /\ UNCHANGED <<static, refs>>
      /\ stack' = [stack EXCEPT ![cur] = Front(stack[cur])]
  BY DEF PopRef
<1>2. QED  BY <1>1, PoppedFacts, MemoryFacts, InstructionInv

LEMMA GetfieldInv == GInv /\ getfield => GInv'
<1> SUFFICES ASSUME GInv, getfield PROVE GInv'
  OBVIOUS
<1>1. PICK o \in refs[Top] : stack' = [stack EXCEPT ![cur] = Append(stack[cur], o)]
  BY DEF getfield, Push
<1>2. Instruction /\ Len(stack[cur]) > 0 /\ UNCHANGED <<static, refs>>
  BY DEF getfield
<1>3. Top \in Object /\ Sound(Top)
  <2>1. Top = stack[cur][Len(stack[cur])] /\ Len(stack[cur]) \in 1 .. Len(stack[cur])
    BY <1>2, Basics, TopFacts DEF Top
  <2>2. QED  BY <2>1, Basics DEF GInv, ReferToSound
<1>4. o \in Object /\ Sound(o)
  BY <1>3, MemoryFacts DEF Sound
<1>5. QED  BY <1>1, <1>2, <1>4, PushedFacts, MemoryFacts, InstructionInv

LEMMA PutfieldInv == GInv /\ putfield => GInv'
<1> SUFFICES ASSUME GInv, putfield PROVE GInv'
  OBVIOUS
<1> DEFINE o == stack[cur][Len(stack[cur]) - 1]
<1>1. /\ Instruction /\ Poppable /\ Len(stack[cur]) > 1 /\ static' = static
      /\ refs' = [refs EXCEPT ![o] = {Top}] /\ stack' = [stack EXCEPT ![cur] = Front(stack[cur])]
  BY DEF putfield
<1>2. o \in Object /\ Sound(o)
  <2>1. Len(stack[cur]) - 1 \in 1 .. Len(stack[cur])
    BY <1>1, Basics
  <2>2. QED  BY <2>1, Basics DEF GInv, ReferToSound
<1>3. Top \in Object /\ Sound(Top)
  BY <1>1, PoppedFacts
<1> HIDE DEF o
<1>4. /\ refs' \in [Object -> SUBSET Object]
      /\ refs'[o] = {Top} /\ \A x \in Object \ {o} : refs'[x] = refs[x]
  BY <1>1, <1>2, <1>3, MemoryFacts
<1>5. \A x \in Object : \A y \in refs'[x] :
        ~ StartupBlock(y) /\ (~ lost /\ type[x] # "free" => type[y] = "used")
  BY <1>3, <1>4, Basics, MemoryFacts
<1>6. \A x \in Object : type[x] = "protected" => refs'[x] = refs[x]
  <2>1. doing[cur] # "newString"
    BY <1>1 DEF Instruction, InJava
  <2>2. QED  BY <1>2, <1>4, <2>1, Basics, ProtectedInJava
<1>7. QED  BY <1>1, <1>4, <1>5, <1>6, PoppedFacts, MemoryFacts, InstructionInv

LEMMA GetstaticInv == GInv /\ getstatic => GInv'
<1> SUFFICES ASSUME GInv, getstatic PROVE GInv'
  OBVIOUS
<1> DEFINE o == static["field"]
<1>1. /\ Instruction /\ o # NULL /\ UNCHANGED <<static, refs>>
      /\ stack' = [stack EXCEPT ![cur] = Append(stack[cur], o)]
  BY DEF getstatic, Push
<1>2. o \in Object /\ Sound(o)
  BY <1>1, MemoryFacts DEF Field
<1>3. QED  BY <1>1, <1>2, PushedFacts, MemoryFacts, InstructionInv

LEMMA PutstaticInv == GInv /\ putstatic => GInv'
<1> SUFFICES ASSUME GInv, putstatic PROVE GInv'
  OBVIOUS
<1>1. /\ Instruction /\ Poppable /\ refs' = refs
      /\ static' = [static EXCEPT !["field"] = Top]
      /\ stack' = [stack EXCEPT ![cur] = Front(stack[cur])]
  BY DEF putstatic
<1>2. Top \in Object /\ Sound(Top)
  BY <1>1, PoppedFacts
<1>3. /\ static' \in [Field -> Object \cup {NULL}]
      /\ \A f \in Field : static'[f] # NULL => Sound(static'[f])
      /\ \A f \in {"aAllClasses", "aAllThreads"} : static'[f] = static[f]
  BY <1>1, <1>2, MemoryFacts DEF Field
<1>4. QED  BY <1>1, <1>3, PoppedFacts, MemoryFacts, InstructionInv

-----------------------------------------------------------------------------
(* Allocation                                                              *)

\* Main's stack and the class array are never free, nor is a String whose char[]
\* is awaited.
LEMMA FreshFacts ==
  ASSUME GInv, NEW o \in Free
  PROVE  /\ o \in Object /\ type[o] = "free" /\ o # jstack /\ o # javaLangClassArray
         /\ \A t \in Thread : doing[t] = "newString" => o # held[t]
<1>1. o \in Object /\ type[o] = "free" /\ o # NULL
  BY DEF Free
<1>2. o # jstack
  BY <1>1 DEF GInv, StartupOnTrack
<1>3. o # javaLangClassArray
  BY <1>1, Basics DEF GInv, StartupOnTrack, Startup
<1>4. \A t \in Thread : doing[t] = "newString" => o # held[t]
  BY <1>1 DEF GInv, HeldOnTrack
<1>5. QED  BY <1>1, <1>2, <1>3, <1>4

\* Payloads refer to what they may after a step.
PayloadsSound ==
  \A x \in Object : \A y \in refs[x] :
    ~ StartupBlock(y) /\ (~ lost /\ type[x] # "free" => type[y] = "used")

\* No block has a mark of an earlier collection, and no protected one any mark.
MarksCleared ==
  /\ \A x \in Object : type[x] # "free" => mark[x] \in {0, markValue}
  /\ \A x \in Object : type[x] = "protected" => mark[x] = 0

LEMMA HeaderFacts ==
  ASSUME GInv, doing[cur] # "newString", NEW o \in Free, NEW ty \in {"used", "protected"},
         NewHeader(o, ty), UNCHANGED <<markValue, lost>>,
         {jstack', javaLangClassArray'} \subseteq {jstack, javaLangClassArray, o},
         o \in {jstack', javaLangClassArray'} => \A x \in Object : refs[x] = {}
  PROVE  /\ type' \in [Object -> {"free", "used", "protected"}]
         /\ mark' \in [Object -> MarkValue] /\ refs' \in [Object -> SUBSET Object]
         /\ type'[o] = ty /\ refs'[o] = {}
         /\ \A x \in Object \ {o} : type'[x] = type[x] /\ refs'[x] = refs[x]
         /\ PayloadsSound' /\ MarksCleared'
<1>1. o \in Object /\ type[o] = "free" /\ o \notin {jstack, javaLangClassArray}
  BY FreshFacts
<1>2. /\ type \in [Object -> {"free", "used", "protected"}]
      /\ mark \in [Object -> MarkValue] /\ refs \in [Object -> SUBSET Object]
      /\ markValue \in MarkValue /\ 0 \in MarkValue
  <2>1. 2 ^ MARK_BIT_SIZE - 1 \in Nat
    BY MarkBitsAssumption
  <2>2. QED  BY <2>1 DEF GInv, Shape, TypeOK, MarkValue
<1>3. /\ type' = [type EXCEPT ![o] = ty] /\ mark' = [mark EXCEPT ![o] = 0]
      /\ refs' = [refs EXCEPT ![o] = {}]
  BY DEF NewHeader
<1>4. /\ type' \in [Object -> {"free", "used", "protected"}]
      /\ mark' \in [Object -> MarkValue] /\ refs' \in [Object -> SUBSET Object]
      /\ type'[o] = ty /\ refs'[o] = {} /\ mark'[o] = 0
      /\ \A x \in Object \ {o} : type'[x] = type[x] /\ refs'[x] = refs[x] /\ mark'[x] = mark[x]
  BY <1>1, <1>2, <1>3
<1>5. PayloadsSound'
  <2>1. ASSUME NEW x \in Object, NEW y \in refs'[x]
        PROVE  ~ StartupBlock(y)' /\ (~ lost' /\ type'[x] # "free" => type'[y] = "used")
    <3>1. x # o /\ y \in refs[x] /\ y \in Object
      BY <1>2, <1>4, <2>1
    <3>2. ~ StartupBlock(y) /\ (~ lost /\ type[x] # "free" => type[y] = "used")
      BY <3>1, MemoryFacts
    <3>3. ~ StartupBlock(y)'
      BY <1>1, <1>4, <3>1, <3>2 DEF StartupBlock
    <3>4. QED  BY <1>1, <1>4, <3>1, <3>2, <3>3
  <2>2. QED  BY <2>1 DEF PayloadsSound
<1>6. MarksCleared'
  BY <1>1, <1>4, ProtectedInJava DEF GInv, MarksOnTrack, MarksCleared
<1>7. QED  BY <1>4, <1>5, <1>6

\* The memory after a step of the current thread: used blocks stay used, and only
\* the block its C code held may be released from protection.
MemoryKept ==
  /\ UNCHANGED <<markValue, static, startup, threads, lost>>
  /\ type' \in [Object -> {"free", "used", "protected"}]
  /\ mark' \in [Object -> MarkValue] /\ refs' \in [Object -> SUBSET Object]
  /\ PayloadsSound' /\ MarksCleared'
  /\ \A x \in Object : type[x] = "used" => type'[x] = "used"
  /\ \A x \in Object : type[x] = "protected" /\ x # held[cur] => type'[x] = "protected"
  /\ \A x \in Object : type'[x] = "protected" => refs'[x] = {}

\* o is sound after the step.
SoundAfter(o) ==
  /\ o \in Object /\ ~ (o \in {jstack', javaLangClassArray'} /\ type'[o] = "protected")
  /\ ~ lost' => type'[o] = "used"

\* The current thread comes to have s on its stack, and its C code, doing d, to
\* hold h above b references.
Arrives(s, d, h, b) ==
  /\ s \in Seq(Object) /\ \A i \in 1 .. Len(s) : SoundAfter(s[i])
  /\ d \in Holding \cup {"java"} /\ h \in Object \cup {NULL} /\ b \in 0 .. Len(s)
  /\ stack' = [stack EXCEPT ![cur] = s] /\ doing' = [doing EXCEPT ![cur] = d]
  /\ held' = [held EXCEPT ![cur] = h] /\ base' = [base EXCEPT ![cur] = b]
  /\ d \in Holding <=> h # NULL
  /\ d = "newString" => type'[h] = "protected" /\ h \notin {jstack, javaLangClassArray}
  /\ d \in {"constructor", "constructed"} => SoundAfter(h)
  /\ d = "constructor" => b < Len(s) /\ s[b + 1] = h
  /\ d # "constructor" => b = 0
  /\ \A x \in Object : type'[x] = "protected" =>
       (type[x] = "protected" /\ x # held[cur]) \/ (x = h /\ d = "newString")

\* What was sound stays so in a step that keeps the memory and protects no block
\* of the startup.
LEMMA SoundKept ==
  ASSUME MemoryKept, \A x \in Object : StartupBlock(x)' => StartupBlock(x),
         NEW o, Sound(o)
  PROVE  SoundAfter(o)
  BY DEF MemoryKept, Sound, SoundAfter, StartupBlock

\* A step of a thread past the startup that ends outside of a call.
LEMMA ThreadInv ==
  ASSUME GInv, doing[cur] \notin Startup, pc' = "idle", MemoryKept,
         NEW s, NEW d, NEW h, NEW b, Arrives(s, d, h, b)
  PROVE  GInv'
<1> USE DEF MemoryKept, Arrives
<1>1. /\ stack'[cur] = s /\ doing'[cur] = d /\ held'[cur] = h /\ base'[cur] = b
      /\ \A t \in Thread \ {cur} : /\ stack'[t] = stack[t] /\ doing'[t] = doing[t]
                                  /\ held'[t] = held[t] /\ base'[t] = base[t]
  BY DEF GInv, Shape, TypeOK
<1>2. doing[main] \notin Startup /\ doing'[main] \notin Startup
  BY <1>1, Basics DEF GInv, BeforeScheduling, Startup, Holding
<1>3. UNCHANGED <<static, jstack, javaLangClassArray, classes, cur, scheduling>>
  BY DEF startup, threads
<1>4. Shape'
  <2>1. /\ stack' \in [Thread -> Seq(Object)] /\ held' \in [Thread -> Object \cup {NULL}]
        /\ doing' \in [Thread -> Startup \cup Holding \cup {"java"}]
        /\ base' \in [Thread -> Nat]
    BY DEF GInv, Shape, TypeOK
  <2>2. \A t \in Thread : base'[t] \in 0 .. Len(stack'[t])
    BY <1>1, Basics
  <2>3. QED  BY <1>3, <2>1, <2>2 DEF GInv, Shape, TypeOK
<1>5. \A x \in Object : StartupBlock(x)' => StartupBlock(x)
  BY <1>3 DEF StartupBlock
<1>6. ReferToSound'
  <2>1. \A t \in Thread : \A i \in 1 .. Len(stack'[t]) : SoundAfter(stack'[t][i])
    <3>1. ASSUME NEW t \in Thread \ {cur}, NEW i \in 1 .. Len(stack[t]) PROVE SoundAfter(stack[t][i])
      <4>1. Sound(stack[t][i])
        BY DEF GInv, ReferToSound
      <4>2. QED  BY <1>1, <1>5, <4>1, SoundKept
    <3>2. QED  BY <1>1, <3>1
  <2>2. \A f \in Field : static[f] # NULL => SoundAfter(static[f])
    BY <1>3, <1>5, MemoryFacts, SoundKept
  <2>3. ASSUME NEW t \in Thread, doing'[t] \in {"constructor", "constructed"} PROVE SoundAfter(held'[t])
    <3>1. CASE t # cur
      <4>1. Sound(held[t])
        BY <1>1, <2>3, <3>1 DEF GInv, ReferToSound
      <4>2. QED  BY <1>1, <1>5, <3>1, <4>1, SoundKept
    <3>2. QED  BY <1>1, <2>3, <3>1
  <2>4. QED  BY <1>3, <2>1, <2>2, <2>3 DEF ReferToSound, PayloadsSound, Sound, SoundAfter, StartupBlock
<1>7. MarksOnTrack' /\ ProtectedRefersToNone'
  BY DEF GInv, MarksOnTrack, MarksCleared, ProtectedRefersToNone
<1>8. BeforeScheduling'
  <2>1. ASSUME NEW t \in Thread, doing'[t] \in Startup PROVE ~ scheduling /\ stack'[t] = <<>>
    <3>1. t # cur
      BY <1>1, <2>1 DEF Startup, Holding
    <3>2. QED  BY <1>1, <2>1, <3>1 DEF GInv, BeforeScheduling
  <2>2. QED  BY <1>1, <1>3, <2>1 DEF GInv, BeforeScheduling
<1>9. HeldOnTrack'
  <2>1. ASSUME NEW t \in Thread \ {cur}
        PROVE  /\ doing[t] \in Holding <=> held[t] # NULL
               /\ doing[t] # "newString"
               /\ doing[t] = "constructor" => base[t] < Len(stack[t]) /\ stack[t][base[t] + 1] = held[t]
               /\ doing[t] # "constructor" => base[t] = 0
    BY <2>1, Basics DEF GInv, HeldOnTrack, Holding
  <2>2. QED  BY <1>1, <1>3, <2>1 DEF HeldOnTrack
<1>10. StartupOnTrack'
  <2>1. held[cur] \in {jstack, javaLangClassArray} => ~ StartupBlock(held[cur]) \/ held[cur] = NULL
    BY Basics DEF GInv, HeldOnTrack, ReferToSound, Sound, Holding
  <2>2. ~ scheduling => jstack # held[cur]
    BY <1>2, <2>1, Basics DEF GInv, StartupOnTrack, Startup, StartupBlock
  <2>3. StartupOnTrack
    BY DEF GInv
  <2>4. QED  BY <1>2, <1>3, <2>2, <2>3, Basics DEF StartupOnTrack, Startup
<1>11. ProtectionEnds'
  <2>1. ASSUME NEW x \in Object, type[x] = "protected", x # held[cur]
        PROVE  x = jstack /\ ~ scheduling
    BY <1>2, <2>1 DEF GInv, ProtectionEnds, HeldOnTrack, Startup
  <2>2. QED  BY <1>1, <1>3, <2>1, Basics DEF ProtectionEnds
<1>12. CallOnTrack' /\ CollectedAll'
  BY DEF CallOnTrack, CollectedAll
<1>13. QED
  BY <1>4, <1>6, <1>7, <1>8, <1>9, <1>10, <1>11, <1>12 DEF GInv

LEMMA StartedFacts ==
  ASSUME GInv, doing[cur] \notin Startup
  PROVE  /\ doing[main] \notin Startup
         /\ \A x \in Object : type[x] = "protected" => refs[x] = {}
         /\ doing[cur] = "java" => held[cur] = NULL /\ base[cur] = 0
         /\ doing[cur] # "newString" =>
              \A x \in Object : type[x] = "protected" => x # held[cur] /\ mark[x] = 0
<1>1. doing[main] \notin Startup
  BY Basics DEF GInv, BeforeScheduling, Startup
<1>2. doing[cur] = "java" => held[cur] = NULL /\ base[cur] = 0
  BY Basics DEF GInv, HeldOnTrack, Holding
<1>3. \A x \in Object : type[x] = "protected" => refs[x] = {}
  BY <1>1 DEF GInv, ProtectedRefersToNone, Startup
<1>4. ASSUME doing[cur] # "newString", NEW x \in Object, type[x] = "protected"
      PROVE  x # held[cur] /\ mark[x] = 0
  <2>1. StartupBlock(x) /\ mark[x] = 0
    BY <1>4, ProtectedInJava
  <2>2. held[cur] = NULL \/ Sound(held[cur])
    BY <1>4, Basics DEF GInv, HeldOnTrack, ReferToSound, Holding
  <2>3. QED  BY <2>1, <2>2, Basics DEF Sound
<1>5. QED  BY <1>1, <1>2, <1>3, <1>4

\* The stack a throw leaves, which has sound references only.
LEMMA LeftFacts ==
  ASSUME GInv, NEW s \in Unwound(stack[cur])
  PROVE  /\ s \in Seq(Object) /\ Len(s) \in Nat
         /\ \A i \in 1 .. Len(s) : s[i] \in Object /\ Sound(s[i])
<1>1. stack[cur] \in Seq(Object) /\ Len(stack[cur]) \in Nat
  BY Basics
<1>2. s \in Seq(Object) /\ Len(s) <= Len(stack[cur]) /\ \A i \in 1 .. Len(s) : s[i] = stack[cur][i]
  BY <1>1, UnwoundFacts
<1>3. \A i \in 1 .. Len(stack[cur]) : stack[cur][i] \in Object /\ Sound(stack[cur][i])
  BY Basics DEF GInv, ReferToSound
<1>4. QED  BY <1>1, <1>2, <1>3

\* o on top of a stack, when all of them are sound after the step.
LEMMA OnTopFacts ==
  ASSUME NEW s \in Seq(Object), NEW o \in Object,
         \A i \in 1 .. Len(s) : SoundAfter(s[i]), SoundAfter(o)
  PROVE  /\ Append(s, o) \in Seq(Object) /\ Len(Append(s, o)) = Len(s) + 1 /\ Len(s) \in Nat
         /\ Append(s, o)[Len(s) + 1] = o /\ \A i \in 1 .. Len(s) : Append(s, o)[i] = s[i]
         /\ \A i \in 1 .. Len(Append(s, o)) : SoundAfter(Append(s, o)[i])
<1> DEFINE u == Append(s, o)
<1>1. /\ u \in Seq(Object) /\ Len(u) = Len(s) + 1 /\ Len(s) \in Nat /\ u[Len(s) + 1] = o
      /\ \A i \in 1 .. Len(s) : u[i] = s[i]
  BY PushFacts
<1> HIDE DEF u
<1>2. \A i \in 1 .. Len(u) : i \in 1 .. Len(s) \/ i = Len(s) + 1
  BY <1>1
<1>3. \A i \in 1 .. Len(u) : SoundAfter(u[i])
  BY <1>1, <1>2
<1>4. QED  BY <1>1, <1>3 DEF u

\* A call that throws OutOfMemoryError: a handler below has the stack now.
LEMMA ThrownInv ==
  ASSUME GInv, doing[cur] = "java", pc' = "idle",
         UNCHANGED <<header, markValue, static, startup, threads, doing, held, base, lost>>,
         NEW s \in Unwound(stack[cur]), stack' = [stack EXCEPT ![cur] = s]
  PROVE  GInv'
<1>1. doing[cur] \notin Startup
  BY DEF Startup
<1>2. /\ \A x \in Object : type[x] = "protected" => refs[x] = {} /\ x # held[cur] /\ mark[x] = 0
      /\ held[cur] = NULL /\ base[cur] = 0
  BY <1>1, StartedFacts
<1>3. UNCHANGED <<type, mark, refs, jstack, javaLangClassArray>>
  BY DEF header, startup
<1>4. MemoryKept
  <2>1. MarksCleared'
    BY <1>2, <1>3 DEF GInv, MarksOnTrack, MarksCleared
  <2>2. PayloadsSound'
    BY <1>3, MemoryFacts DEF PayloadsSound, StartupBlock
  <2>3. QED  BY <1>2, <1>3, <2>1, <2>2 DEF MemoryKept, GInv, Shape, TypeOK
<1>5. s \in Seq(Object) /\ Len(s) \in Nat /\ \A i \in 1 .. Len(s) : SoundAfter(s[i])
  BY <1>3, LeftFacts DEF Sound, SoundAfter, StartupBlock
<1>6. Arrives(s, "java", NULL, 0)
  <2>1. /\ doing' = [doing EXCEPT ![cur] = "java"] /\ held' = [held EXCEPT ![cur] = NULL]
        /\ base' = [base EXCEPT ![cur] = 0]
    BY <1>2 DEF GInv, Shape, TypeOK
  <2>2. 0 \in 0 .. Len(s)
    BY <1>5
  <2>3. QED  BY <1>2, <1>3, <1>5, <2>1, <2>2 DEF Arrives, Holding
<1>7. QED  BY <1>1, <1>4, <1>6, ThreadInv

\* A new object disturbs nothing.
LEMMA NewObjectFacts ==
  ASSUME GInv, doing[cur] \in {"java", "constructor"},
         NEW o \in Free, NEW ty \in {"used", "protected"}, NewHeader(o, ty),
         UNCHANGED <<markValue, static, startup, threads, lost>>
  PROVE  /\ MemoryKept /\ o \in Object /\ o \notin {jstack, javaLangClassArray}
         /\ type'[o] = ty /\ (ty = "used" => SoundAfter(o))
         /\ \A x : Sound(x) => SoundAfter(x)
         /\ \A i \in 1 .. Len(stack[cur]) : SoundAfter(stack[cur][i])
         /\ \A x \in Object : type'[x] = "protected" =>
              (type[x] = "protected" /\ x # held[cur]) \/ (x = o /\ ty = "protected")
<1>1. /\ o \in Object /\ type[o] = "free" /\ o \notin {jstack, javaLangClassArray}
      /\ UNCHANGED <<jstack, javaLangClassArray>>
  BY FreshFacts DEF startup
<1>2. /\ type' \in [Object -> {"free", "used", "protected"}]
      /\ mark' \in [Object -> MarkValue] /\ refs' \in [Object -> SUBSET Object]
      /\ type'[o] = ty /\ refs'[o] = {}
      /\ \A x \in Object \ {o} : type'[x] = type[x] /\ refs'[x] = refs[x]
      /\ PayloadsSound' /\ MarksCleared'
  BY <1>1, HeaderFacts
<1>3. doing[cur] \notin Startup /\ doing[cur] # "newString"
  BY DEF Startup
<1>4. MemoryKept
  BY <1>1, <1>2, <1>3, StartedFacts DEF MemoryKept
<1>5. \A x \in Object : StartupBlock(x)' => StartupBlock(x)
  BY <1>1, <1>2 DEF StartupBlock
<1>6. \A x : Sound(x) => SoundAfter(x)
  BY <1>4, <1>5, SoundKept
<1>7. \A i \in 1 .. Len(stack[cur]) : SoundAfter(stack[cur][i])
  BY <1>6, Basics DEF GInv, ReferToSound
<1>8. \A x \in Object : type'[x] = "protected" =>
        (type[x] = "protected" /\ x # held[cur]) \/ (x = o /\ ty = "protected")
  BY <1>1, <1>2, <1>3, StartedFacts
<1>9. ty = "used" => SoundAfter(o)
  BY <1>1, <1>2 DEF SoundAfter
<1>10. QED  BY <1>1, <1>2, <1>4, <1>6, <1>7, <1>8, <1>9

\* Once a thread is at its instructions or throws, the startup is over.
LEMMA NotStarting == GInv /\ doing[cur] \notin Startup => doing[main] \notin Startup /\ doing[main] # "newClass"
  BY Basics DEF GInv, BeforeScheduling, Startup

LEMMA NewObjectInv == GInv /\ newObject => GInv'
<1> SUFFICES ASSUME GInv, newObject PROVE GInv'
  OBVIOUS
<1>1. /\ doing[cur] \in {"java", "constructor"} /\ doing[cur] \notin Startup
      /\ UNCHANGED <<markValue, startup, threads, static, doing, held, base, lost>>
      /\ doing[main] # "newClass"
  BY NotStarting DEF newObject, InJava, Startup
<1>2. CASE Request("new") /\ UNCHANGED <<header, stack>>
  BY <1>1, <1>2, RequestInv
<1>3. ASSUME NEW o \in Free, Got("new", o), NewHeader(o, "used"), Push(o) PROVE GInv'
  <2> DEFINE u == stack[cur]
             s == Append(u, o)
  <2>1. /\ MemoryKept /\ o \in Object /\ SoundAfter(o) /\ \A x : Sound(x) => SoundAfter(x)
        /\ \A i \in 1 .. Len(u) : SoundAfter(u[i])
        /\ \A x \in Object : type'[x] = "protected" => type[x] = "protected" /\ x # held[cur]
    BY <1>1, <1>3, NewObjectFacts
  <2>2. /\ s \in Seq(Object) /\ Len(s) = Len(u) + 1 /\ Len(u) \in Nat
        /\ \A i \in 1 .. Len(u) : s[i] = u[i]
        /\ \A i \in 1 .. Len(s) : SoundAfter(s[i])
    BY <2>1, Basics, OnTopFacts
  <2> HIDE DEF s
  <2>3. /\ pc' = "idle" /\ stack' = [stack EXCEPT ![cur] = s]
        /\ doing' = [doing EXCEPT ![cur] = doing[cur]]
        /\ held' = [held EXCEPT ![cur] = held[cur]]
        /\ base' = [base EXCEPT ![cur] = base[cur]]
    BY <1>1, <1>3 DEF Got, Push, GInv, Shape, TypeOK, s
  <2>4. /\ base[cur] \in Nat /\ base[cur] <= Len(u) /\ held[cur] \in Object \cup {NULL}
        /\ doing[cur] \in Holding <=> held[cur] # NULL
        /\ doing[cur] = "constructor" => Sound(held[cur])
        /\ doing[cur] = "constructor" => base[cur] < Len(u) /\ u[base[cur] + 1] = held[cur]
        /\ doing[cur] # "constructor" => base[cur] = 0
    BY Basics DEF GInv, HeldOnTrack, ReferToSound
  <2>5. /\ base[cur] \in 0 .. Len(s)
        /\ doing[cur] = "constructor" => base[cur] < Len(s) /\ s[base[cur] + 1] = held[cur]
    <3>1. doing[cur] = "constructor" => base[cur] + 1 \in 1 .. Len(u)
      BY <2>2, <2>4
    <3>2. QED  BY <2>2, <2>4, <3>1
  <2>6. Arrives(s, doing[cur], held[cur], base[cur])
    BY <1>1, <2>1, <2>2, <2>3, <2>4, <2>5 DEF Arrives, Holding
  <2>7. QED  BY <1>1, <2>1, <2>3, <2>6, ThreadInv
<1>4. CASE /\ OutOfMemory("new") /\ doing[cur] = "java" /\ UNCHANGED header
           /\ \E s \in Unwound(stack[cur]) : stack' = [stack EXCEPT ![cur] = s]
  BY <1>1, <1>4, ThrownInv DEF OutOfMemory
<1>5. QED  BY <1>2, <1>3, <1>4 DEF newObject

LEMMA NewStringObjectInv == GInv /\ newStringObject => GInv'
<1> SUFFICES ASSUME GInv, newStringObject PROVE GInv'
  OBVIOUS
<1>1. /\ doing[cur] = "java" /\ doing[cur] \notin Startup /\ doing[cur] \in {"java", "constructor"}
      /\ UNCHANGED <<markValue, startup, threads, static, base, lost>>
      /\ doing[main] # "newClass"
  BY NotStarting DEF newStringObject, InJava, Startup
<1>2. CASE Request("string") /\ UNCHANGED <<header, stack, doing, held>>
  BY <1>1, <1>2, RequestInv
<1>3. ASSUME NEW o \in Free, Got("string", o), NewHeader(o, Protected),
             held' = [held EXCEPT ![cur] = o], doing' = [doing EXCEPT ![cur] = "newString"],
             stack' = stack
      PROVE  GInv'
  <2> DEFINE u == stack[cur]
  <2>1. /\ MemoryKept /\ o \in Object /\ o \notin {jstack, javaLangClassArray}
        /\ type'[o] = "protected" /\ \A i \in 1 .. Len(u) : SoundAfter(u[i])
        /\ \A x \in Object : type'[x] = "protected" =>
             (type[x] = "protected" /\ x # held[cur]) \/ x = o
    BY <1>1, <1>3, NewObjectFacts DEF Protected
  <2>2. base[cur] = 0 /\ u \in Seq(Object) /\ 0 \in 0 .. Len(u)
    BY <1>1, StartedFacts, Basics
  <2>3. pc' = "idle" /\ stack' = [stack EXCEPT ![cur] = u] /\ base' = [base EXCEPT ![cur] = 0]
    BY <1>1, <1>3, <2>2 DEF Got, GInv, Shape, TypeOK
  <2>4. Arrives(u, "newString", o, 0)
    BY <1>3, <2>1, <2>2, <2>3 DEF Arrives, Holding
  <2>5. QED  BY <1>1, <2>1, <2>3, <2>4, ThreadInv
<1>4. CASE /\ OutOfMemory("string") /\ UNCHANGED <<header, doing, held>>
           /\ \E s \in Unwound(stack[cur]) : stack' = [stack EXCEPT ![cur] = s]
  BY <1>1, <1>4, ThrownInv DEF OutOfMemory
<1>5. QED  BY <1>2, <1>3, <1>4 DEF newStringObject

LEMMA NewExceptionInv == GInv /\ newException => GInv'
<1> SUFFICES ASSUME GInv, newException PROVE GInv'
  OBVIOUS
<1>1. /\ doing[cur] = "java" /\ doing[cur] \notin Startup /\ doing[cur] \in {"java", "constructor"}
      /\ UNCHANGED <<markValue, startup, threads, static, lost>> /\ doing[main] # "newClass"
  BY NotStarting DEF newException, InJava, Startup
<1>2. CASE Request("exception") /\ UNCHANGED <<header, stack, doing, held, base>>
  BY <1>1, <1>2, RequestInv
<1>3. ASSUME NEW o \in Free, Got("exception", o), NewHeader(o, "used"), Push(o),
             held' = [held EXCEPT ![cur] = o], base' = [base EXCEPT ![cur] = Len(stack[cur])],
             doing' = [doing EXCEPT ![cur] = "constructor"]
      PROVE  GInv'
  <2> DEFINE u == stack[cur]
             s == Append(u, o)
  <2>1. /\ MemoryKept /\ o \in Object /\ SoundAfter(o)
        /\ \A i \in 1 .. Len(u) : SoundAfter(u[i])
        /\ \A x \in Object : type'[x] = "protected" => type[x] = "protected" /\ x # held[cur]
    BY <1>1, <1>3, NewObjectFacts
  <2>2. /\ s \in Seq(Object) /\ Len(s) = Len(u) + 1 /\ Len(u) \in Nat
        /\ s[Len(u) + 1] = o /\ \A i \in 1 .. Len(s) : SoundAfter(s[i])
    BY <2>1, Basics, OnTopFacts
  <2>3. pc' = "idle" /\ stack' = [stack EXCEPT ![cur] = s]
    BY <1>3 DEF Got, Push
  <2> HIDE DEF s
  <2>4. Len(u) \in 0 .. Len(s) /\ Len(u) < Len(s)
    BY <2>2
  <2>5. Arrives(s, "constructor", o, Len(u))
    BY <1>1, <1>3, <2>1, <2>2, <2>3, <2>4 DEF Arrives, Holding
  <2>6. QED  BY <1>1, <2>1, <2>3, <2>5, ThreadInv
<1>4. QED  BY <1>2, <1>3 DEF newException

\* What the code of NewString holds while the char[] is allocated.
LEMMA NewStringFacts ==
  ASSUME GInv, doing[cur] = "newString"
  PROVE  /\ doing[cur] \notin Startup /\ base[cur] = 0
         /\ held[cur] \in Object /\ held[cur] \notin {jstack, javaLangClassArray}
         /\ type[held[cur]] = "protected" /\ refs[held[cur]] = {}
         /\ \A x \in Object : type[x] = "protected" => refs[x] = {}
         /\ \A x \in Object : type[x] = "protected" /\ x # held[cur] => mark[x] = 0
         /\ doing[main] # "newClass"
<1>1. doing[cur] \notin Startup
  BY DEF Startup
<1>2. /\ base[cur] = 0 /\ held[cur] \in Object /\ held[cur] \notin {jstack, javaLangClassArray}
      /\ type[held[cur]] = "protected"
  BY Basics DEF GInv, HeldOnTrack, Holding
<1>3. \A x \in Object : type[x] = "protected" /\ x # held[cur] => mark[x] = 0
  BY DEF GInv, MarksOnTrack
<1>4. QED  BY <1>1, <1>2, <1>3, StartedFacts, NotStarting

\* The String is pushed on s, and released.
LEMMA PushStringInv ==
  ASSUME GInv, doing[cur] = "newString", pc' = "idle", MemoryKept, base' = base,
         NEW s \in Seq(Object), \A i \in 1 .. Len(s) : SoundAfter(s[i]),
         stack' = [stack EXCEPT ![cur] = Append(s, held[cur])],
         held' = [held EXCEPT ![cur] = NULL], doing' = [doing EXCEPT ![cur] = "java"],
         type'[held[cur]] = "used",
         \A x \in Object : type'[x] = "protected" => type[x] = "protected"
  PROVE  GInv'
<1> DEFINE u == Append(s, held[cur])
<1>1. held[cur] \in Object /\ base[cur] = 0 /\ doing[cur] \notin Startup
  BY NewStringFacts
<1>2. SoundAfter(held[cur])
  BY <1>1 DEF SoundAfter
<1>3. /\ u \in Seq(Object) /\ Len(u) = Len(s) + 1 /\ Len(s) \in Nat
      /\ \A i \in 1 .. Len(u) : SoundAfter(u[i])
  BY <1>1, <1>2, OnTopFacts
<1> HIDE DEF u
<1>4. 0 \in 0 .. Len(u) /\ base' = [base EXCEPT ![cur] = 0]
  BY <1>1, <1>3 DEF GInv, Shape, TypeOK
<1>5. stack' = [stack EXCEPT ![cur] = u]
  BY DEF u
<1>6. Arrives(u, "java", NULL, 0)
  BY <1>3, <1>4, <1>5 DEF Arrives, Holding
<1>7. QED  BY <1>1, <1>6, ThreadInv

LEMMA NewCharArrayInv == GInv /\ newCharArray => GInv'
<1> SUFFICES ASSUME GInv, newCharArray PROVE GInv'
  OBVIOUS
<1> DEFINE h == held[cur]
<1>1. /\ doing[cur] = "newString"
      /\ UNCHANGED <<markValue, static, startup, threads, base, lost>>
      /\ UNCHANGED <<jstack, javaLangClassArray>>
  BY DEF newCharArray, startup
<1>2. /\ h \in Object /\ h \notin {jstack, javaLangClassArray}
      /\ type[h] = "protected" /\ refs[h] = {}
      /\ \A x \in Object : type[x] = "protected" => refs[x] = {}
      /\ \A x \in Object : type[x] = "protected" /\ x # h => mark[x] = 0
      /\ doing[main] # "newClass"
  BY <1>1, NewStringFacts
<1>3. CASE Request("chars") /\ UNCHANGED <<header, stack, doing, held>>
  BY <1>1, <1>2, <1>3, RequestInv
<1>4. ASSUME NEW o \in Free, Got("chars", o), Push(h),
             type' = [type EXCEPT ![o] = "used", ![h] = "used"],
             mark' = [mark EXCEPT ![o] = 0],
             refs' = [refs EXCEPT ![o] = {}, ![h] = {o}],
             held' = [held EXCEPT ![cur] = NULL], doing' = [doing EXCEPT ![cur] = "java"]
      PROVE  GInv'
  <2>1. o \in Object /\ type[o] = "free" /\ o # h /\ o \notin {jstack, javaLangClassArray}
    BY <1>2, FreshFacts
  <2>2. /\ type \in [Object -> {"free", "used", "protected"}]
        /\ mark \in [Object -> MarkValue] /\ refs \in [Object -> SUBSET Object]
        /\ 2 ^ MARK_BIT_SIZE - 1 \in Nat
    BY MarkBitsAssumption DEF GInv, Shape, TypeOK
  <2>3. /\ type'[o] = "used" /\ type'[h] = "used" /\ mark'[o] = 0 /\ refs'[o] = {} /\ refs'[h] = {o}
        /\ \A x \in Object \ {o, h} : type'[x] = type[x] /\ refs'[x] = refs[x]
        /\ \A x \in Object \ {o} : mark'[x] = mark[x]
        /\ type' \in [Object -> {"free", "used", "protected"}]
        /\ mark' \in [Object -> MarkValue] /\ refs' \in [Object -> SUBSET Object]
    BY <1>2, <1>4, <2>1, <2>2 DEF MarkValue
  <2> HIDE DEF h
  <2>4. MarksCleared'
    BY <1>1, <1>2, <2>1, <2>3 DEF GInv, MarksOnTrack, MarksCleared
  <2>5. PayloadsSound'
    <3>1. ASSUME NEW x \in Object \ {o, h}, NEW y \in refs'[x]
          PROVE  /\ ~ (y \in {jstack, javaLangClassArray} /\ type'[y] = "protected")
                 /\ ~ lost /\ type'[x] # "free" => type'[y] = "used"
      <4>1. y \in Object /\ y \in refs[x]
        BY <2>3, <3>1
      <4>2. /\ ~ (y \in {jstack, javaLangClassArray} /\ type[y] = "protected")
            /\ ~ lost /\ type[x] # "free" => type[y] = "used"
        BY <4>1, MemoryFacts DEF StartupBlock
      <4>3. QED  BY <1>2, <2>1, <2>3, <4>1, <4>2
    <3>2. QED  BY <1>1, <2>3, <3>1 DEF PayloadsSound, StartupBlock
  <2>6. MemoryKept
    BY <1>1, <1>2, <2>1, <2>3, <2>4, <2>5 DEF MemoryKept, h
  <2>7. stack[cur] \in Seq(Object) /\ \A i \in 1 .. Len(stack[cur]) : SoundAfter(stack[cur][i])
    <3>1. \A x \in Object : StartupBlock(x)' => StartupBlock(x)
      BY <1>1, <2>1, <2>3 DEF StartupBlock
    <3>2. QED  BY <2>6, <3>1, SoundKept, Basics DEF GInv, ReferToSound
  <2>8. pc' = "idle" /\ stack' = [stack EXCEPT ![cur] = Append(stack[cur], h)]
    BY <1>4 DEF Got, Push
  <2>9. \A x \in Object : type'[x] = "protected" => type[x] = "protected"
    BY <2>3
  <2>10. QED  BY <1>1, <1>4, <2>3, <2>6, <2>7, <2>8, <2>9, PushStringInv DEF h
<1>5. ASSUME OutOfMemory("chars"), type' = [type EXCEPT ![h] = "used"],
             NEW s \in Unwound(stack[cur]), stack' = [stack EXCEPT ![cur] = Append(s, h)],
             held' = [held EXCEPT ![cur] = NULL], doing' = [doing EXCEPT ![cur] = "java"],
             UNCHANGED <<mark, refs>>
      PROVE  GInv'
  <2>1. /\ type \in [Object -> {"free", "used", "protected"}]
        /\ mark \in [Object -> MarkValue] /\ refs \in [Object -> SUBSET Object]
    BY DEF GInv, Shape, TypeOK
  <2>2. /\ type'[h] = "used" /\ \A x \in Object \ {h} : type'[x] = type[x]
        /\ type' \in [Object -> {"free", "used", "protected"}]
    BY <1>2, <1>5, <2>1
  <2> HIDE DEF h
  <2>3. MarksCleared'
    BY <1>1, <1>2, <1>5, <2>2 DEF GInv, MarksOnTrack, MarksCleared
  <2>4. PayloadsSound'
    <3>1. ASSUME NEW x \in Object, NEW y \in refs'[x]
          PROVE  /\ ~ (y \in {jstack, javaLangClassArray} /\ type'[y] = "protected")
                 /\ ~ lost /\ type'[x] # "free" => type'[y] = "used"
      <4>1. y \in Object /\ y \in refs[x] /\ x # h
        BY <1>2, <1>5, <2>1, <3>1
      <4>2. /\ ~ (y \in {jstack, javaLangClassArray} /\ type[y] = "protected")
            /\ ~ lost /\ type[x] # "free" => type[y] = "used"
        BY <4>1, MemoryFacts DEF StartupBlock
      <4>3. QED  BY <1>2, <2>2, <4>1, <4>2
    <3>2. QED  BY <1>1, <3>1 DEF PayloadsSound, StartupBlock
  <2>5. MemoryKept
    BY <1>1, <1>2, <1>5, <2>1, <2>2, <2>3, <2>4 DEF MemoryKept, h
  <2>6. s \in Seq(Object) /\ \A i \in 1 .. Len(s) : SoundAfter(s[i])
    <3>1. \A x \in Object : StartupBlock(x)' => StartupBlock(x)
      BY <1>1, <2>2 DEF StartupBlock
    <3>2. QED  BY <2>5, <3>1, SoundKept, LeftFacts
  <2>7. pc' = "idle" /\ \A x \in Object : type'[x] = "protected" => type[x] = "protected"
    BY <1>5, <2>2 DEF OutOfMemory
  <2>8. QED  BY <1>1, <1>5, <2>2, <2>5, <2>6, <2>7, PushStringInv DEF h
<1>6. QED  BY <1>1, <1>3, <1>4, <1>5 DEF newCharArray

-----------------------------------------------------------------------------
(* Exceptions                                                              *)

\* Until it is pushed for a handler, the exception is held, and sound.
LEMMA ThrowFacts ==
  ASSUME GInv, doing[cur] \in {"constructor", "constructed"},
         UNCHANGED <<header, markValue, static, startup, threads, lost>>
  PROVE  /\ MemoryKept /\ doing[cur] \notin Startup /\ type' = type
         /\ held[cur] \in Object /\ SoundAfter(held[cur]) /\ base[cur] \in 0 .. Len(stack[cur])
         /\ \A x : Sound(x) => SoundAfter(x)
         /\ \A x \in Object : type'[x] = "protected" => type[x] = "protected" /\ x # held[cur]
<1>1. doing[cur] \notin Startup /\ doing[cur] # "newString"
  BY DEF Startup
<1>2. held[cur] \in Object /\ Sound(held[cur]) /\ base[cur] \in 0 .. Len(stack[cur])
  BY Basics DEF GInv, HeldOnTrack, Holding, ReferToSound
<1>3. UNCHANGED <<type, mark, refs, jstack, javaLangClassArray, lost>>
  BY DEF header, startup
<1>4. \A x \in Object : type[x] = "protected" => refs[x] = {} /\ x # held[cur] /\ mark[x] = 0
  BY <1>1, StartedFacts
<1>5. MarksCleared' /\ PayloadsSound'
  <2>1. MarksCleared'
    BY <1>3, <1>4 DEF GInv, MarksOnTrack, MarksCleared
  <2>2. PayloadsSound'
    BY <1>3, MemoryFacts DEF PayloadsSound, StartupBlock
  <2>3. QED  BY <2>1, <2>2
<1>6. MemoryKept
  BY <1>3, <1>4, <1>5 DEF MemoryKept, GInv, Shape, TypeOK
<1>7. \A x : Sound(x) => SoundAfter(x)
  BY <1>3 DEF Sound, SoundAfter, StartupBlock
<1>8. QED  BY <1>1, <1>2, <1>3, <1>4, <1>6, <1>7

LEMMA ConstructorReturnsInv == GInv /\ constructorReturns => GInv'
<1> SUFFICES ASSUME GInv, constructorReturns PROVE GInv'
  OBVIOUS
<1> DEFINE s == SubSeq(stack[cur], 1, base[cur])
<1>1. /\ pc' = "idle" /\ doing[cur] = "constructor"
      /\ UNCHANGED <<header, markValue, static, startup, threads, held, lost>>
      /\ stack' = [stack EXCEPT ![cur] = s] /\ base' = [base EXCEPT ![cur] = 0]
      /\ doing' = [doing EXCEPT ![cur] = "constructed"]
  BY DEF constructorReturns
<1>2. /\ MemoryKept /\ doing[cur] \notin Startup /\ type' = type
      /\ held[cur] \in Object /\ SoundAfter(held[cur]) /\ base[cur] \in 0 .. Len(stack[cur])
      /\ \A x : Sound(x) => SoundAfter(x)
      /\ \A x \in Object : type'[x] = "protected" => type[x] = "protected" /\ x # held[cur]
  BY <1>1, ThrowFacts
<1>3. s \in Unwound(stack[cur])
  BY <1>2 DEF Unwound
<1> HIDE DEF s
<1>4. s \in Seq(Object) /\ Len(s) \in Nat /\ \A i \in 1 .. Len(s) : SoundAfter(s[i])
  BY <1>2, <1>3, LeftFacts
<1>5. held' = [held EXCEPT ![cur] = held[cur]] /\ 0 \in 0 .. Len(s)
  BY <1>1, <1>4 DEF GInv, Shape, TypeOK
<1>6. Arrives(s, "constructed", held[cur], 0)
  BY <1>1, <1>2, <1>4, <1>5 DEF Arrives, Holding
<1>7. QED  BY <1>1, <1>2, <1>6, ThreadInv

LEMMA ThrowExceptionInv == GInv /\ throwException => GInv'
<1> SUFFICES ASSUME GInv, throwException PROVE GInv'
  OBVIOUS
<1>1. PICK s \in Unwound(stack[cur]) : stack' = [stack EXCEPT ![cur] = Append(s, held[cur])]
  BY DEF throwException
<1> DEFINE u == Append(s, held[cur])
<1>2. /\ pc' = "idle" /\ doing[cur] = "constructed"
      /\ UNCHANGED <<header, markValue, static, startup, threads, base, lost>>
      /\ held' = [held EXCEPT ![cur] = NULL] /\ doing' = [doing EXCEPT ![cur] = "java"]
  BY DEF throwException
<1>3. /\ MemoryKept /\ doing[cur] \notin Startup /\ type' = type
      /\ held[cur] \in Object /\ SoundAfter(held[cur]) /\ \A x : Sound(x) => SoundAfter(x)
      /\ \A x \in Object : type'[x] = "protected" => type[x] = "protected" /\ x # held[cur]
  BY <1>2, ThrowFacts
<1>4. /\ u \in Seq(Object) /\ Len(u) = Len(s) + 1 /\ Len(s) \in Nat
      /\ \A i \in 1 .. Len(u) : SoundAfter(u[i])
  BY <1>3, LeftFacts, OnTopFacts
<1> HIDE DEF u
<1>5. base' = [base EXCEPT ![cur] = 0] /\ 0 \in 0 .. Len(u)
  BY <1>2, <1>4, Basics DEF GInv, Shape, TypeOK, HeldOnTrack
<1>6. stack' = [stack EXCEPT ![cur] = u]
  BY <1>1 DEF u
<1>7. Arrives(u, "java", NULL, 0)
  BY <1>2, <1>3, <1>4, <1>5, <1>6 DEF Arrives, Holding
<1>8. QED  BY <1>2, <1>3, <1>7, ThreadInv

-----------------------------------------------------------------------------
(* The startup                                                             *)

\* While the machine starts, only main has anything to do, and no stack is in use.
LEMMA StartingFacts ==
  ASSUME GInv, NEW step \in Startup, Starting(step)
  PROVE  /\ cur = main /\ doing[main] = step /\ ~ scheduling
         /\ UNCHANGED <<cur, scheduling, stack, held, base>>
         /\ \A t \in Thread : stack[t] = <<>> /\ Len(stack[t]) = 0 /\ held[t] = NULL /\ base[t] = 0
         /\ \A t \in Thread \ {main} : doing[t] = "java"
         /\ classes \in Nat /\ classes <= NClasses /\ lost' = lost
         /\ \A f \in Field : static[f] = NULL
         /\ \A x \in Object : type[x] = "protected" => mark[x] = 0
<1>1. doing[cur] = step /\ UNCHANGED <<cur, scheduling, stack, held, base>>
  BY DEF Starting, threads
<1>2. cur = main /\ ~ scheduling
  BY <1>1, Basics DEF GInv, BeforeScheduling
<1>3. \A t \in Thread \ {main} : doing[t] = "java" /\ stack[t] = <<>>
  BY <1>2 DEF GInv, BeforeScheduling
<1>4. stack[main] = <<>>
  BY <1>1, <1>2, Basics DEF GInv, BeforeScheduling
<1>5. \A t \in Thread : doing[t] \notin Holding /\ doing[t] # "constructor"
  BY <1>1, <1>2, <1>3 DEF Startup, Holding
<1>6. \A t \in Thread : held[t] = NULL /\ base[t] = 0
  BY <1>5 DEF GInv, HeldOnTrack
<1>7. classes \in Nat /\ classes <= NClasses
  BY DEF GInv, Shape, TypeOK
<1>8. \A f \in Field : static[f] = NULL
  BY <1>1, <1>2 DEF GInv, StartupOnTrack
<1>9. doing[cur] # "newString" /\ lost' = lost
  BY <1>1 DEF Startup, Starting
<1>10. QED  BY <1>1, <1>2, <1>3, <1>4, <1>6, <1>7, <1>8, <1>9, ProtectedInJava

\* A step of the startup outside of a call, to the next part of it.
LEMMA StartingInv ==
  ASSUME GInv, NEW step \in Startup, Starting(step), pc' = "idle",
         NEW d \in Startup \cup {"java"}, doing' = [doing EXCEPT ![main] = d],
         type' \in [Object -> {"free", "used", "protected"}],
         mark' \in [Object -> MarkValue], refs' \in [Object -> SUBSET Object],
         static' \in [Field -> Object \cup {NULL}],
         {jstack', javaLangClassArray'} \subseteq Object \cup {NULL},
         classes' \in 0 .. NClasses, markValue' = markValue,
         \A f \in Field : static'[f] # NULL => SoundAfter(static'[f]),
         PayloadsSound', MarksCleared', ProtectedRefersToNone', StartupOnTrack', ProtectionEnds'
  PROVE  GInv'
<1>1. /\ cur = main /\ ~ scheduling
      /\ UNCHANGED <<cur, scheduling, stack, held, base, lost>>
      /\ \A t \in Thread : stack[t] = <<>> /\ Len(stack[t]) = 0 /\ held[t] = NULL /\ base[t] = 0
      /\ \A t \in Thread \ {main} : doing[t] = "java"
  BY StartingFacts
<1>2. /\ doing'[main] = d /\ \A t \in Thread \ {main} : doing'[t] = "java"
      /\ doing' \in [Thread -> Startup \cup Holding \cup {"java"}]
  BY <1>1 DEF GInv, Shape, TypeOK
<1>3. Shape'
  BY <1>1, <1>2 DEF GInv, Shape, TypeOK
<1>4. ReferToSound'
  <2>1. \A t \in Thread : doing'[t] \notin {"constructor", "constructed"}
    BY <1>2 DEF Startup
  <2>2. \A t \in Thread : Len(stack'[t]) = 0
    BY <1>1
  <2>3. QED  BY <2>1, <2>2 DEF ReferToSound, PayloadsSound, Sound, SoundAfter, StartupBlock
<1>5. BeforeScheduling'
  BY <1>1, <1>2 DEF BeforeScheduling, Startup
<1>6. HeldOnTrack'
  BY <1>1, <1>2 DEF HeldOnTrack, Startup, Holding
<1>7. CallOnTrack' /\ CollectedAll'
  BY DEF CallOnTrack, CollectedAll
<1>8. MarksOnTrack'
  BY DEF MarksOnTrack, MarksCleared, GInv
<1>9. QED  BY <1>3, <1>4, <1>5, <1>6, <1>7, <1>8 DEF GInv

LEMMA OsStackInitInv == GInv /\ osStackInit => GInv'
<1> SUFFICES ASSUME GInv, osStackInit PROVE GInv'
  OBVIOUS
<1>1. /\ Starting("osStackInit") /\ "osStackInit" \in Startup
      /\ UNCHANGED <<markValue, static, javaLangClassArray, classes>>
  BY DEF osStackInit, Startup
<1>2. /\ cur = main /\ doing[main] = "osStackInit" /\ ~ scheduling
      /\ UNCHANGED <<threads, cur, scheduling, stack, held, base, lost>>
      /\ \A t \in Thread \ {main} : doing[t] = "java"
  BY <1>1, StartingFacts DEF Starting
<1>3. CASE Request("stack") /\ UNCHANGED <<header, jstack, doing>>
  BY <1>1, <1>2, <1>3, RequestInv DEF startup
<1>4. ASSUME NEW o \in Free, Got("stack", o), NewHeader(o, Protected), jstack' = o,
             doing' = [doing EXCEPT ![cur] = "newClassArray"]
      PROVE  GInv'
  <2>1. /\ o \in Object /\ type'[o] = "protected" /\ refs'[o] = {}
        /\ type' \in [Object -> {"free", "used", "protected"}]
        /\ mark' \in [Object -> MarkValue] /\ refs' \in [Object -> SUBSET Object]
        /\ \A x \in Object \ {o} : type'[x] = type[x] /\ refs'[x] = refs[x]
        /\ PayloadsSound' /\ MarksCleared' /\ type[o] = "free" /\ \A x \in Object : refs[x] = {}
    <3>1. doing[cur] # "newString" /\ \A x \in Object : refs[x] = {}
      BY <1>2 DEF GInv, StartupOnTrack
    <3>2. {jstack', javaLangClassArray'} \subseteq {jstack, javaLangClassArray, o}
      BY <1>1, <1>4
    <3>3. NewHeader(o, "protected")
      BY <1>4 DEF Protected
    <3>4. QED  BY <1>1, <1>2, <3>1, <3>2, <3>3, HeaderFacts, FreshFacts
  <2>2. /\ jstack = NULL /\ javaLangClassArray = NULL /\ \A f \in Field : static[f] = NULL
        /\ \A x \in Object : type[x] # "protected"
    BY <1>2, Basics DEF GInv, StartupOnTrack, ProtectionEnds
  <2>3. doing'[main] = "newClassArray" /\ pc' = "idle"
    BY <1>2, <1>4 DEF Got, GInv, Shape
  <2>4. StartupOnTrack' /\ ProtectedRefersToNone' /\ ProtectionEnds'
    BY <1>1, <1>2, <1>4, <2>1, <2>2, <2>3
    DEF StartupOnTrack, ProtectedRefersToNone, ProtectionEnds, Startup
  <2>5. /\ static' \in [Field -> Object \cup {NULL}] /\ classes' \in 0 .. NClasses
        /\ \A f \in Field : static'[f] = NULL
    BY <1>1, <2>1, <2>2, MemoryFacts DEF GInv, Shape, TypeOK
  <2>6. QED  BY <1>1, <1>2, <1>4, <2>1, <2>2, <2>3, <2>4, <2>5, StartingInv DEF Startup
<1>5. QED  BY <1>3, <1>4 DEF osStackInit

LEMMA NewClassArrayInv == GInv /\ newClassArray => GInv'
<1> SUFFICES ASSUME GInv, newClassArray PROVE GInv'
  OBVIOUS
<1>1. /\ Starting("newClassArray") /\ "newClassArray" \in Startup
      /\ UNCHANGED <<markValue, static, jstack, classes>>
  BY DEF newClassArray, Startup
<1>2. /\ cur = main /\ doing[main] = "newClassArray" /\ ~ scheduling
      /\ UNCHANGED <<threads, cur, scheduling, stack, held, base, lost>>
      /\ \A t \in Thread \ {main} : doing[t] = "java"
  BY <1>1, StartingFacts DEF Starting
<1>3. CASE Request("classArray") /\ UNCHANGED <<header, javaLangClassArray, doing>>
  BY <1>1, <1>2, <1>3, RequestInv DEF startup
<1>4. ASSUME NEW o \in Free, Got("classArray", o), NewHeader(o, Protected),
             javaLangClassArray' = o, doing' = [doing EXCEPT ![cur] = "newClass"]
      PROVE  GInv'
  <2>1. /\ o \in Object /\ type'[o] = "protected" /\ refs'[o] = {}
        /\ type' \in [Object -> {"free", "used", "protected"}]
        /\ mark' \in [Object -> MarkValue] /\ refs' \in [Object -> SUBSET Object]
        /\ \A x \in Object \ {o} : type'[x] = type[x] /\ refs'[x] = refs[x]
        /\ PayloadsSound' /\ MarksCleared' /\ type[o] = "free" /\ o # jstack
        /\ \A x \in Object : refs[x] = {}
    <3>1. doing[cur] # "newString" /\ \A x \in Object : refs[x] = {}
      BY <1>2 DEF GInv, StartupOnTrack
    <3>2. {jstack', javaLangClassArray'} \subseteq {jstack, javaLangClassArray, o}
      BY <1>1, <1>4
    <3>3. NewHeader(o, "protected")
      BY <1>4 DEF Protected
    <3>4. QED  BY <1>1, <1>2, <3>1, <3>2, <3>3, HeaderFacts, FreshFacts
  <2>2. /\ jstack \in Object /\ type[jstack] = "protected" /\ javaLangClassArray = NULL
        /\ \A f \in Field : static[f] = NULL
        /\ \A x \in Object : type[x] = "protected" => x = jstack /\ refs[x] = {}
    BY <1>2, Basics DEF GInv, StartupOnTrack, ProtectionEnds, ProtectedRefersToNone
  <2>3. doing'[main] = "newClass" /\ pc' = "idle"
    BY <1>2, <1>4 DEF Got, GInv, Shape
  <2>4. StartupOnTrack' /\ ProtectedRefersToNone' /\ ProtectionEnds'
    BY <1>1, <1>2, <1>4, <2>1, <2>2, <2>3
    DEF StartupOnTrack, ProtectedRefersToNone, ProtectionEnds, Startup
  <2>5. /\ static' \in [Field -> Object \cup {NULL}] /\ classes' \in 0 .. NClasses
        /\ \A f \in Field : static'[f] = NULL
    BY <1>1, <2>1, <2>2, MemoryFacts DEF GInv, Shape, TypeOK
  <2>6. QED  BY <1>1, <1>2, <1>4, <2>1, <2>2, <2>3, <2>4, <2>5, StartingInv DEF Startup
<1>5. QED  BY <1>3, <1>4 DEF newClassArray

LEMMA NewClassInv == GInv /\ newClass => GInv'
<1> SUFFICES ASSUME GInv, newClass PROVE GInv'
  OBVIOUS
<1> DEFINE a == javaLangClassArray
<1>1. /\ Starting("newClass") /\ "newClass" \in Startup /\ classes < NClasses
      /\ UNCHANGED <<markValue, static, jstack, javaLangClassArray, doing>>
  BY DEF newClass, Startup
<1>2. /\ cur = main /\ doing[main] = "newClass" /\ ~ scheduling
      /\ UNCHANGED <<threads, cur, scheduling, stack, held, base, lost>>
      /\ \A t \in Thread \ {main} : doing[t] = "java"
      /\ \A f \in Field : static[f] = NULL
      /\ \A x \in Object : type[x] = "protected" => mark[x] = 0
  BY <1>1, StartingFacts DEF Starting
<1>3. CASE Request("class") /\ UNCHANGED <<header, classes>>
  BY <1>1, <1>2, <1>3, RequestInv DEF startup
<1>4. ASSUME NEW o \in Free, Got("class", o), type' = [type EXCEPT ![o] = "used"],
             mark' = [mark EXCEPT ![o] = 0], refs' = [refs EXCEPT ![o] = {}, ![a] = @ \cup {o}],
             classes' = classes + 1
      PROVE  GInv'
  <2>1. /\ o \in Object /\ type[o] = "free" /\ o # jstack /\ o # a
        /\ jstack \in Object /\ type[jstack] = "protected"
        /\ a \in Object /\ a # jstack /\ type[a] = "protected"
        /\ \A x \in Object : type[x] = "protected" => x \in {jstack, a}
        /\ refs[jstack] = {}
    BY <1>2, FreshFacts, Basics DEF GInv, StartupOnTrack, ProtectionEnds, ProtectedRefersToNone
  <2>2. /\ type \in [Object -> {"free", "used", "protected"}]
        /\ mark \in [Object -> MarkValue] /\ refs \in [Object -> SUBSET Object]
        /\ 0 \in MarkValue
    <3>1. 2 ^ MARK_BIT_SIZE - 1 \in Nat
      BY MarkBitsAssumption
    <3>2. QED  BY <3>1 DEF GInv, Shape, TypeOK, MarkValue
  <2>3. /\ type'[o] = "used" /\ mark'[o] = 0 /\ refs'[o] = {} /\ refs'[a] = refs[a] \cup {o}
        /\ \A x \in Object \ {o} : type'[x] = type[x] /\ mark'[x] = mark[x]
        /\ \A x \in Object \ {o, a} : refs'[x] = refs[x]
        /\ type' \in [Object -> {"free", "used", "protected"}]
        /\ mark' \in [Object -> MarkValue] /\ refs' \in [Object -> SUBSET Object]
    BY <1>4, <2>1, <2>2
  <2> HIDE DEF a
  <2>4. MarksCleared'
    BY <1>1, <1>2, <2>1, <2>3 DEF GInv, MarksOnTrack, MarksCleared
  <2>5. PayloadsSound'
    <3>1. ASSUME NEW x \in Object, NEW y \in refs'[x]
          PROVE  /\ ~ (y \in {jstack, a} /\ type'[y] = "protected")
                 /\ ~ lost /\ type'[x] # "free" => type'[y] = "used"
      <4>1. y = o \/ (y \in Object /\ y \in refs[x] /\ x # o)
        BY <2>1, <2>2, <2>3, <3>1
      <4>2. CASE y \in Object /\ y \in refs[x] /\ x # o
        <5>1. /\ ~ (y \in {jstack, a} /\ type[y] = "protected")
              /\ ~ lost /\ type[x] # "free" => type[y] = "used"
          BY <4>2, MemoryFacts DEF StartupBlock, a
        <5>2. QED  BY <2>1, <2>3, <4>2, <5>1
      <4>3. QED  BY <2>1, <2>3, <4>1, <4>2
    <3>2. QED  BY <1>1, <1>2, <3>1 DEF PayloadsSound, StartupBlock, a
  <2>6. pc' = "idle" /\ doing' = [doing EXCEPT ![main] = "newClass"]
    BY <1>1, <1>2, <1>4 DEF Got, GInv, Shape
  <2>7. StartupOnTrack' /\ ProtectedRefersToNone' /\ ProtectionEnds'
    BY <1>1, <1>2, <2>1, <2>3, <2>6
    DEF StartupOnTrack, ProtectedRefersToNone, ProtectionEnds, Startup, a
  <2>8. classes' \in 0 .. NClasses
    BY <1>1, <1>4, StartingFacts
  <2>9. /\ static' \in [Field -> Object \cup {NULL}] /\ \A f \in Field : static'[f] = NULL
        /\ {jstack', javaLangClassArray'} \subseteq Object \cup {NULL}
    BY <1>1, <1>2, <2>1, MemoryFacts DEF a
  <2>10. QED
    BY <1>1, <2>3, <2>4, <2>5, <2>6, <2>7, <2>8, <2>9, StartingInv
<1>5. QED  BY <1>3, <1>4 DEF newClass

LEMMA PublishClassesInv == GInv /\ publishClasses => GInv'
<1> SUFFICES ASSUME GInv, publishClasses PROVE GInv'
  OBVIOUS
<1> DEFINE a == javaLangClassArray
<1>1. /\ Starting("newClass") /\ "newClass" \in Startup /\ classes = NClasses
      /\ static' = [static EXCEPT !["aAllClasses"] = a] /\ type' = [type EXCEPT ![a] = "used"]
      /\ doing' = [doing EXCEPT ![cur] = "java"]
      /\ UNCHANGED <<mark, refs, markValue, jstack, javaLangClassArray, classes, call, pc>>
  BY DEF publishClasses, startup, Startup
<1>2. /\ cur = main /\ doing[main] = "newClass" /\ ~ scheduling
      /\ UNCHANGED <<cur, scheduling, lost>>
      /\ \A t \in Thread \ {main} : doing[t] = "java"
      /\ \A f \in Field : static[f] = NULL
      /\ \A x \in Object : type[x] = "protected" => mark[x] = 0
  BY <1>1, StartingFacts
<1>3. pc' = "idle"
  BY <1>1, <1>2 DEF GInv, CallOnTrack, Shape, TypeOK
<1>4. /\ jstack \in Object /\ type[jstack] = "protected"
      /\ a \in Object /\ a # jstack /\ type[a] = "protected"
      /\ \A x \in Object : type[x] = "protected" => x \in {jstack, a}
      /\ refs[jstack] = {}
  BY <1>2, Basics DEF GInv, StartupOnTrack, ProtectionEnds, ProtectedRefersToNone
<1>5. /\ type'[a] = "used" /\ \A x \in Object \ {a} : type'[x] = type[x]
      /\ type' \in [Object -> {"free", "used", "protected"}]
  BY <1>1, <1>4 DEF GInv, Shape, TypeOK
<1>6. /\ static'["aAllClasses"] = a /\ \A f \in Field \ {"aAllClasses"} : static'[f] = static[f]
      /\ static' \in [Field -> Object \cup {NULL}]
  BY <1>1, <1>4, MemoryFacts DEF Field
<1> HIDE DEF a
<1>7. MarksCleared'
  BY <1>1, <1>2, <1>4, <1>5 DEF GInv, MarksOnTrack, MarksCleared
<1>8. PayloadsSound'
  <2>1. ASSUME NEW x \in Object, NEW y \in refs[x]
        PROVE  /\ ~ (y \in {jstack, a} /\ type'[y] = "protected")
               /\ ~ lost /\ type'[x] # "free" => type'[y] = "used"
    <3>1. /\ y \in Object /\ ~ (y \in {jstack, a} /\ type[y] = "protected")
          /\ ~ lost /\ type[x] # "free" => type[y] = "used"
      BY <2>1, MemoryFacts DEF StartupBlock, a
    <3>2. QED  BY <1>4, <1>5, <3>1
  <2>2. QED  BY <1>1, <1>2, <2>1 DEF PayloadsSound, StartupBlock, a
<1>9. doing' = [doing EXCEPT ![main] = "java"] /\ doing'[main] = "java"
  BY <1>1, <1>2 DEF GInv, Shape
<1>10. StartupOnTrack' /\ ProtectedRefersToNone' /\ ProtectionEnds'
  BY <1>1, <1>2, <1>4, <1>5, <1>6, <1>9
  DEF StartupOnTrack, ProtectedRefersToNone, ProtectionEnds, Startup, a
<1>11. \A f \in Field : static'[f] # NULL => SoundAfter(static'[f])
  BY <1>1, <1>2, <1>4, <1>5, <1>6 DEF SoundAfter, a
<1>12. /\ mark' \in [Object -> MarkValue] /\ refs' \in [Object -> SUBSET Object]
       /\ {jstack', javaLangClassArray'} \subseteq Object \cup {NULL}
       /\ classes' \in 0 .. NClasses
  BY <1>1 DEF GInv, Shape, TypeOK
<1>13. QED
  BY <1>1, <1>3, <1>5, <1>6, <1>7, <1>8, <1>9, <1>10, <1>11, <1>12, StartingInv

-----------------------------------------------------------------------------
(* Threads                                                                 *)

LEMMA FrStartSchedulingInv == GInv /\ frStartScheduling => GInv'
<1> SUFFICES ASSUME GInv, frStartScheduling PROVE GInv'
  OBVIOUS
<1>1. /\ pc = "idle" /\ pc' = "idle" /\ doing[cur] = "java" /\ ~ scheduling /\ scheduling'
      /\ static' = [static EXCEPT !["aAllThreads"] = jstack] /\ type' = [type EXCEPT ![jstack] = "used"]
      /\ UNCHANGED <<mark, refs, markValue, startup, stack, cur, doing, held, base, call, lost>>
      /\ UNCHANGED <<jstack, javaLangClassArray, classes>>
  BY DEF frStartScheduling, startup
<1>2. cur = main /\ \A t \in Thread : doing[t] = "java"
  BY <1>1 DEF GInv, BeforeScheduling
<1>3. \A t \in Thread : held[t] = NULL
  BY <1>2 DEF GInv, HeldOnTrack, Holding
<1>4. /\ jstack \in Object /\ type[jstack] = "protected" /\ jstack # javaLangClassArray
      /\ \A x \in Object : type[x] = "protected" => x = jstack /\ refs[x] = {} /\ mark[x] = 0
  <2>1. jstack \in Object /\ type[jstack] = "protected"
    BY <1>1, <1>2, Basics DEF GInv, StartupOnTrack
  <2>2. \A x \in Object : type[x] = "protected" => x = jstack /\ refs[x] = {}
    BY <1>2, Basics DEF GInv, ProtectionEnds, ProtectedRefersToNone
  <2>3. type[javaLangClassArray] = "used"
    BY <1>2, Basics DEF GInv, StartupOnTrack, Startup
  <2>4. \A x \in Object : type[x] = "protected" => mark[x] = 0
    BY <1>1, ProtectedInJava
  <2>5. QED  BY <2>1, <2>2, <2>3, <2>4
<1>5. /\ type'[jstack] = "used" /\ \A x \in Object \ {jstack} : type'[x] = type[x]
      /\ type' \in [Object -> {"free", "used", "protected"}]
  BY <1>1, <1>4 DEF GInv, Shape, TypeOK
<1>6. /\ static'["aAllThreads"] = jstack /\ \A f \in Field \ {"aAllThreads"} : static'[f] = static[f]
      /\ static' \in [Field -> Object \cup {NULL}]
  BY <1>1, <1>4, MemoryFacts DEF Field
<1>7. Shape'
  <2>1. scheduling' \in BOOLEAN
    BY DEF frStartScheduling
  <2>2. QED  BY <1>1, <1>5, <1>6, <2>1 DEF GInv, Shape, TypeOK
<1>8. ReferToSound'
  <2>1. ASSUME NEW x, Sound(x) PROVE SoundAfter(x)
    BY <1>1, <1>4, <1>5, <2>1 DEF Sound, SoundAfter, StartupBlock
  <2>2. \A t \in Thread : \A i \in 1 .. Len(stack[t]) : SoundAfter(stack[t][i])
    BY <2>1, Basics DEF GInv, ReferToSound
  <2>3. ASSUME NEW x \in Object, NEW y \in refs[x]
        PROVE  /\ ~ (y \in {jstack, javaLangClassArray} /\ type'[y] = "protected")
               /\ ~ lost /\ type'[x] # "free" => type'[y] = "used"
    <3>1. /\ y \in Object /\ ~ (y \in {jstack, javaLangClassArray} /\ type[y] = "protected")
          /\ ~ lost /\ type[x] # "free" => type[y] = "used"
      BY <2>3, MemoryFacts DEF StartupBlock
    <3>2. QED  BY <1>4, <1>5, <3>1
  <2>4. \A f \in Field : static'[f] # NULL => SoundAfter(static'[f])
    <3>1. SoundAfter(jstack)
      BY <1>1, <1>4, <1>5 DEF SoundAfter
    <3>2. QED  BY <1>6, <2>1, <3>1, MemoryFacts
  <2>5. \A t \in Thread : doing[t] \notin {"constructor", "constructed"}
    BY <1>2
  <2>6. QED  BY <1>1, <2>2, <2>3, <2>4, <2>5 DEF ReferToSound, Sound, SoundAfter, StartupBlock
<1>9. MarksOnTrack'
  BY <1>1, <1>4, <1>5 DEF GInv, MarksOnTrack
<1>10. ProtectedRefersToNone' /\ ProtectionEnds'
  BY <1>4, <1>5 DEF ProtectedRefersToNone, ProtectionEnds
<1>11. BeforeScheduling'
  BY <1>1, <1>2 DEF BeforeScheduling, Startup
<1>12. HeldOnTrack'
  BY <1>1, <1>2 DEF GInv, HeldOnTrack
<1>13. StartupOnTrack'
  BY <1>1, <1>2, <1>4, <1>5, <1>6, Basics DEF GInv, StartupOnTrack, Startup, Field
<1>14. CallOnTrack' /\ CollectedAll'
  BY <1>1 DEF CallOnTrack, CollectedAll
<1>15. QED
  BY <1>7, <1>8, <1>9, <1>10, <1>11, <1>12, <1>13, <1>14 DEF GInv

LEMMA TryYieldInv == GInv /\ tryYield => GInv'
<1> SUFFICES ASSUME GInv, tryYield PROVE GInv'
  OBVIOUS
<1>1. /\ pc = "idle" /\ pc' = "idle" /\ scheduling /\ scheduling'
      /\ doing[cur] # "newString" /\ cur' \in Thread
      /\ UNCHANGED <<type, mark, refs, markValue, static, jstack, javaLangClassArray, classes,
                      stack, doing, held, base, call, lost>>
      /\ scheduling' = scheduling
  BY DEF tryYield, header, startup
<1>2. Shape' /\ ReferToSound' /\ MarksOnTrack' /\ ProtectedRefersToNone'
  BY <1>1 DEF GInv, Shape, TypeOK, ReferToSound, Sound, StartupBlock, MarksOnTrack, ProtectedRefersToNone
<1>3. BeforeScheduling' /\ HeldOnTrack'
  BY <1>1 DEF GInv, BeforeScheduling, HeldOnTrack
<1>4. StartupOnTrack' /\ ProtectionEnds'
  BY <1>1 DEF GInv, StartupOnTrack, ProtectionEnds
<1>5. CallOnTrack' /\ CollectedAll'
  BY <1>1 DEF CallOnTrack, CollectedAll
<1>6. QED  BY <1>2, <1>3, <1>4, <1>5 DEF GInv

-----------------------------------------------------------------------------
(* Theorems                                                                *)

LEMMA InitInv == Init => GInv
<1> SUFFICES ASSUME Init PROVE GInv
  OBVIOUS
<1> DEFINE w == 2 ^ MARK_BIT_SIZE
<1>1. PICK half \in Nat : w = 2 * half /\ half >= 2
  BY MarkBitsAssumption
<1> USE DEF Init
<1>2. /\ \A t \in Thread : stack[t] = <<>> /\ Len(stack[t]) = 0 /\ held[t] = NULL /\ base[t] = 0
      /\ \A t \in Thread \ {main} : doing[t] = "java"
      /\ doing[main] = "osStackInit" /\ cur = main /\ pc = "idle"
  OBVIOUS
<1>3. Shape
  <2>1. MarkValue = 0 .. w - 1
    BY DEF MarkValue
  <2> HIDE DEF w
  <2>2. 0 \in MarkValue /\ 1 \in MarkValue
    BY <1>1, <2>1
  <2>3. /\ type \in [Object -> {"free", "used", "protected"}] /\ mark \in [Object -> MarkValue]
        /\ refs \in [Object -> SUBSET Object] /\ static \in [Field -> Object \cup {NULL}]
        /\ stack \in [Thread -> Seq(Object)] /\ held \in [Thread -> Object \cup {NULL}]
    BY <2>2
  <2>4. TypeOK
    <3>1. {jstack, javaLangClassArray} \subseteq Object \cup {NULL} /\ classes \in 0 .. NClasses
      OBVIOUS
    <3>2. cur \in Thread /\ scheduling \in BOOLEAN /\ lost \in BOOLEAN
      OBVIOUS
    <3>3. \A t \in Thread : base[t] \in 0 .. Len(stack[t])
      BY <1>2
    <3>4. markValue \in MarkValue
      BY <2>2
    <3> USE DEF TypeOK
    <3> HIDE DEF Init
    <3>5. QED  BY <2>3, <3>1, <3>2, <3>3, <3>4
  <2>5. doing \in [Thread -> Startup \cup Holding \cup {"java"}] /\ base \in [Thread -> Nat]
    BY DEF Startup
  <2>6. QED  BY <1>2, <2>4, <2>5 DEF Shape
<1>4. ReferToSound /\ MarksOnTrack /\ ProtectedRefersToNone
  BY <1>2 DEF ReferToSound, MarksOnTrack, ProtectedRefersToNone
<1>5. BeforeScheduling /\ HeldOnTrack
  BY <1>2 DEF BeforeScheduling, HeldOnTrack, Startup, Holding
<1>6. StartupOnTrack /\ CallOnTrack /\ ProtectionEnds /\ CollectedAll
  BY <1>2 DEF StartupOnTrack, CallOnTrack, ProtectionEnds, CollectedAll, Startup
<1>7. QED  BY <1>3, <1>4, <1>5, <1>6 DEF GInv

LEMMA StutterInv == GInv /\ UNCHANGED vars => GInv'
<1> SUFFICES ASSUME GInv, UNCHANGED vars PROVE GInv'
  OBVIOUS
<1>1. UNCHANGED <<type, mark, refs, markValue, static, jstack, javaLangClassArray, classes,
                  stack, cur, scheduling, doing, held, base, call, pc, lost>>
  BY DEF vars, header, startup, threads
<1>2. Shape' /\ ReferToSound' /\ MarksOnTrack' /\ ProtectedRefersToNone' /\ BeforeScheduling'
  BY <1>1 DEF GInv, Shape, TypeOK, ReferToSound, Sound, StartupBlock, MarksOnTrack, ProtectedRefersToNone, BeforeScheduling
<1>3. HeldOnTrack' /\ StartupOnTrack' /\ CallOnTrack' /\ ProtectionEnds'
  BY <1>1 DEF GInv, HeldOnTrack, StartupOnTrack, CallOnTrack, ProtectionEnds
<1>4. Needed' = Needed
  BY <1>1 DEF Needed, Roots
<1>5. CollectedAll'
  BY <1>1, <1>4 DEF GInv, CollectedAll
<1>6. QED  BY <1>2, <1>3, <1>5 DEF GInv

LEMMA NextInv == GInv /\ [Next]_vars => GInv'
<1> SUFFICES ASSUME GInv, [Next]_vars PROVE GInv'
  OBVIOUS
<1>1. CASE osStackInit \/ newClassArray \/ newClass \/ publishClasses
  BY <1>1, OsStackInitInv, NewClassArrayInv, NewClassInv, PublishClassesInv
<1>2. CASE PopRef \/ getfield \/ putfield \/ getstatic \/ putstatic
  BY <1>2, PopRefInv, GetfieldInv, PutfieldInv, GetstaticInv, PutstaticInv
<1>3. CASE newObject \/ newStringObject \/ newCharArray
  BY <1>3, NewObjectInv, NewStringObjectInv, NewCharArrayInv
<1>4. CASE newException \/ constructorReturns \/ throwException
  BY <1>4, NewExceptionInv, ConstructorReturnsInv, ThrowExceptionInv
<1>5. CASE Collect
  BY <1>5, CollectInv
<1>6. CASE frStartScheduling \/ tryYield
  BY <1>6, FrStartSchedulingInv, TryYieldInv
<1>7. CASE UNCHANGED vars
  BY <1>7, StutterInv
<1>8. QED  BY <1>1, <1>2, <1>3, <1>4, <1>5, <1>6, <1>7 DEF Next

\* The inductive invariant of allocation and collection, on every heap, with any
\* number of classes and threads, and with exceptions thrown at any time.
THEOREM GInvariant == Spec => []GInv
<1>1. Init => GInv
  BY InitInv
<1>2. GInv /\ [Next]_vars => GInv'
  BY NextInv
<1>3. QED  BY <1>1, <1>2, PTL DEF Spec

\* Every variable has the values its declaration allows: a mark keeps to its
\* MARK_BIT_SIZE bits and the base of a nested execute() stays on its stack.
THEOREM TypeCorrect == Spec => []TypeOK
<1>1. GInv => TypeOK
  BY DEF GInv, Shape
<1>2. QED  BY <1>1, GInvariant, PTL

LEMMA NeededFacts == GInv => NeededIsKept
<1> SUFFICES ASSUME GInv, ~ lost PROVE Needed \cap Free = {}
  BY DEF NeededIsKept
<1> DEFINE starts == (Roots \cup {jstack, javaLangClassArray} \cup {held[t] : t \in Thread})
                       \ {NULL}
           S == {o \in Object : type[o] # "free"}
<1>1. Roots \subseteq S
  BY RootsFacts, Basics DEF GInv
<1>2. jstack # NULL => jstack \in S
  BY Basics DEF GInv, StartupOnTrack
<1>3. javaLangClassArray # NULL => javaLangClassArray \in S
  BY Basics DEF GInv, StartupOnTrack, Startup
<1>4. \A t \in Thread : held[t] # NULL => held[t] \in S
  BY Basics DEF GInv, HeldOnTrack, ReferToSound, Holding
<1>5. starts \subseteq S
  BY <1>1, <1>2, <1>3, <1>4
<1>6. \A x \in S : refs[x] \subseteq S
  BY Basics, MemoryFacts
<1>7. S \in SUBSET Object
  OBVIOUS
<1> HIDE DEF S
<1>8. Needed \subseteq S
  BY <1>5, <1>6, <1>7 DEF Needed
<1>9. QED  BY <1>8 DEF Free, S

\* What the roots, main's stack, the class array or a C variable lead to is never
\* swept by markAndSweep, whatever the program does and however often it collects,
\* as long as no collection has freed an instance of java.lang.Class that only the
\* class array held, or an exception between its constructor and its throw:
\* no needed block is freed unless one of these is, then or before.
THEOREM KeepsWhatIsNeeded == Spec => []NeededIsKept
  BY NeededFacts, GInvariant, PTL

\* When heapAllocObjectByByteSize gives up after a collection, every block of the
\* heap is one the program can still use, or protected.
THEOREM OutOfMemoryOnlyWhenFull == Spec => []OutOfMemoryIsReal
<1>1. GInv => OutOfMemoryIsReal
  BY DEF GInv, Shape, TypeOK, CollectedAll, OutOfMemoryIsReal, Free
<1>2. QED  BY <1>1, GInvariant, PTL

\* No block in the heap has the mark value the next collection will use, for any
\* MARK_BIT_SIZE above 1: mark values are odd, and two in a row differ.
THEOREM MarksAreFresh == Spec => []NoStaleMark
<1>1. GInv => NoStaleMark
  BY NextMark DEF GInv, Shape, TypeOK, MarksOnTrack, NoStaleMark
<1>2. QED  BY <1>1, GInvariant, PTL

\* A protected block is main's stack or the class array before a static field has
\* them, or a String whose char[] is being allocated: NewString and resetVM
\* release what they protect on every path.
THEOREM ProtectionIsReleased == Spec => []ProtectionEnds
<1>1. GInv => ProtectionEnds
  BY DEF GInv
<1>2. QED  BY <1>1, GInvariant, PTL
=============================================================================

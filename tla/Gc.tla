--------------------------------- MODULE Gc ---------------------------------
(***************************************************************************)
(* Allocation with garbage collection: heapAllocObjectByByteSize tries     *)
(* heap_alloc, collects when it fails and tries again; markAndSweep takes  *)
(* the static memory and the stacks of all threads as its roots.  Around   *)
(* it, those of its callers that hold an object no root refers to yet: the *)
(* startup (resetVM), NewString, and the throw functions of exceptions.c.  *)
(*                                                                         *)
(* The heap is a set of blocks of equal size, so heap_alloc fails when all *)
(* are in use (what it does with blocks of different sizes is HeapList);   *)
(* marking and sweeping are one step each (how they come to the same       *)
(* result is HeapMark and the sweep of HeapList).                          *)
(***************************************************************************)
EXTENDS Naturals, Sequences, SequencesExt

CONSTANTS Object,          \* the blocks of the heap
          NULL,
          Thread, main,    \* the green threads, and the one that starts
          NClasses,        \* numberOfAllClassInstanceInfo
          MARK_BIT_SIZE,
          StackBound       \* bound on the references on a stack

ASSUME GcAssumption ==
  /\ NULL \notin Object
  /\ main \in Thread
  /\ NClasses \in Nat /\ StackBound \in Nat
  /\ MARK_BIT_SIZE \in Nat \ {0, 1}

\* What MARK_BIT_SIZE > 1 means for the number of mark values.
ASSUME MarkBitsAssumption ==
  \E half \in 2 .. 2 ^ MARK_BIT_SIZE : 2 ^ MARK_BIT_SIZE = 2 * half

VARIABLES type, mark,  \* the headers
          refs,        \* refs[o]: the objects the payload of o refers to
          markValue,
          static,      \* the static fields that hold references
          jstack,      \* the byte[] that is main's stack (aCurrentStack)
          javaLangClassArray,
          classes,     \* how many java.lang.Class instances have been made
          stack,       \* stack[t]: the references below t's stack pointer
          cur,         \* the thread that runs
          scheduling,  \* aSchedulingEnabled
          doing,       \* doing[t]: "java", or what its C code is in the middle of
          held,        \* held[t]: the object a C variable of that code refers to
          base,        \* base[t]: the references below that code's own
          call,        \* what the call of heapAllocObject... in progress is for
          pc,          \* where that call is: "idle" when there is none
          lost         \* history: a collection has freed a class or an exception
                       \* that only the array of startup or a C variable held

header == <<type, mark, refs>>
startup == <<jstack, javaLangClassArray, classes>>
threads == <<cur, scheduling>>
vars == <<header, markValue, static, startup, stack, threads, doing, held, base, call, pc, lost>>

MarkValue == 0 .. (2 ^ MARK_BIT_SIZE - 1)
Field == {"field", "aAllClasses", "aAllThreads"}

Init ==
  /\ type = [o \in Object |-> "free"]
  /\ mark = [o \in Object |-> 0]
  /\ refs = [o \in Object |-> {}]
  /\ markValue = 1
  /\ static = [f \in Field |-> NULL]
  /\ jstack = NULL /\ javaLangClassArray = NULL /\ classes = 0
  /\ stack = [t \in Thread |-> <<>>]
  /\ cur = main /\ scheduling = FALSE
  /\ doing = [t \in Thread |-> IF t = main THEN "osStackInit" ELSE "java"]
  /\ held = [t \in Thread |-> NULL]
  /\ base = [t \in Thread |-> 0]
  /\ call = "none" /\ pc = "idle"
  /\ lost = FALSE

-----------------------------------------------------------------------------
(* Marking and sweeping                                                    *)

Free == {o \in Object : type[o] = "free"}

\* Before java.lang.Thread is initialised only the current stack is searched.
Roots ==
  LET searched == IF scheduling THEN Thread ELSE {cur}
  IN  ({static[f] : f \in Field} \ {NULL}) \cup UNION {ToSet(stack[t]) : t \in searched}

\* markObject3 does not look into an object that has the mark already.
Visited(m) ==
  {o \in Object : \A S \in SUBSET Object :
     Roots \subseteq S /\ (\A x \in S : mark[x] # m => refs[x] \subseteq S) => o \in S}

\* Faulty: the mark value is not kept to MARK_BIT_SIZE bits.
NextMarkValueWide == markValue + 2

\* 0, the mark of a new object, is never a mark value.
NextMarkValue == (markValue + 2) % 2 ^ MARK_BIT_SIZE

\* Faulty: a mark from an earlier collection keeps an object.
markAndSweepAnyMark ==
  LET m == NextMarkValue
  IN  /\ markValue' = m
      /\ mark' = [o \in Object |-> IF o \in Visited(m) THEN m ELSE mark[o]]
      /\ type' = [o \in Object |->
                    IF type[o] = "used" /\ mark'[o] = 0 THEN "free" ELSE type[o]]
      /\ refs' = refs

markAndSweep ==
  LET m == NextMarkValue
  IN  /\ markValue' = m
      /\ mark' = [o \in Object |-> IF o \in Visited(m) THEN m ELSE mark[o]]
      /\ type' = [o \in Object |->
                    IF type[o] = "used" /\ mark'[o] # m THEN "free" ELSE type[o]]
      /\ refs' = refs

-----------------------------------------------------------------------------
(* heapAllocObjectByByteSize                                               *)

Request(what) ==
  /\ pc = "idle"
  /\ pc' = "alloc" /\ call' = what

\* Faulty: heapProtect has no effect.
NotProtected == "used"

\* The type of a block after heapProtect(o, TRUE).
Protected == "protected"

\* Faulty: the mark of the block's last use stays.
NewHeaderMarked(o, t) ==
  /\ type' = [type EXCEPT ![o] = t]
  /\ refs' = [refs EXCEPT ![o] = {}]
  /\ UNCHANGED mark

\* The new object o: its header and payload are cleared by init_element.
NewHeader(o, t) ==
  /\ type' = [type EXCEPT ![o] = t]
  /\ mark' = [mark EXCEPT ![o] = 0]
  /\ refs' = [refs EXCEPT ![o] = {}]

Got(what, o) ==
  /\ pc \in {"alloc", "retry"} /\ call = what
  /\ o \in Free
  /\ pc' = "idle" /\ call' = "none"

\* constantpool.c:718, "Don't GC our array of classes": the instances of
\* java.lang.Class the array holds are there to stay while it is being filled.
ClassesAreKept ==
  doing[main] = "newClass" => refs[javaLangClassArray] \cap Free = {}

\* types.h:133 and jni.c:143 on HT_PROTECTED: an object nothing refers to yet must
\* not be collected while the machine is at work on it; here, the exception that
\* throwNullPointerException and its like are about to throw.
ExceptionIsKept ==
  \A t \in Thread : doing[t] = "constructed" => held[t] \notin Free

Collect ==
  /\ pc = "alloc" /\ Free = {}
  /\ markAndSweep
  /\ pc' = "retry"
  /\ UNCHANGED <<static, startup, stack, threads, doing, held, base, call>>
  /\ lost' = (lost \/ ~ ClassesAreKept' \/ ~ ExceptionIsKept')

OutOfMemory(what) ==
  /\ pc = "retry" /\ call = what /\ Free = {}
  /\ pc' = "idle" /\ call' = "none"

\* throwException leaves the stack of the frame that has the handler.
Unwound(s) == {SubSeq(s, 1, n) : n \in 0 .. Len(s)}

-----------------------------------------------------------------------------
(* resetVM.  Nothing else runs, and out of memory there ends the machine:  *)
(* no step follows.                                                        *)

Starting(step) == doing[cur] = step /\ UNCHANGED <<threads, stack, held, base, lost>>

osStackInit ==
  /\ Starting("osStackInit")
  /\ \/ /\ Request("stack")
        /\ UNCHANGED <<header, jstack, doing>>
     \/ \E o \in Free :
          /\ Got("stack", o)
          /\ NewHeader(o, Protected)
          /\ jstack' = o
          /\ doing' = [doing EXCEPT ![cur] = "newClassArray"]
  /\ UNCHANGED <<markValue, static, javaLangClassArray, classes>>

newClassArray ==
  /\ Starting("newClassArray")
  /\ \/ /\ Request("classArray")
        /\ UNCHANGED <<header, javaLangClassArray, doing>>
     \/ \E o \in Free :
          /\ Got("classArray", o)
          /\ NewHeader(o, Protected)
          /\ javaLangClassArray' = o
          /\ doing' = [doing EXCEPT ![cur] = "newClass"]
  /\ UNCHANGED <<markValue, static, jstack, classes>>

newClass ==
  /\ Starting("newClass")
  /\ classes < NClasses
  /\ \/ /\ Request("class")
        /\ UNCHANGED <<header, classes>>
     \/ \E o \in Free :
          /\ Got("class", o)
          /\ type' = [type EXCEPT ![o] = "used"]
          /\ mark' = [mark EXCEPT ![o] = 0]
          /\ refs' = [refs EXCEPT ![o] = {}, ![javaLangClassArray] = @ \cup {o}]
          /\ classes' = classes + 1
  /\ UNCHANGED <<markValue, static, jstack, javaLangClassArray, doing>>

\* Faulty: the array is left protected.
publishClassesProtected ==
  /\ Starting("newClass")
  /\ classes = NClasses
  /\ static' = [static EXCEPT !["aAllClasses"] = javaLangClassArray]
  /\ doing' = [doing EXCEPT ![cur] = "java"]
  /\ UNCHANGED <<header, markValue, startup, call, pc>>

publishClasses ==
  /\ Starting("newClass")
  /\ classes = NClasses
  /\ static' = [static EXCEPT !["aAllClasses"] = javaLangClassArray]
  /\ type' = [type EXCEPT ![javaLangClassArray] = "used"]
  /\ doing' = [doing EXCEPT ![cur] = "java"]
  /\ UNCHANGED <<mark, refs, markValue, startup, call, pc>>

-----------------------------------------------------------------------------
(* Instructions of the current thread                                      *)

InJava ==
  /\ doing[cur] \in {"java", "constructor"}
  /\ UNCHANGED <<markValue, startup, threads, lost>>
Instruction == InJava /\ pc = "idle" /\ UNCHANGED <<type, mark, doing, held, base, call, pc>>

Push(o) == stack' = [stack EXCEPT ![cur] = Append(@, o)]
HasRoom == Len(stack[cur]) < StackBound
Top == Last(stack[cur])

\* The frame of the constructor keeps the exception in its local variable 0.
Poppable == Len(stack[cur]) > IF doing[cur] = "constructor" THEN base[cur] + 1 ELSE 0

PopRef ==
  /\ Instruction /\ Poppable
  /\ stack' = [stack EXCEPT ![cur] = Front(@)]
  /\ UNCHANGED <<static, refs>>

getfield ==
  /\ Instruction /\ HasRoom /\ Len(stack[cur]) > 0
  /\ \E o \in refs[Top] : Push(o)
  /\ UNCHANGED <<static, refs>>

\* The object on top becomes the one reference of the object below it.
putfield ==
  /\ Instruction /\ Poppable /\ Len(stack[cur]) > 1
  /\ LET o == stack[cur][Len(stack[cur]) - 1]
     IN  refs' = [refs EXCEPT ![o] = {Top}]
  /\ stack' = [stack EXCEPT ![cur] = Front(@)]
  /\ UNCHANGED static

getstatic ==
  /\ Instruction /\ HasRoom
  /\ static["field"] # NULL
  /\ Push(static["field"])
  /\ UNCHANGED <<static, refs>>

putstatic ==
  /\ Instruction /\ Poppable
  /\ static' = [static EXCEPT !["field"] = Top]
  /\ stack' = [stack EXCEPT ![cur] = Front(@)]
  /\ UNCHANGED refs

newObject ==
  /\ InJava /\ HasRoom
  /\ \/ /\ Request("new")
        /\ UNCHANGED <<header, stack>>
     \/ \E o \in Free :
          /\ Got("new", o)
          /\ NewHeader(o, "used")
          /\ Push(o)
     \/ /\ OutOfMemory("new")
        /\ \E s \in Unwound(stack[cur]) : stack' = [stack EXCEPT ![cur] = s]
        /\ doing[cur] = "java"
        /\ UNCHANGED header
  /\ UNCHANGED <<static, doing, held, base>>

-----------------------------------------------------------------------------
(* NewString: the String, protected while its char[] is allocated          *)

newStringObject ==
  /\ InJava /\ doing[cur] = "java" /\ HasRoom
  /\ \/ /\ Request("string")
        /\ UNCHANGED <<header, stack, doing, held>>
     \/ \E o \in Free :
          /\ Got("string", o)
          /\ NewHeader(o, Protected)
          /\ held' = [held EXCEPT ![cur] = o]
          /\ doing' = [doing EXCEPT ![cur] = "newString"]
          /\ UNCHANGED stack
     \/ /\ OutOfMemory("string")
        /\ \E s \in Unwound(stack[cur]) : stack' = [stack EXCEPT ![cur] = s]
        /\ UNCHANGED <<header, doing, held>>
  /\ UNCHANGED <<static, base>>

\* The caller pushes the String, also when its char[] could not be had.
newCharArray ==
  /\ doing[cur] = "newString"
  /\ \/ /\ Request("chars")
        /\ UNCHANGED <<header, stack, doing, held>>
     \/ \E o \in Free :
          /\ Got("chars", o)
          /\ type' = [type EXCEPT ![o] = "used", ![held[cur]] = "used"]
          /\ mark' = [mark EXCEPT ![o] = 0]
          /\ refs' = [refs EXCEPT ![o] = {}, ![held[cur]] = {o}]
          /\ Push(held[cur])
          /\ held' = [held EXCEPT ![cur] = NULL]
          /\ doing' = [doing EXCEPT ![cur] = "java"]
     \/ /\ OutOfMemory("chars")
        /\ type' = [type EXCEPT ![held[cur]] = "used"]
        /\ \E s \in Unwound(stack[cur]) :
             stack' = [stack EXCEPT ![cur] = Append(s, held[cur])]
        /\ held' = [held EXCEPT ![cur] = NULL]
        /\ doing' = [doing EXCEPT ![cur] = "java"]
        /\ UNCHANGED <<mark, refs>>
  /\ UNCHANGED <<markValue, static, startup, threads, base, lost>>

-----------------------------------------------------------------------------
(* throwNullPointerException and its like: allocate the exception, push it *)
(* and call its constructor in a nested execute(), then throwException.    *)
(* What they do when the exception itself cannot be allocated is left out. *)

newException ==
  /\ InJava /\ doing[cur] = "java" /\ HasRoom
  /\ \/ /\ Request("exception")
        /\ UNCHANGED <<header, stack, doing, held, base>>
     \/ \E o \in Free :
          /\ Got("exception", o)
          /\ NewHeader(o, "used")
          /\ Push(o)
          /\ held' = [held EXCEPT ![cur] = o]
          /\ base' = [base EXCEPT ![cur] = Len(stack[cur])]
          /\ doing' = [doing EXCEPT ![cur] = "constructor"]
  /\ UNCHANGED static

\* The constructor's frame is popped, and the reference to the exception with it.
\* execute() asks tryYield for another thread before it returns to the thrower.
constructorReturns ==
  /\ pc = "idle" /\ doing[cur] = "constructor"
  /\ stack' = [stack EXCEPT ![cur] = SubSeq(@, 1, base[cur])]
  /\ base' = [base EXCEPT ![cur] = 0]
  /\ doing' = [doing EXCEPT ![cur] = "constructed"]
  /\ UNCHANGED <<header, markValue, static, startup, threads, held, call, pc, lost>>

throwException ==
  /\ pc = "idle" /\ doing[cur] = "constructed"
  /\ \E s \in Unwound(stack[cur]) :
       stack' = [stack EXCEPT ![cur] = Append(s, held[cur])]
  /\ held' = [held EXCEPT ![cur] = NULL]
  /\ doing' = [doing EXCEPT ![cur] = "java"]
  /\ UNCHANGED <<header, markValue, static, startup, threads, base, call, pc, lost>>

-----------------------------------------------------------------------------
(* Threads.  The natives of java.lang.Thread are not in this repository:   *)
(* they refer to main's stack from a Thread, release it with               *)
(* osUnprotectStack, call frStartScheduling and switch the contexts.       *)

frStartScheduling ==
  /\ pc = "idle" /\ doing[cur] = "java" /\ ~ scheduling
  /\ scheduling' = TRUE
  /\ static' = [static EXCEPT !["aAllThreads"] = jstack]
  /\ type' = [type EXCEPT ![jstack] = "used"]
  /\ UNCHANGED <<mark, refs, markValue, startup, stack, cur, doing, held, base, call, pc, lost>>

tryYield ==
  /\ pc = "idle" /\ scheduling
  /\ doing[cur] \in {"java", "constructor", "constructed"}
  /\ \E t \in Thread \ {cur} : cur' = t
  /\ UNCHANGED <<header, markValue, static, startup, stack, scheduling, doing, held, base,
                 call, pc, lost>>

Next ==
  \/ osStackInit \/ newClassArray \/ newClass \/ publishClasses
  \/ PopRef \/ getfield \/ putfield \/ getstatic \/ putstatic \/ newObject
  \/ newStringObject \/ newCharArray
  \/ newException \/ constructorReturns \/ throwException
  \/ Collect
  \/ frStartScheduling \/ tryYield

Spec == Init /\ [][Next]_vars

-----------------------------------------------------------------------------
(* Properties                                                              *)

\* Every variable has the values its declaration allows.
TypeOK ==
  /\ type \in [Object -> {"free", "used", "protected"}]
  /\ mark \in [Object -> MarkValue] /\ markValue \in MarkValue
  /\ refs \in [Object -> SUBSET Object]
  /\ static \in [Field -> Object \cup {NULL}]
  /\ {jstack, javaLangClassArray} \subseteq Object \cup {NULL}
  /\ classes \in 0 .. NClasses
  /\ stack \in [Thread -> Seq(Object)]
  /\ cur \in Thread /\ scheduling \in BOOLEAN
  /\ held \in [Thread -> Object \cup {NULL}]
  /\ \A t \in Thread : base[t] \in 0 .. Len(stack[t])
  /\ lost \in BOOLEAN

\* What the machine can still use: what the roots and the C variables lead to.
Needed ==
  LET starts == (Roots \cup {jstack, javaLangClassArray} \cup {held[t] : t \in Thread})
                  \ {NULL}
  IN  {o \in Object : \A S \in SUBSET Object :
         starts \subseteq S /\ (\A x \in S : refs[x] \subseteq S) => o \in S}

\* No object that can still be used is collected: not one that only a C variable
\* leads to while the machine allocates, and not one that only main's stack or
\* the class array leads to before a root refers to them.  The two objects that
\* ClassesAreKept and ExceptionIsKept speak of are the first that can be: what comes
\* after one is lost is not said.
NeededIsKept == ~ lost => Needed \cap Free = {}

\* No object in the heap carries the mark value of the next collection: it would
\* be taken for visited, and what only it refers to would be swept.  The mark has
\* MARK_BIT_SIZE bits, so a mark value comes back after a few collections.
NoStaleMark == \A o \in Object : type[o] # "free" => mark[o] # NextMarkValue

\* OutOfMemoryError means it: after the collection every block is one that can be
\* used or is protected.
OutOfMemoryIsReal ==
  pc = "retry" /\ Free = {} =>
    \A o \in Object : o \in Needed \/ type[o] = "protected"

\* Protection is released on every way out of the code that asked for it.
ProtectionEnds ==
  \A o \in Object : type[o] = "protected" =>
    \/ o = jstack /\ ~ scheduling
    \/ o = javaLangClassArray /\ doing[main] = "newClass"
    \/ \E t \in Thread : o = held[t] /\ doing[t] = "newString"
=============================================================================

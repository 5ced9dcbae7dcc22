# Verification of thinjvm

thinjvm is a Java virtual machine in C for small machines: a bytecode interpreter, a heap with a
mark-and-sweep collector, green threads and a native interface, linked with tables (code, classes,
methods, constants) that another tool generates from class files. This directory models it in TLA+,
checks the models with TLC and proves the central invariants with TLAPS. `PROJECT.json` lists, for
machine use, what this file says in words: components, runs, mutants, the source lines each
definition stands for, findings, hazards and theorems.

    tlc -config MCHeapList.cfg MCHeapList      # a run: see the table below
    tlapm HeapListProofs.tla                   # a proof module

## The system

| Component | State | Operations | Interacts with |
|---|---|---|---|
| heap list (`heaplist.c`, `list.c`) | headers in the heap (size, type, mark, `next`, `previous`), `freeList` | `heap_init`, `heap_alloc`, `heap_free`, `heap_sweep`, `heap_validate` | called by allocation and collection; its `next` field is also the marker's |
| marking (`heap.c`: `mark2`, `markObject3`) | marks, the lists `curList` / `nxtList` threaded through the headers | mark from a memory area | reads payloads and array lengths through `jarray.c` |
| allocation and collection (`heap.c`, `objectaccess.c`, `jni.c`, parts of `operandstack.c`, `constantpool.c`) | `markValue`, protected headers, static memory, stacks | allocate / collect / retry, protect, `markAndSweep`, `NewString`, startup | every instruction that allocates; the stacks of all threads |
| execution (`instruction1.c`: `execute`; `frame.c`, `exceptions.c`, `jni.c`) | the context (`programCounter`, `stackPointer`, `framePointer`, `contextPointer`, `flags`, `exceptionThrown`), the frames, the C stack | `push_frame`, `pop_frame`, `invokeCommon`, `throwException`, `call_static_method`, `call_instance_method`, `tryYield` | natives call Java in nested `execute()`s; threads share the C stack |
| operand stack (`operandstack.c`) | `stack[]`, with a type tag per word | push, pop, local variables, `osStackInit` | is a `byte[]` in the heap; scanned by the collector |
| instructions (`instruction1.c`) | none of its own: they work on the operand stack | about 150 bytecodes | everything above |
| class tables (`constantpool.c`) | the `Class[]`; generated tables are constant | method and field lookup, `CP_IsInstanceOf`, LDC | invoke, field access, casts |
| arrays (`jarray.c`) | length and elements in the payload | create, get, set, regions, bounds | instructions, marker |
| arithmetic (`nostdlib.c`) | none | division, remainder, shifts without a library | compiler calls |
| objects and fields (`objectaccess.c`, `jni.c`) | slots in the payload, static memory | `PutField`, `GetField`, static fields, `newObject`, the natives' accessors | instructions, natives |
| console, natives, debugger | none of interest | output | - |
| threads | `aSchedulingEnabled`, `yieldCount` | `tryYield`, `frStartScheduling` | the natives of `java.lang.Thread` are **not** in the repository |

What is hard in it:

* the heap's walks (`heap_sweep`) merge blocks under their own feet, and one `next` field serves the
  free list and the marker;
* marking threads its worklists through the headers of the objects it visits, and `next == NULL`
  means both "on no list" and "last of the list" (the source asks at `heap.c:97` whether that is sound);
* a collection runs inside an allocation, at which time objects may be known to C variables only;
* Java and C call each other, but one-shot flags in the context tell `execute()` when to return, and
  exceptions pop frames past those flags;
* green threads switch the context, not the C stack;
* words, sizes and marks of few bits.

What makes each component correct, in one sentence: the blocks tile the heap and the free list is
exactly the free ones (heap list); after marking exactly the reachable objects are marked, with no
link left (marking); nothing that can still be used is freed and out of memory means it (collection);
every `execute()` returns with its own frame and every native goes on in its own caller (execution);
a frame is popped to the state it was pushed in (operand stack); lookups find what the tables say
(class tables); an element access is inside the array, a size is what was asked for (arrays); quotient
and remainder are those of the integers (arithmetic).

## The modules

| Module | Models |
|---|---|
| `Allocator` | what an allocator promises: allocated blocks are inside the heap, disjoint, of the size asked for, and an allocation fails only when no gap is large enough |
| `HeapList` | `heaplist.c` and `list.c`: headers at addresses, `freeList` in address order, best fit with splitting, merging on both sides, the sweep one header per step |
| `HeapListLoops` | the loops of `heap_alloc`, `list_insert_ordered`, `heap_stat` and `heap_validate` as functions of the variables they start with (`While`), to compare with `HeapList`'s quantified definitions |
| `HeapMark` | `mark2` and `markObject3`, one action per pass of a loop, over an arbitrary object graph |
| `Gc` | allocation, collection and retry; roots of all threads; protection; the callers that hold unrooted objects: startup, `NewString`, the throw functions |
| `Execute` | the nesting of `execute()` and natives: frames with their `returnFromVM`, the flag in the context, `exceptionThrown`, the shared C stack, thread switches |
| `Program` | the generated tables as constants: methods, code addresses, exception handlers |
| `CallStack` | what a Java stack promises: a sequence of calls with variables and operands of their own |
| `Frames` | the array of words: `push_frame`, `pop_frame`, `invokeCommon`, loads, stores, dups, returns, `throwException`, the stack trace natives |
| `Words` | unsigned words of C, their sign bit, wrap and negation, for words of any width |
| `Division` | `__udivsi3` and what `__divsi3`, `__modsi3`, `__divdi3`, `__moddi3` make of it, one pass of a loop per step |
| `Shift` | `__ashldi3`, `__ashrdi3`, `__lshrdi3`: shifts of longs, bit by bit over two halves |
| `Arithmetic` | the arithmetic, conversion, comparison and shift instructions; those a small processor cannot do call `Division` or `Shift` |
| `ClassTables` | the generated tables of classes, methods, fields, references to constants, as constants with what their generator guarantees |
| `Lookup` | the searches of `constantpool.c`: `getMethodInClass` by bisection, `getFieldInClassbyLinkId`, up the superclasses; `getConstant`, `getClassReference`; `is_S_SubClassing_T`, `CP_IsInstanceOf` |
| `Instructions` | the instructions that search (`invokevirtual`, `getfield`, `ldc`, `new`, `instanceof`, `checkcast`, ...), over `Lookup`, beside `Arithmetic` |
| `JavaMemory` | what the memory of a Java program promises: separate objects whose variables start with zero and keep what was stored, exceptions when `jni.h` says |
| `Memory` | the bytes of the heap below that: array headers, lengths, elements of every size, regions, fields of one and two words, static fields |
| `MemoryDocs` | four statements of `jni.h`, `jarray.c` and `frame.c` about that memory, and which of them an execution refutes |
| `HeapListProofs`, `HeapMarkProofs`, `GcProofs`, `ExecuteProofs`, `FramesProofs`, `ArithmeticProofs`, `InstructionProofs`, `MemoryProofs` | the theorems |
| `MC*` | instances for TLC |

How they compose. `HeapList` implements `Allocator` (its property `ImplementsAllocator` is the
abstract specification under a refinement mapping: a block in use is an allocated interval; sizes at
the level of requests). `Gc` takes the allocator as a set of equal blocks, marking as one step whose
result is what `HeapMark` shows marking to end with (the reachable objects), and sweeping as one step
whose result is what `HeapList` shows a sweep to end with (unmarked blocks in use are free, marked and
protected ones untouched). `Execute` covers the calls around it; where the two meet (an allocation
that calls Java to throw) `Gc` has the C code's phases as `doing[t]`.

`Frames` implements `CallStack`: the refinement mapping
follows the saved context pointers and cuts the array into calls. `Execute` and `Frames` look at the same
functions from two sides, the nesting of C functions and the words of one thread's stack; a frame of
`Execute` is a call of `CallStack` of which only `returnFromVM` is kept.

`Memory` implements `JavaMemory`: the refinement mapping reads each object's variables out of the bytes.
`Memory` takes blocks one after the other from a heap that is never collected; that a block is its
owner's alone is what `HeapList` and `Gc` show. `Instructions` extends `Arithmetic` and `Lookup`: one
instruction at a time is issued, runs through the library's or the table's loop, and ends with its result,
an exception, or the machine's exit. The calls and jumps that follow are in `Frames` and `Execute`.

How state corresponds. Heap addresses are offsets in units of `align_t`, a header takes
`HEADER_SIZE` of them; a header is a record with the fields of `header_t`. Objects in `HeapMark` and
`Gc` are the blocks themselves; a payload is the set (or sequence of slots) of objects it refers to,
which abstracts from payload words that are no references. The context of a thread is split: `Gc` has
the references below its stack pointer, `Execute` its frames (a frame is just the flag it was pushed
with), `flags` and `exceptionThrown`, `Frames` the remaining registers and, again, `flags`. A word of
`stack[]` is a member of a small set, its tag included; words above the stack pointer are all `Stale`, so
that one that is read again, as a variable that was never cleared would be, is seen at once. In `Execute` and `Frames`, whatever
depends on generated tables (which method has which handler) is a nondeterministic choice; `Lookup` has the
tables as constants. In `Arithmetic` a word is the unsigned number its bits are, and a long is one entry of the
stack; in `Memory` it is what instructions store, and an int is `ALIGN` bytes there. An address of `Memory`
counts bytes, a reference counts words, as `align_t *` does. The bounds of a search and its class are the
variables of the C functions; `passed` in `Lookup` and `past` in `Division` are history variables.
So are `lost` in `Gc` and `astray` in `Execute`: they record that one of the things went wrong that the
runs `gc_startup`, `gc_throw`, `exec_unwind` and `exec_threads` are about, and no action depends on them. `refuted` in `MemoryDocs` is another one.

### Two conventions

* A call that ends the machine (`jvmexit`: stack overflow, uncaught exception, no memory at startup) is
  a step that does not exist; hence `CHECK_DEADLOCK FALSE` in the configurations of `Gc`, `Execute` and `Frames`. `Lookup` and `Division`
  keep the exit as a state, from which nothing follows, since which searches exit is one of their questions.
  In `Memory` nothing is left to do once the bounded heap is full and every operand names a value outside it.
* Operators whose comment starts with "Faulty:" are not part of a specification. Each is a plausible
  wrong version of the definition below it, and breaks the property `PROJECT.json` pairs it with.

## The runs

| Run | Bounds | Shows |
|---|---|---|
| `heap_list` | 9 units, headers of 2 | types, `Tiling`, `FreeListExact`, `Coalesced`, the sweep's `SweepOnTrack` and `SweptClean`, `InUseUndisturbed`, `ImplementsAllocator`, `SweepEnds`; the loops agree with the definitions (`InsertLoopAgrees`, `BestFitLoopAgrees`) and `heap_validate` passes (`ValidatePasses`) |
| `heap_mark` | all graphs of 3 objects with 2 slots; a family of graphs of 5 objects, 3 deep; 2 roots | `NoneForgotten`, `LinkedIsPending`, `NoLinkLeft`, `MarkedIsReachable`, `MarkingEnds` |
| `gc` | 6 blocks, 2 classes, 2 threads, 2 bits of mark, 2 references per stack | `NeededIsKept`, `NoStaleMark`, `OutOfMemoryIsReal`, `ProtectionEnds` |
| `gc_startup` | 3 blocks, 2 classes | violation of `ClassesAreKept` |
| `gc_throw` | 5 blocks, 1 class | violation of `ExceptionIsKept` |
| `exec` | 2 threads, 4 frames each, C stack of 5 | `FramesMatch`, `NativesGoOn`, `NativeSeesException` |
| `exec_unwind` | 1 thread | violation of `EveryExecuteHasItsFrame` |
| `exec_threads` | 2 threads | violation of `NativeKeepsItsThread` |
| `frames` | 18 words, 3 methods, 3 handlers, 2 Java words | `FramesNested`, `StackTraceExact`, `ImplementsCallStack` |
| `instructions` | ints of 4 bits, longs of 8, 9 classes, 3 levels of superclasses, methods 5 to a table | `DivisionExact`, `ArithmeticExact`, `BisectionOnTrack`, `LookupExact`, `CastsExact`, `InstructionEnds` |
| `memory` | heap of 6 words of 2 bytes of 2 bits, arrays of up to 2 elements, 2 slots, 2 static fields, longs that fit an int, regions of 1 or 2 bytes | `TypeOK`, `ArraysHaveRoom`, `ImplementsJavaMemory` |
| `memory_docs` | 24 words, arrays of length 1 and 7 with sizes cut at 7, empty regions, a long beyond an int | violation of `SomeStatementHolds` |

Why the bounds are enough to meet the interesting cases:

* `heap_list`: nine units hold a block with free neighbours on both sides, which is where merging and
  the sweep's offsets can go wrong, rests of every size up to and beyond a header, and requests that fit
  exactly, with one unit left, or not at all.
* `heap_mark`: the small family has every way two objects can share and cycle; the other one makes an
  object wait on one list while another link to it is followed, and lets the tail of one list lead into
  the other, which needs three levels.
* `gc`: a mark of two bits takes two values (1 and 3), so it is back after two collections; two threads suffice for one
  to collect while the other is in the middle of something; with six blocks, main's stack, the class
  array and the instances of two classes leave two for objects, so that a collection is needed with either needed or not,
  during startup as well.
* `exec`: four frames and five C functions are two natives that both call Java, of one thread or of two, with room for
  frames that do not end an `execute()` below, between and above those that do.
* `frames`: 18 words hold three frames, the topmost with arguments from the middle one, which is the first
  whose saved frame pointer and context pointer are not those of the start method; five operands are what
  `dup2_x1` leaves. Stacks that hold less have room for deeper operands.
* `instructions`: all pairs of ints of four bits, which include 0, the most negative one, and quotients for which
  the divisor is doubled up to its sign bit; longs around 0, the halves' border and both ends. A method table of five
  makes the bisection go left, right, and narrow to one entry on both ends; the sought ids lie below, between and above
  those declared, in a class and in its superclasses. The classes include arrays of arrays and of interfaces.
* `memory`: six words hold three arrays, or two objects, next to each other, so that an access one element too far
  lands in a neighbour; byte arrays of odd length, whose last word is half used; indexes on both sides of both ends.

### Fairness

`heap_sweep` and `markObject3` are single C calls that nothing interrupts: their loops are weakly
fair in every step (`SweepEnds`: WF of the sweep's steps; `MarkingEnds`: WF of the next-state
relation). `InstructionEnds` assumes weak fairness of the steps of an instruction: one thread runs it, and no
thread switch or collection comes in between, so each pass of its loop is followed by the next. Issuing
another instruction is not fair: a program may stop. `Memory` has no loops of its own. `Gc`, `Execute` and `Frames` state safety only: Java code need not end, and which thread the natives
of `java.lang.Thread` choose is not known here.

### What `gc` and `exec` say of what goes wrong

Collections do free objects that are needed, and exceptions and threads do part `execute()` from its frames: the
violation runs show how. The runs `gc` and `exec` do not exclude any of it. Exceptions are thrown at any time,
unwind as far as they will, natives call Java after they threw, and threads switch in every `execute()`.
What the runs claim of it is that nothing *else* goes wrong:

* `NeededIsKept` holds until a collection frees an instance in the class array under construction, or an
  exception between its constructor and its throw (`lost`). That these two are all there are is the property: no other C variable, root or
  mark lets a needed block go. `NoStaleMark`, `OutOfMemoryIsReal` and `ProtectionEnds` hold after a loss too.
* `FramesMatch` and `NativesGoOn` hold until a set `RETURN_FROM_VM` is overwritten (by `pop_frame` or
  `push_frame`), a native whose caller's frame is gone calls Java, or an `execute()` returns for
  another thread than the one that called it (`astray`). `NativeSeesException` holds always.

After such a step the C code goes on with a dangling reference, or a stack that is not the one it expects. The modules go on as
well, with the same blocks, frames and C functions; what the bytes then hold is not modelled.

## Findings

* `constantpool.c:718` says of the new `Class[]` "Don't GC our array of classes"; protection keeps the
  array but it is not a root, so a collection during startup frees the instances in it (`gc_startup`).
* The throw functions hold the exception in a C variable while its constructor runs and returns;
  `execute()` may switch threads before the thrower gets it back, and nothing refers to it then. The
  comments at `types.h:133` and `jni.c:143` say such an object must be protected (`gc_throw`).
* `frame.h:55` promises that `execute()` returns when a frame pushed with `returnFromVM` is popped; an
  exception that pops one more frame clears the flag (`exec_unwind`).
* The same promise with threads: the `execute()` that returns is the innermost one of the C stack, not
  the one of the thread whose frame was popped (`exec_threads`).
* `jarray.c:42` says that `GetPointerToArrayPosition` returns a valid pointer unless it throws. The size of
  an array's elements is kept in a `u2` (`jarray.c:213`, and `jarray.c:169` for objects) while its length is not cut: an
  `int[20000]` gets a block of 14464 bytes, and the check passes for indexes far beyond it (`memory_docs`; with sizes
  below the limit `memory` shows that every array has room).
* `jni.h:267` and `jni.h:279` promise an exception for byte regions with `start < 0` or `start+len > length`. The code
  checks the indexes `start` and `start + len - 1` (`jarray.c:115`, `jarray.c:122`), which refuses empty regions at 0 and at the end (`memory_docs`).
* `jni.h:139`: `GetLongArrayElement` "returns the long element". It is declared as a `jint` (`jarray.c:204`), and the upper half
  is lost (`memory_docs`).
* `frame.c:212` says "Clear static area", but `memset`'s value and length are exchanged (`frame.c:213`): the first static field starts with bytes
  that count the static fields, the others with what they had (`memory_docs`). The wrong type tag
  that goes with it is not `OBJECTREF`, so the collector does not follow it.

The last four share the run `memory_docs`. `MemoryDocs` has the four statements of the documentation, as formulas, and keeps in
`refuted` those that the execution so far was an exception to. Its property says that one of them holds of every execution. TLC
finds one execution that refutes all four: the static field is 5 at the start, a `byte[7]` gets no room for its elements, a long of
100 is read as 4, and `SetByteArrayRegion` with start 0 and length 0 throws.

What else the code does differently from what one may expect, kept in the modules as it is:

* `__modsi3` of the most negative dividend has the wrong sign, or not, depending on what the compiler
  concludes from a negation that cannot overflow; `DivisionExact` leaves this remainder out. The
  processor's own division, where there is one, is not modelled (the most negative int by -1 traps on x86).
* `if_icmple` and its kin pop both operands in one expression (`instruction1.c:71`): C leaves their order
  open. The model takes the left call first, which the comment above it relies on.
* A `char` is a signed byte.
* `NewObjectArray` throws `OutOfMemoryError` twice (`jarray.c:176`, after `heap.c:45`). When the first throw has set
  `RETURN_FROM_VM`, the call of Java that makes the second exception clears it before `execute()` looks: one of the ways to go
  `astray` in `Execute`. `putfield` of two words on null throws twice, too (`instruction1.c:643`); `Memory` keeps the outcome only.
* An array of interfaces makes `CP_IsInstanceOf` exit the machine (`constantpool.c:930`), and so does a static method called
  through a subclass (`constantpool.c:390`); `CastsExact` and `LookupExact` say exactly when.

## Proofs

All theorems hold for every value of the constants that satisfies the named assumption of the module.

`HeapListProofs` (any heap, header and request sizes). `IInv` is the conjunction of `TypeOK`, `Tiling`,
`FreeListExact`, `Coalesced` and the two sweep invariants. None is inductive alone: that merging keeps
the tiling needs the free list to be exact (the neighbours it merges with are the list's), that the
list stays sorted and coalesced needs the tiling (two free blocks are neighbours exactly when one ends
where the other starts), and the sweep's position is a header only because merging is known to remove
no header but those of merged blocks. One lemma per operation, each with one step per conjunct.
`HeapIsTiled`, `FreeListIsExact`, `SweepIsOnTrack`, `TypeCorrect` and `InUseStaysPut` (an action
property: no step changes the header of a block in use but the calls for that block) follow. So does the
refinement `HeapIsAllocator`: every step is one of `Allocator` or a stutter. What needs proof there is that a failed
`heap_alloc` had no room: a gap between blocks in use is covered by blocks (`Tiling`), which are all free and of
which no two are neighbours (`Coalesced`), so it lies in one free block, which is too small for the request. That one
walks from block to block is the library's least-element induction.

The loops of `HeapListLoops` are recursive functions on the values of their variables. Two lemmas serve all of them:
`WhileStep` (such a function exists, whether or not the loop ends: its value is where the states passed from the first one
end) and `WhileEnds` (an invariant of the body and a number that every pass lowers give the loop's last state). For
the scans of the free list the number is the distance to the end of the heap (`LeftFalls`). In `BestFitLoopIsExact`
the invariant says that `best_fit` is the first of the smallest fitting blocks among those behind. `HeapValidates` needs
one thing more, that the sum over the memory equals the sum over the list: `WalkOver` takes the walk over
the memory from one free block to the next, which `Tiling` makes a walk over blocks in use only, so that both sums
grow by the same block (`SummedFirst`, `SummedNext`).

`HeapMarkProofs` (any set of objects, slots, roots, any graph). The worklists are not sequences but what
the `next` links lead to, possibly cyclic, so the argument works with `Pending`, the least set that
holds both heads and is closed under `next`. `IInv` says that every object marked is reachable, that
what a scanned slot refers to is marked or pending (`NoneForgotten`), and that whatever has a link is
pending (`LinkedIsPending`): an object that is linked twice may move between lists, yet nothing leaves
`Pending` but the object popped. At the end nothing is pending, so marked objects are closed under
references, which gives `MarkedIsReachable`, and no link is left.

`GcProofs` (any heap, classes, threads, stacks and payloads; any `MARK_BIT_SIZE` above 1). The theorems have no hypotheses
but the assumptions of `Gc`. `NeededIsKept` is not inductive: a push may make a block needed that was not.
What is: everything a stack, a static field or a payload in the heap refers to is an object, no block of the startup, and until a
loss it is in use (`ReferToSound`); a step can then reach used blocks only. That a collection keeps this needs the marks
(`MarksOnTrack`: odd, so that none is 0, and only the last one is in the heap), since an object that has the next mark
already is not looked into; that protected blocks, which the marker does not visit, refer to nothing
(`ProtectedRefersToNone`, `CallOnTrack`); and that what C variables hold is protected, or still on the stack of the
constructor (`HeldOnTrack`): where it is not, the collection that frees it sets `lost`. Marks, protection and types do not depend
on `lost`, which is why `MarksAreFresh`, `ProtectionIsReleased` and `OutOfMemoryOnlyWhenFull` hold after a loss. `CollectedAll` carries the result of the collection to the retry, for
`OutOfMemoryIsReal`. `MarkBitsAssumption` of `Gc` spells out that 2 to the `MARK_BIT_SIZE` is even and at least 4, which
the provers cannot compute. Sweeping and marking are single steps in `Gc`; that they have this effect is what
`HeapMarkProofs` and `HeapListProofs` prove of their loops.

`ExecuteProofs` (any number of threads, frames, depth). The theorems have no hypotheses. `IInv` relates, until something goes
`astray`, the Java stacks and the C stack: an
`execute()` of thread t is on the C stack for exactly the frames of t that were pushed with
`returnFromVM`, and for the one just popped while the flag is set (`HasFrame`); C functions alternate,
an `execute()` is of the same thread as the native that called it and one frame above that native's caller (`Alternates`); of one
thread's C functions those further up have higher frames (`Ordered`); an unwound frame comes with `exceptionThrown`. `HasFrame` alone
does not say that it is the innermost `execute()` whose frame was popped: `Ordered` does, and it needs `Alternates`.
Threads may switch in any `execute()`, so neither says anything of the current thread; that the one that returns is its own is
what `astray` watches. `TypeCorrect` and `ExceptionsAreSeen` hold whether or not something went astray.

`FramesProofs` (any size of the stack, any methods, bodies and handlers that satisfy `ProgramAssumption`). All theorems
assume `LocalsFit`: fewer than 256 locals, because `push_frame` takes the number of locals as a `u1` (`frame.c:64`)
while the tables hold it as a `u2` (`constantpool.h:38`). `IInv` says that the array of words is a stack of
frames: there are contexts `fr[0]`, ..., `fr[n]`, the last one in the registers, such that each frame is as large as
its method says, the five words saved below its operands are the context of its caller, the caller's `pc` is behind
the instruction it is at, and the frames lie one above the other (`Layout`). It is existential because nothing in the
stack says how many frames there are; a walk (`unwind`, the stack trace) meets exactly these (`WalkAscends`), and the
calls that `CallsIn` reads off the stack are their images (`CallsAreFrames`). `FramesNested` and `StackTraceExact`
follow. For the refinement `FramesAreCallStack` there is one lemma per action (`...Steps`). Local variables and
operands are sequences of words on both sides, so loads, stores and dups come down to where a write lands: within the
part of the top frame it is meant for, so that every other part and every frame below is as before. Returns and
exceptions are the same step of `CallStack`, in which the frames above the j-th end and the j-th goes on; for an exception j
is the topmost frame with a handler for it, and `ProgramAssumption` puts the handler in the body that has the table.

`ArithmeticProofs` (words of any width). `DivisionExact` speaks of the result only; what is inductive (`IInv`) is about
both loops. The first loop records in `past` how the divisor was doubled. The second goes back over it: with
`Above` the divisor before its last halving, `Dividend = res * Above + a` and `a < Above` hold after each pass,
whether or not the divisor was subtracted, because each entry of `past` is twice the one before it, which
holds only if no doubling loses the sign bit. At the end `Above` is the divisor itself. `DivisionIsExact`
then adds the signs: `SignedQuotient` for `__divsi3` and `__divdi3`; for `__moddi3`, whose words are multiplied and subtracted
unsigned, `WordsMultiply` and `SignedWrap` show that what was lost modulo the word comes back.
For the shifts (`SInv`) the two halves, put together, are after k passes the argument shifted by k: the carry
between the halves is what makes one pass a doubling or a halving (`LeftStep`, `RightStep`, `SignedRightStep`), and a
quotient of a quotient, or twice a number cut to its width, is the quotient or cut of the whole (`HalveQuotient`, `DoubleWrap`).
`AInv` ties both loops to the instruction that called them (`DivisionCalled`, `ShiftCalled`), so that when one is
done its result is the one of the operands on the stack. The instructions that call nothing come
down to `WrapRing`: to cut sums and products to their width before or after makes no difference.

Four assumptions are about numbers. `ArithmeticAssumption` and `WidthsAssumption` say how the widths fit: a long has
twice the bits of an int, `2^IntBits` is the number of ints, and it is a multiple of the bits of a
long and of the number of bytes (so that a shift count masked, or a byte cut, does not depend on its sign), as it is for
32, 64 and 8 bits and for 4, 8 and 2 in `instructions`. `LongBitsAssumption` and `DoublingAssumption` say what the powers of two
are, which the provers cannot compute.

`InstructionProofs` (tables of any size and content that satisfy the assumptions of `ClassTables`). `LInv` adds to
`BisectionOnTrack` what the other loops have passed over (`ScanOnTrack`, `ReferencesOnTrack`)
and the path through the superclasses (`PassedInVain`: from the class asked for, every class given up leads to
another one or to the class at hand, and declares nothing sought). That a bisection never loses its target needs the
tables to be sorted; that a search answers with the *nearest* class follows from `PassedInVain` when
the search ends (`PassedLeads`).
`CInv` is about `CP_IsInstanceOf`, which replaces the two classes it compares by their elements: the classes at hand
are castable exactly if those asked about are (`Asked`), and have the same innermost elements, which is what an
exit depends on. `Castable`, `Supers` and `Innermost` are recursive functions over the tables; that functions which
satisfy these equations exist is shown by building them as least fixed points (`CastableDefined`, `SupersDefined`,
`InnermostDefined`), whether or not the element types have a cycle. `SuperclassAssumption` holds for tables that
come from Java classes: a superclass is a class, and the superclasses of every class lead to `Object`. The
theorems about searches do not use it: a cycle would keep a search from ending, which is liveness, not make it wrong.

`MInv`, the conjunction of `AInv`, `LInv`, `CInv`, `SearchCalled` (the search at hand is the one of the instruction at
hand) and `CastsLeft`, is the invariant of the machine of `Instructions`, in which every instruction is issued after any
other. From it follow all safety properties of the run `instructions`: `ArithmeticIsExact`, `CastsAreExact`,
`MachineDivides`, `MachineLooksUp` and `MachineBisects`.

`MemoryProofs` (words, stackables, headers and a heap of any size, any operands). `TypeCorrect` has no hypotheses: whatever
sizes are cut, headers stay apart and bytes stay bytes. `ArraysFit` assumes `SizesFit`: no instance and no array
is as large as what a `u2` holds, which the code does not check, and `memory_docs` shows what happens otherwise. The
inductive invariant adds to the types that every block has room for its variables (`Fits`), so that an access in bounds
stays within its block, and that what is not allocated is zero (`Fresh`), so that a new object starts with
zeroes although only the length of an array is written. The refinement `MemoryIsJava` assumes also `ReferencesFit`, that
an int can hold a reference, `LongsFit`, that the longs stored can be held by an int, and `RegionsNotEmpty`; the same
run shows what happens otherwise. `JavaMemory` itself has what `jni.h` says. It rests on two kinds of lemmas. The first are about numbers: the bytes of a number are
read as that number, cut to their size (`NumberOfBytes`); `Number` is a recursive function, and what its partial
sums are is shown for the least place where they would be wrong. Hence what is read of an element is what `JavaMemory` keeps of
the value stored (`ElementIsKept`). The second are about places: a store within the variables of an object changes
the bytes of these variables, and no other variable, length or object (`StoreKeeps`), and an allocation changes no object there
was (`AllocateKeeps`). Every instruction is then one of `JavaMemory` (`LoadIsRead`, `StoreIsWrite`, ...). Two assumptions of
`Memory` are for the provers: `PowersAssumption` says what `^` is, `OperandsAssumption` that ints are in
their range and that a caller of `SetByteArrayRegion` has as many bytes as it says. `MCMemory` has TLC evaluate these
hypotheses for the instance of `memory`.

Every safety invariant and action property that a passing run checks, and every refinement, is stated by a theorem. Model-checked only: liveness
(`SweepEnds`, `MarkingEnds`, `InstructionEnds`), which is out of the provers' reach together with `ENABLED`; and, by their nature,
the counterexamples of the runs that expect a violation. Induction over
data is out of the provers' reach as a rule. Where the proofs above need it over a natural number (the gaps and loops of `HeapList`,
the frames and walks of `Frames`, the bytes of `Memory`), the least counterexample of a set takes its place (`Least`, from `WFMin` of
`WellFoundedInduction`).

## Not modelled

The natives of `java.lang.Thread` and the generated tables are not in the repository: they are external,
modelled from how this code uses them.

* The paths on which an allocation fails inside the handling of an exception (`heap.c:93`, `exceptions.c:91`,
  `constantpool.c:866`) and what the natives then do with data: that code goes on with NULL references, and what
  it reads and writes depends on what lies at address 0, outside any module's state. They are listed as hazards.
* Errors that `jni.h` declares to be the caller's (a null object, an unknown field name): the functions exit, or
  read address 0.
* The bitwise instructions, constants that are part of the code, the instructions that are undefined here (floating
  point, `tableswitch`, `lookupswitch`, `saload`, ...: all exit), the checks of the type tag of stackables.
* Debugger, disassembler, console output, `heaptest.c`, the natives that print or ask the time, `memset` and `strlen`, and the build:
  they have no state the properties are about. The functions prefixed `deprecated_` are never called.

## Plan

1. `HeapList`, `HeapMark`, `Gc`, `Execute` with their runs; proofs of `HeapList`, `HeapMark` and `Execute`. Done.
2. `Frames` over `CallStack`. Done, but for the registers of the other threads and the natives that switch them.
3. `Lookup` over the class tables, with its proofs. Done, in `InstructionProofs`.
4. `Division` and its proofs, `Shift`, `Arithmetic`. Done.
5. `Memory` over `JavaMemory`: arrays and fields. Done.
6. `Instructions`: those that search or compute. Done; see above for what is left out.
7. Proofs about `Gc`, for any number of classes and exceptions at any time. Done.
8. `FramesProofs` with the refinement `ImplementsCallStack`, and the refinement `ImplementsAllocator`. Done.
9. `MemoryProofs` with the refinement `ImplementsJavaMemory`. Done.
10. Proofs of the loops of `HeapListLoops`, of `CastsExact` and of `ArithmeticExact` for every instruction. Done.

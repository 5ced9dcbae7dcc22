------------------------------- MODULE Memory -------------------------------
(***************************************************************************)
(* Arrays, fields and static fields as the machine lays them out: blocks   *)
(* of a heap of bytes, each with a header, and the instructions and native *)
(* functions that allocate, read and write them (jarray.c, objectaccess.c, *)
(* instruction1.c).  heap_alloc takes the next free words; reuse of blocks *)
(* is the subject of the modules HeapList and Gc.                          *)
(***************************************************************************)
EXTENDS Integers, Sequences, FiniteSets, Functions

CONSTANTS ALIGN,                   \* bytes of an align_t, an int and a pointer
          STACKABLE,               \* bytes of a stackable
          HEAP_HEADER_SIZE,        \* words of a header
          HeapSize,                \* words of the heap
          SizeLimit,               \* 65536: the sizes a u2 can hold
          ByteTop, IntTop,         \* the sign bits of byte and int
          NumSlots, NumStatics,    \* of an object, and of static fields
          Ints, Longs, FieldInts,  \* the values instructions store
          Counts, Indexes, Lengths, Buffer   \* and their other operands

ASSUME MemoryAssumption ==
  /\ {ALIGN, STACKABLE, HEAP_HEADER_SIZE, HeapSize, SizeLimit, ByteTop, IntTop} \subseteq Nat \ {0}
  /\ 2 * IntTop = (2 * ByteTop) ^ ALIGN
  /\ STACKABLE % ALIGN = 0
  /\ NumSlots \in Nat /\ NumStatics \in Nat

\* Ints are in their range; a caller gives SetByteArrayRegion a buffer of len bytes.
ASSUME OperandsAssumption ==
  /\ Ints \cup FieldInts \cup Counts \cup Indexes \cup Lengths \subseteq -IntTop .. IntTop - 1
  /\ Longs \subseteq Int
  /\ Buffer \in Seq(Int)
  /\ \A len \in Lengths : len <= Len(Buffer)

VARIABLES mem,                     \* the bytes of the heap
          blocks,                  \* the headers: the type and the words of a block
          top,                     \* the first free word
          staticMemory,
          event                    \* the last instruction with its operands, and its outcome

mvars == <<mem, blocks, top, staticMemory, event>>

Base == 2 * ByteTop
Byte == 0 .. Base - 1

\* What ^ is, for the sizes in bytes of the values there are.
ASSUME PowersAssumption ==
  /\ Base ^ 0 = 1
  /\ \A k \in 0 .. 2 * ALIGN + STACKABLE :
       Base ^ k \in Nat /\ Base ^ (k + 1) = Base * Base ^ k

ArrayTypes == {"object[]", "boolean", "byte", "char", "int", "long"}
ElementSize(type) ==
  CASE type \in {"boolean", "byte", "char"} -> 1
    [] type \in {"int", "object[]"} -> ALIGN
    [] type = "long" -> 2 * ALIGN

Result(values) == [kind |-> "result", values |-> values]
Throw(exception) == [kind |-> exception, values |-> <<>>]
NoEvent == [insn |-> <<"none">>, ref |-> 0, outcome |-> Result(<<>>)]
Event(insn, ref, outcome) ==
  event = NoEvent /\ event' = [insn |-> insn, ref |-> ref, outcome |-> outcome]

\* The bytes of a number, from the lowest, and the number they are.
BytesOf(v, size) == [k \in 1 .. size |-> (v \div Base ^ (k - 1)) % Base]
Number(bytes) ==
  LET upTo[k \in 0 .. Len(bytes)] ==
        IF k = 0 THEN 0 ELSE upTo[k - 1] + bytes[k] * Base ^ (k - 1)
      n == upTo[Len(bytes)]
  IN IF bytes[Len(bytes)] >= ByteTop THEN n - Base ^ Len(bytes) ELSE n

Bytes(address, size) == [k \in 1 .. size |-> mem[address + k - 1]]
Written(m, address, bytes) ==
  [x \in DOMAIN m |-> IF x \in address .. address + Len(bytes) - 1
                      THEN bytes[x - address + 1] ELSE m[x]]

\* Faulty: rounds down.
ToAlignedSizeDown(n) == n \div ALIGN

ToAlignedSize(n) == (n + ALIGN - 1) \div ALIGN

GetObjectPayload(ref) == (ref + HEAP_HEADER_SIZE) * ALIGN
GetAlignedArrayHeaderSize == ToAlignedSize(ALIGN)
jaGetArrayPayLoad(ref) == GetObjectPayload(ref) + GetAlignedArrayHeaderSize * ALIGN
GetAlignedArraySize(payloadSize) == GetAlignedArrayHeaderSize + ToAlignedSize(payloadSize)
GetArrayLength(ref) == Number(Bytes(GetObjectPayload(ref), ALIGN))
Element(ref, i) == jaGetArrayPayLoad(ref) + i * ElementSize(blocks[ref].type)
Slot(ref, address) == GetObjectPayload(ref) + address * STACKABLE

\* resetVM: memset fills the first static field with the number of static fields,
\* its value and its length having changed places.  The others start as 0.
ClearedStatic(address) ==
  IF address = 0 THEN Number([k \in 1 .. STACKABLE |-> NumStatics % Base]) ELSE 0

Init ==
  /\ mem = [x \in ALIGN .. (HeapSize + 1) * ALIGN - 1 |-> 0]
  /\ blocks = <<>>
  /\ top = 1
  /\ staticMemory = [address \in 0 .. NumStatics - 1 |-> ClearedStatic(address)]
  /\ event = NoEvent

\* Faulty: takes the header's words from the block's.
RoomForPayload(size) == top + ToAlignedSize(size) <= HeapSize + 1

\* heap_alloc finds room for a header and size bytes.
Room(size) == top + HEAP_HEADER_SIZE + ToAlignedSize(size) <= HeapSize + 1

\* heapAllocObjectByByteSize, whose size is a u2; the block is all zero, except
\* for what the caller initialises.
heapAlloc(insn, bytes, type, initial) ==
  LET size == bytes % SizeLimit
      words == HEAP_HEADER_SIZE + ToAlignedSize(size)
  IN /\ IF Room(size)
        THEN /\ blocks' = [ref \in DOMAIN blocks \cup {top} |->
                      IF ref = top THEN [type |-> type, words |-> words] ELSE blocks[ref]]
             /\ top' = top + words
             /\ mem' = Written(mem, GetObjectPayload(top), initial)
             /\ Event(insn, top, Result(<<top>>))
        ELSE /\ Event(insn, 0, Throw("OutOfMemoryError"))
             /\ UNCHANGED <<mem, blocks, top>>
     /\ UNCHANGED staticMemory

newObject ==
  heapAlloc(<<"new", "object", NumSlots>>, NumSlots * STACKABLE, "object", <<>>)

\* f_newarray and f_anewarray.  The size of the elements is cut to a u2 before
\* the block is allocated, the length in the block is not; NewObjectArray stores
\* null in every element.
NewArray(type, count) ==
  LET payloadSize == (count * ElementSize(type)) % SizeLimit
      insn == <<"new", type, count>>
      nulls == IF type = "object[]" THEN [k \in 1 .. count * ALIGN |-> 0] ELSE <<>>
  IN IF count < 0
     THEN /\ Event(insn, 0, Throw("NegativeArraySizeException"))
          /\ UNCHANGED <<mem, blocks, top, staticMemory>>
     ELSE heapAlloc(insn, GetAlignedArraySize(payloadSize) * ALIGN, type,
                    BytesOf(count, ALIGN) \o nulls)

\* Faulty: the first index after the last element is taken for one.
OutOfBoundsLate(ref, i) == i < 0 \/ i > GetArrayLength(ref)

OutOfBounds(ref, i) == i < 0 \/ i >= GetArrayLength(ref)

\* GetPointerToArrayPosition for the indexes: it throws, or then follows.
WithPosition(insn, ref, indexes, then) ==
  /\ UNCHANGED <<blocks, top, staticMemory>>
  /\ IF ref = 0
     THEN Event(insn, ref, Throw("NullPointerException")) /\ UNCHANGED mem
     ELSE IF \E i \in indexes : OutOfBounds(ref, i)
     THEN Event(insn, ref, Throw("ArrayIndexOutOfBoundsException")) /\ UNCHANGED mem
     ELSE then

\* What an instruction pushes for the bytes of an element: chars are signed here,
\* and GetLongArrayElement returns an int.
Pushed(type, bytes) ==
  CASE type = "boolean" -> IF Number(bytes) = 0 THEN 0 ELSE 1
    [] type = "long" -> Number(SubSeq(bytes, 1, ALIGN))
    [] OTHER -> Number(bytes)

\* The bytes it stores for the value it pops; f_bastore masks a boolean.
Popped(type, v) == BytesOf(IF type = "boolean" THEN v % 2 ELSE v, ElementSize(type))

ElementBytes(ref, i) == Bytes(Element(ref, i), ElementSize(blocks[ref].type))

\* f_aaload, f_baload, f_caload, f_iaload and f_laload.
Load(ref, i) ==
  LET insn == <<"load", i>> IN
  WithPosition(insn, ref, {i},
    /\ Event(insn, ref, Result(<<Pushed(blocks[ref].type, ElementBytes(ref, i))>>))
    /\ UNCHANGED mem)

\* f_aastore, f_bastore, f_castore, f_iastore and f_lastore.
Store(ref, i, v) ==
  LET insn == <<"store", i, v>> IN
  WithPosition(insn, ref, {i},
    /\ mem' = Written(mem, Element(ref, i), Popped(blocks[ref].type, v))
    /\ Event(insn, ref, Result(<<>>)))

f_arraylength(ref) ==
  LET insn == <<"arraylength">> IN
  WithPosition(insn, ref, {},
    Event(insn, ref, Result(<<GetArrayLength(ref)>>)) /\ UNCHANGED mem)

\* The first and the last index are checked, also of a region that is empty.
SetByteArrayRegion(ref, start, len, buf) ==
  LET insn == <<"SetByteArrayRegion", start, len>> IN
  WithPosition(insn, ref, {start, start + len - 1},
    /\ mem' = Written(mem, Element(ref, start), [k \in 1 .. len |-> buf[k] % Base])
    /\ Event(insn, ref, Result(<<>>)))

GetByteArrayRegion(ref, start, len) ==
  LET insn == <<"GetByteArrayRegion", start, len>> IN
  WithPosition(insn, ref, {start, start + len - 1},
    /\ Event(insn, ref,
             Result([k \in 1 .. len |-> Number(ElementBytes(ref, start + k - 1))]))
    /\ UNCHANGED mem)

\* The lower half of a field of two words is at its address, the upper above it.
PutField(m, ref, address, words) ==
  Written(m, Slot(ref, address),
          BytesOf(words[1], STACKABLE) \o
          IF Len(words) = 2 THEN BytesOf(words[2], STACKABLE) ELSE <<>>)

GetField(ref, address) == Number(Bytes(Slot(ref, address), STACKABLE))

f_putfield(ref, address, words) ==
  LET insn == <<"putfield", address, words>> IN
  WithPosition(insn, ref, {},
    /\ mem' = PutField(mem, ref, address, words)
    /\ Event(insn, ref, Result(<<>>)))

f_getfield(ref, address, size) ==
  LET insn == <<"getfield", address, size>> IN
  WithPosition(insn, ref, {},
    /\ Event(insn, ref, Result([k \in 1 .. size |-> GetField(ref, address + k - 1)]))
    /\ UNCHANGED mem)

f_putstatic(address, words) ==
  /\ staticMemory' = Written(staticMemory, address, words)
  /\ Event(<<"putstatic", address, words>>, 0, Result(<<>>))
  /\ UNCHANGED <<mem, blocks, top>>

f_getstatic(address, size) ==
  /\ Event(<<"getstatic", address, size>>, 0,
           Result([k \in 1 .. size |-> staticMemory[address + k - 1]]))
  /\ UNCHANGED <<mem, blocks, top, staticMemory>>

Arrays == {ref \in DOMAIN blocks : blocks[ref].type \in ArrayTypes}
Instances == DOMAIN blocks \ Arrays

\* The address and the size of a field within n slots.
FieldEntries(n) == {f \in (0 .. n - 1) \X {1, 2} : f[1] + f[2] <= n}

Operands(type) ==
  CASE type = "long" -> Longs
    [] type = "object[]" -> DOMAIN blocks \cup {0}
    [] OTHER -> Ints

ArrayAccess(ref) ==
  \/ f_arraylength(ref)
  \/ \E i \in Indexes :
       \/ Load(ref, i)
       \/ \E v \in IF ref = 0 THEN {0} ELSE Operands(blocks[ref].type) : Store(ref, i, v)
  \/ \E start \in Indexes, len \in Lengths :
       /\ ref # 0 => blocks[ref].type = "byte"
       /\ SetByteArrayRegion(ref, start, len, Buffer) \/ GetByteArrayRegion(ref, start, len)

FieldAccess(ref) ==
  \E f \in FieldEntries(NumSlots) :
    \/ f_getfield(ref, f[1], f[2])
    \/ \E words \in [1 .. f[2] -> FieldInts] : f_putfield(ref, f[1], words)

\* The natives' accessors (jni.c) do the same for a field of one slot; for null
\* they look for a class at address 0 first, and no native does that.
SetIntField(ref, address, v) == ref # 0 /\ f_putfield(ref, address, <<v>>)
GetIntField(ref, address) == ref # 0 /\ f_getfield(ref, address, 1)
SetStaticObjectField(address, v) == f_putstatic(address, <<v>>)
GetStaticObjectField(address) == f_getstatic(address, 1)

NativeAccess(ref) ==
  \/ \E address \in 0 .. NumSlots - 1 :
       GetIntField(ref, address) \/ \E v \in FieldInts : SetIntField(ref, address, v)
  \/ \E address \in 0 .. NumStatics - 1 :
       \/ GetStaticObjectField(address)
       \/ \E v \in FieldInts : SetStaticObjectField(address, v)

StaticAccess ==
  \E f \in FieldEntries(NumStatics) :
    \/ f_getstatic(f[1], f[2])
    \/ \E words \in [1 .. f[2] -> FieldInts] : f_putstatic(f[1], words)

\* The result has been pushed, or the exception thrown: execute() goes on.
NextInstruction ==
  /\ event # NoEvent /\ event' = NoEvent
  /\ UNCHANGED <<mem, blocks, top, staticMemory>>

Next ==
  \/ newObject
  \/ \E type \in ArrayTypes, count \in Counts : NewArray(type, count)
  \/ \E ref \in Arrays \cup {0} : ArrayAccess(ref)
  \/ \E ref \in Instances \cup {0} : FieldAccess(ref) \/ NativeAccess(ref)
  \/ StaticAccess
  \/ NextInstruction

Spec == Init /\ [][Next]_mvars
-----------------------------------------------------------------------------
End(ref) == ref + blocks[ref].words

\* Every header is in the heap, its block ends before the first free word, and
\* no two blocks overlap.
TypeOK ==
  /\ mem \in [ALIGN .. (HeapSize + 1) * ALIGN - 1 -> Byte]
  /\ top \in 1 .. HeapSize + 1
  /\ \A ref \in DOMAIN blocks : ref >= 1 /\ End(ref) <= top
  /\ \A r, s \in DOMAIN blocks : r < s => End(r) <= s
  /\ DOMAIN staticMemory = 0 .. NumStatics - 1

\* GetPointerToArrayPosition returns a valid pointer: every index below the
\* length of an array is an element within the array's block.
ArraysHaveRoom ==
  \A ref \in Arrays : Element(ref, GetArrayLength(ref)) <= End(ref) * ALIGN

\* No size reaches the limit of a u2: neither of an instance nor of an array.
SizesFit ==
  /\ NumSlots * STACKABLE < SizeLimit
  /\ \A type \in ArrayTypes, count \in Counts \cap Nat :
       GetAlignedArraySize(count * ElementSize(type)) * ALIGN < SizeLimit

\* References are numbers that a word holds.
ReferencesFit == HeapSize < IntTop

\* No byte region is empty, and every long is an int: where the code keeps what
\* jni.h says of regions and of the elements of a long array.
RegionsNotEmpty == \A len \in Lengths : len >= 1
LongsFit == Longs \subseteq -IntTop .. IntTop - 1

\* The objects these bytes stand for.
objects ==
  [ref \in DOMAIN blocks |->
    [type |-> blocks[ref].type,
     vars |-> IF ref \in Arrays
              THEN [i \in 0 .. GetArrayLength(ref) - 1 |->
                     Pushed(blocks[ref].type, ElementBytes(ref, i))]
              ELSE [a \in 0 .. NumSlots - 1 |-> GetField(ref, a)]]]

Java == INSTANCE JavaMemory WITH Ref <- 1 .. HeapSize, statics <- staticMemory

\* Every instruction is one of separate objects whose variables keep what a
\* program wrote: no store reaches another element, field, length or object, and
\* no allocation reuses what an object has.  (JInit, which has the static fields
\* cleared, does not hold: see MemoryDocs.)
ImplementsJavaMemory == [][Java!JNext]_Java!jvars
=============================================================================

----------------------------- MODULE JavaMemory -----------------------------
(***************************************************************************)
(* What a program sees of the memory: every object has variables of its    *)
(* own, elements of an array or slots of fields, and there are static      *)
(* fields, cleared at first.  An instruction changes the variables it      *)
(* names and no others, and a read gives what was written last, cut to the *)
(* type of the array.  The regions and the longs are those of jni.h.       *)
(***************************************************************************)
EXTENDS Integers, Sequences, FiniteSets, Functions

CONSTANTS Ref,                     \* the references; 0 is null
          ByteTop, IntTop,         \* the sign bits of byte and int
          NumSlots, NumStatics,    \* of an object, and of static fields
          Ints, Longs, FieldInts,  \* the values instructions store
          Counts, Indexes, Lengths, Buffer   \* and their other operands

VARIABLES objects,                 \* from references to their type and variables
          statics,
          event                    \* the last instruction with its operands, and its outcome

jvars == <<objects, statics, event>>

ArrayTypes == {"object[]", "boolean", "byte", "char", "int", "long"}

Result(values) == [kind |-> "result", values |-> values]
Throw(exception) == [kind |-> exception, values |-> <<>>]
NoEvent == [insn |-> <<"none">>, ref |-> 0, outcome |-> Result(<<>>)]
Event(insn, ref, outcome) ==
  event = NoEvent /\ event' = [insn |-> insn, ref |-> ref, outcome |-> outcome]

Narrow(top, v) == ((v + top) % (2 * top)) - top

\* What a variable keeps of the value stored in it.
Kept(type, v) ==
  CASE type = "boolean" -> v % 2
    [] type \in {"byte", "char"} -> Narrow(ByteTop, v)
    [] OTHER -> v

Values(type) ==
  CASE type = "long" -> Longs
    [] type = "object[]" -> DOMAIN objects \cup {0}
    [] OTHER -> Ints

JInit ==
  /\ objects = <<>>
  /\ statics = [s \in 0 .. NumStatics - 1 |-> 0]
  /\ event = NoEvent

\* A new object has a reference and variables of its own, if there is memory.
New(type, n) ==
  LET insn == <<"new", type, n>>
  IN /\ UNCHANGED statics
     /\ \/ n < 0 /\ Event(insn, 0, Throw("NegativeArraySizeException")) /\ UNCHANGED objects
        \/ n >= 0 /\ Event(insn, 0, Throw("OutOfMemoryError")) /\ UNCHANGED objects
        \/ \E ref \in Ref :
             /\ n >= 0 /\ Event(insn, ref, Result(<<ref>>))
             /\ ref \notin DOMAIN objects
             /\ objects' = [r \in DOMAIN objects \cup {ref} |->
                  IF r = ref THEN [type |-> type, vars |-> [i \in 0 .. n - 1 |-> 0]]
                  ELSE objects[r]]

\* An access: it throws for null, and unless it is within bounds; otherwise the
\* variables in values change and the result is given.
Access(insn, ref, within, values, result) ==
  /\ UNCHANGED statics
  /\ IF ref = 0 THEN Event(insn, ref, Throw("NullPointerException")) /\ UNCHANGED objects
     ELSE IF ~ within
     THEN Event(insn, ref, Throw("ArrayIndexOutOfBoundsException")) /\ UNCHANGED objects
     ELSE /\ Event(insn, ref, Result(result))
          /\ objects' = [objects EXCEPT ![ref].vars =
               [i \in DOMAIN @ |-> IF i \in DOMAIN values
                                   THEN Kept(objects[ref].type, values[i]) ELSE @[i]]]

Has(ref, ixs) == ixs \subseteq DOMAIN objects[ref].vars

Read(insn, ref, ixs) ==
  Access(insn, ref, Has(ref, Range(ixs)), <<>>, [k \in DOMAIN ixs |-> objects[ref].vars[ixs[k]]])

\* A copy to or from a buffer: it throws if start < 0 or start + len > length.
Region(start, len) == start .. start + len - 1
WithinArray(ref, start, len) ==
  start >= 0 /\ start + len <= Cardinality(DOMAIN objects[ref].vars)
ByteRegion(insn, ref, start, len) ==
  \/ /\ insn = <<"SetByteArrayRegion", start, len>>
     /\ Access(insn, ref, WithinArray(ref, start, len),
               [i \in Region(start, len) |-> Buffer[i - start + 1]], <<>>)
  \/ /\ insn = <<"GetByteArrayRegion", start, len>>
     /\ Access(insn, ref, WithinArray(ref, start, len), <<>>,
               [k \in 1 .. len |-> objects[ref].vars[start + k - 1]])

\* The slots of a field of one or two words, and the words as their values.
FieldSlots(n) == {<<a>> : a \in 0 .. n - 1} \cup {<<a, a + 1>> : a \in 0 .. n - 2}
SlotValues(slots, words) == [s \in Range(slots) |-> words[s - slots[1] + 1]]

WriteStatic(slots, words) ==
  /\ Event(<<"putstatic", slots[1], words>>, 0, Result(<<>>))
  /\ statics' = [s \in DOMAIN statics |->
        IF s \in Range(slots) THEN SlotValues(slots, words)[s] ELSE statics[s]]
  /\ UNCHANGED objects

ReadStatic(slots) ==
  /\ Event(<<"getstatic", slots[1], Len(slots)>>, 0,
           Result([k \in DOMAIN slots |-> statics[slots[k]]]))
  /\ UNCHANGED <<objects, statics>>

Arrays == {ref \in DOMAIN objects : objects[ref].type \in ArrayTypes}
Instances == DOMAIN objects \ Arrays

ArrayStep(insn, ref) ==
  /\ ref \in Arrays \cup {0}
  /\ \/ /\ insn = <<"arraylength">>
        /\ Access(insn, ref, TRUE, <<>>, <<Cardinality(DOMAIN objects[ref].vars)>>)
     \/ \E i \in Indexes : insn = <<"load", i>> /\ Read(insn, ref, <<i>>)
     \/ \E i \in Indexes, v \in IF ref = 0 THEN {0} ELSE Values(objects[ref].type) :
          /\ insn = <<"store", i, v>>
          /\ Access(insn, ref, Has(ref, {i}), [x \in {i} |-> v], <<>>)
     \/ /\ ref # 0 => objects[ref].type = "byte"
        /\ \E start \in Indexes, len \in Lengths : ByteRegion(insn, ref, start, len)

FieldStep(insn, ref) ==
  /\ ref \in Instances \cup {0}
  /\ \E slots \in FieldSlots(NumSlots) :
       \/ insn = <<"getfield", slots[1], Len(slots)>> /\ Read(insn, ref, slots)
       \/ \E words \in [DOMAIN slots -> FieldInts] :
            /\ insn = <<"putfield", slots[1], words>>
            /\ Access(insn, ref, Has(ref, Range(slots)), SlotValues(slots, words), <<>>)

StaticStep ==
  \E slots \in FieldSlots(NumStatics) :
    ReadStatic(slots) \/ \E words \in [DOMAIN slots -> FieldInts] : WriteStatic(slots, words)

\* What is done with the outcome, and with the event over, is not its concern.
NextInstruction ==
  event # NoEvent /\ event' = NoEvent /\ UNCHANGED <<objects, statics>>

\* The event says which instruction it was, with which operands, of which object.
JNext ==
  \/ New("object", NumSlots) \/ \E type \in ArrayTypes, n \in Counts : New(type, n)
  \/ ArrayStep(event'.insn, event'.ref)
  \/ FieldStep(event'.insn, event'.ref)
  \/ StaticStep
  \/ NextInstruction

JSpec == JInit /\ [][JNext]_jvars
=============================================================================

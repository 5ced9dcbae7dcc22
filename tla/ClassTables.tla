---------------------------- MODULE ClassTables ----------------------------
(***************************************************************************)
(* The generated tables of classes (allClassInstanceInfo, allConstantPools *)
(* and implementedInterfaces of constantpool.h).  Class 0 is               *)
(* java.lang.Object.                                                       *)
(***************************************************************************)
EXTENDS Integers, Sequences

CONSTANTS NumClasses,  \* numberOfAllClassInstanceInfo
          Super,       \* superClassId
          Type,        \* type
          Element,     \* elementClassId, of an object array
          Implements,  \* the interfaces from interface_start on
          Methods,     \* the link ids of the methods, in the order of the table
          Fields,      \* the fields, with their addresses and sizes
          References   \* the references to constants: the tables for int, long and
                       \* String constants and for classes, one after the other

Class == 0 .. NumClasses - 1
Object == 0
LinkId == Nat

PrimitiveArray == {"CT_BOOLEAN_ARRAY", "CT_CHAR_ARRAY", "CT_BYTE_ARRAY",
                   "CT_INT_ARRAY", "CT_LONG_ARRAY"}
ClassType == {"CT_CLASS", "CT_INTERFACE", "CT_OBJECT_ARRAY"} \cup PrimitiveArray

\* What the generator of the tables guarantees: the methods of a class are
\* sorted by their link ids.
ASSUME TablesAssumption ==
  /\ NumClasses \in Nat \ {0}
  /\ Super \in [Class -> Class] /\ Type \in [Class -> ClassType]
  /\ Element \in [Class -> Class] /\ Implements \in [Class -> SUBSET Class]
  /\ Methods \in [Class -> Seq(LinkId)]
  /\ Fields \in [Class -> Seq([linkId : LinkId, address : Nat, size : 1 .. 2])]
  /\ \A c \in Class : \A i, j \in DOMAIN Methods[c] :
       i < j => Methods[c][i] < Methods[c][j]

ReferenceTable == {"int", "long", "string", "class"}

ASSUME ReferencesAssumption ==
  References \in Seq([table : ReferenceTable, classId : Class, constantPoolIndex : Nat])

ASSUME InterfacesAssumption ==
  /\ \A c \in Class : Implements[c] \subseteq {i \in Class : Type[i] = "CT_INTERFACE"}
  /\ \A c \in Class : Implements[Super[c]] \subseteq Implements[c]

\* A superclass is a class, never an interface or an array, and the superclasses
\* of every class lead to java.lang.Object.
ASSUME SuperclassAssumption ==
  /\ Type[Object] = "CT_CLASS" /\ \A c \in Class : Type[Super[c]] = "CT_CLASS"
  /\ \A U \in SUBSET Class :
       Object \in U /\ (\A c \in Class : Super[c] \in U => c \in U) => U = Class

isObjectArray(c) == Type[c] = "CT_OBJECT_ARRAY"
isPrimitiveValueArray(c) == Type[c] \in PrimitiveArray
is_S_implementing_T(s, t) == t \in Implements[s]

DeclaresMethod(c, id) == \E i \in DOMAIN Methods[c] : Methods[c][i] = id
DeclaresField(c, id) == \E i \in DOMAIN Fields[c] : Fields[c][i].linkId = id
=============================================================================

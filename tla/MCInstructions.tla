---------------------------- MODULE MCInstructions ---------------------------
(* Object with String and a class C below it, D below C; an interface, the *)
(* arrays of C, D, the interface, int, and int[][].                        *)
EXTENDS Instructions

C == 1
D == 2
Interface == 3
ArrayOfC == 4
ArrayOfD == 5
ArrayOfInterface == 6
IntArray == 7
ArrayOfIntArray == 8

MCNumClasses == 9
MCSuper == [c \in 0 .. 8 |-> IF c = D THEN C ELSE Object]
MCType == [c \in 0 .. 8 |->
  CASE c \in {Object, C, D} -> "CT_CLASS"
    [] c = Interface -> "CT_INTERFACE"
    [] c = IntArray -> "CT_INT_ARRAY"
    [] OTHER -> "CT_OBJECT_ARRAY"]
MCElement == [c \in 0 .. 8 |->
  CASE c = ArrayOfC -> C [] c = ArrayOfD -> D [] c = ArrayOfInterface -> Interface
    [] c = ArrayOfIntArray -> IntArray [] OTHER -> Object]
MCImplements == [c \in 0 .. 8 |-> IF c = D THEN {Interface} ELSE {}]
MCMethods == [c \in 0 .. 8 |->
  CASE c = Object -> <<2, 5>> [] c = C -> <<1, 2, 4, 6, 9>> [] c = D -> <<2, 3, 4, 7>>
    [] OTHER -> <<>>]
Field(id, address, size) == [linkId |-> id, address |-> address, size |-> size]
MCFields == [c \in 0 .. 8 |->
  CASE c = C -> <<Field(1, 0, 1), Field(3, 1, 2)>> [] c = D -> <<Field(2, 3, 1), Field(1, 4, 1)>>
    [] OTHER -> <<>>]

Reference(table, c, i) == [table |-> table, classId |-> c, constantPoolIndex |-> i]
MCReferences == <<Reference("int", C, 1), Reference("long", D, 1), Reference("string", C, 2),
                  Reference("class", D, 2), Reference("class", C, 3)>>

\* The ints of four bits; longs around zero, the sign bits and the ends.
MCIntOperand == 0 .. 15
MCLongOperand == {0, 1, 2, 3, 5, 7, 15, 16, 100, 127, 128, 129, 200, 253, 254, 255}
=============================================================================

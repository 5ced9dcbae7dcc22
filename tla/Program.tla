------------------------------ MODULE Program ------------------------------
(***************************************************************************)
(* The generated tables a Java stack depends on (methodInClass and         *)
(* exceptionHandler of constantpool.h).  Every instruction takes one       *)
(* address; what it does is left open.                                     *)
(***************************************************************************)
EXTENDS Naturals, Sequences, FiniteSets, FiniteSetsExt

CONSTANTS Word,        \* the words instructions and C code may produce
          Zero,        \* the int 0
          Throwable,   \* the references to exceptions
          Method,      \* methodInClass, with the addresses of its code
          start,       \* the code at startAddress
          Handlers     \* allExceptionHandersInAllClasses

MethodType ==
  [class : Nat, first : Nat, last : Nat, args : Nat, locals : Nat, results : 0 .. 2]
HandlerType ==
  [classId : Nat, startPC : Nat, endPC : Nat, catches : SUBSET Throwable, handlerPC : Nat]

ASSUME ProgramAssumption ==
  /\ Throwable \subseteq Word
  /\ start \in Method /\ Method \subseteq MethodType
  /\ start.locals = 0 /\ start.args = 0 /\ start.results = 0
  /\ \A m \in Method : m.args <= m.locals /\ m.first <= m.last
  /\ \A m, n \in Method : (m.first .. m.last) \cap (n.first .. n.last) # {} => m = n
  /\ Handlers \in Seq(HandlerType)
  /\ \A i \in DOMAIN Handlers : \E m \in Method :
       /\ m.class = Handlers[i].classId
       /\ {Handlers[i].startPC, Handlers[i].endPC - 1, Handlers[i].handlerPC}
            \subseteq m.first .. m.last

Addresses == UNION {m.first .. m.last : m \in Method}
MethodAt(pc) == CHOOSE m \in Method : pc \in m.first .. m.last

\* The entries for exception e, thrown by the instruction before pc.
Hits(class, pc, e) ==
  {i \in DOMAIN Handlers :
     /\ Handlers[i].classId = class /\ e \in Handlers[i].catches
     /\ Handlers[i].startPC <= pc - 1 /\ pc - 1 < Handlers[i].endPC}

\* The first entry that fits is taken.
HandlerPC(class, pc, e) == Handlers[Min(Hits(class, pc, e))].handlerPC
=============================================================================

---------------------------- MODULE Instructions ----------------------------
(***************************************************************************)
(* Instructions that compute: arithmetic (module Arithmetic), and those    *)
(* that search the tables of classes (module Lookup) for a method, a field *)
(* or a type.  The machine executes one after the other; an object stands  *)
(* for its class.                                                          *)
(***************************************************************************)
EXTENDS Arithmetic, Lookup

Null == -1             \* the class of no object

ivars == <<avars, lvars>>

\* An instruction that searches: with an object of class c (or Null) or class c
\* of the constant pool, and a link id or class k.
Search(name, c, k) ==
  /\ phase = "ready"
  /\ op' = [name |-> name, operands |-> <<c, k>>]
  /\ phase' = "library"
  /\ UNCHANGED <<stack, thrown, dvars, svars>>

\* It ends at once, with a result or a NullPointerException.
AtOnce(name, c, k, results, throws) ==
  /\ phase = "ready"
  /\ op' = [name |-> name, operands |-> <<c, k>>]
  /\ stack' = results /\ thrown' = throws
  /\ phase' = "finished"
  /\ UNCHANGED <<dvars, svars, lvars>>

\* f_invokevirtual and f_invokeinterface: getVirtualMethodEntry.
InvokeVirtual(c, id) ==
  IF c = Null THEN AtOnce("invokevirtual", c, id, <<>>, TRUE)
  ELSE Search("invokevirtual", c, id) /\ getVirtualMethodEntryByLinkId(c, id)

\* f_invokestatic: getStaticMethodEntry.  f_invokespecial makes the same search; the
\* null test it makes afterwards is not modelled.
InvokeStatic(c, id) ==
  Search("invokestatic", c, id) /\ getStaticMethodEntryByLinkId(c, id)

\* getFieldEntry, of the instructions for fields.
FieldEntry(c, id) == Search("getfield", c, id) /\ getFieldInClassbyLinkId(c, id)

\* f_ldc, f_ldc_w and f_ldc2_w: getConstant in the class of the method.
LoadConstant(c, i) == Search("ldc", c, i) /\ getConstant(c, i)

\* getClassReference, of the instructions that name a class: f_new and the like.
ClassReference(c, i) == Search("new", c, i) /\ getClassReference(c, i)

\* Faulty: null is asked for its class like an object.
InstanceOfAny(c, t) ==
  Search("instanceof", c, t) /\ CP_IsInstanceOf(IF c = Null THEN Object ELSE c, t)

InstanceOf(c, t) ==
  IF c = Null THEN AtOnce("instanceof", c, t, <<0>>, FALSE)
  ELSE Search("instanceof", c, t) /\ CP_IsInstanceOf(c, t)

CheckCast(c, t) ==
  IF c = Null THEN AtOnce("checkcast", c, t, <<Null>>, FALSE)
  ELSE Search("checkcast", c, t) /\ CP_IsInstanceOf(c, t)

\* What is done with the answer: instanceof pushes it, checkcast throws unless
\* it is true and leaves the object, the others go on with the entry.
UseAnswer ==
  /\ phase = "library" /\ LookupReturn
  /\ phase' = "finished"
  /\ thrown' = (op.name = "checkcast" /\ entry = FALSE_)
  /\ stack' = CASE op.name = "instanceof" -> <<entry>>
                [] op.name = "checkcast" -> <<op.operands[1]>>
                [] OTHER -> <<cls, entry>>
  /\ UNCHANGED <<op, dvars, svars>>

IssueSearch ==
  \E c \in {k \in Class : Type[k] # "CT_INTERFACE"} \cup {Null} :
    \/ \E id \in SoughtIds : InvokeVirtual(c, id)
    \/ \E t \in Class : InstanceOf(c, t) \/ CheckCast(c, t)
    \/ c # Null /\ \E id \in SoughtIds : InvokeStatic(c, id) \/ FieldEntry(c, id)
    \/ c # Null /\ \E i \in SoughtIndexes : LoadConstant(c, i) \/ ClassReference(c, i)

Init == ArithmeticInit /\ LookupIdle

InstructionStep ==
  \/ Perform /\ UNCHANGED lvars
  \/ LookupStep /\ UNCHANGED avars
  \/ UseAnswer

INext ==
  \/ IssueAny /\ UNCHANGED lvars
  \/ IssueSearch
  \/ InstructionStep

Spec == Init /\ [][INext]_ivars /\ WF_ivars(InstructionStep)
-----------------------------------------------------------------------------
\* checkcast throws, and instanceof says no, exactly when the object is not of
\* the type by the rules for casts; null passes every cast and is an instance of
\* nothing; only null makes invokevirtual throw; a test exits only at interfaces.
CastsExact ==
  /\ InstanceOfExact
  /\ phase = "finished" /\ op.name \in {"instanceof", "checkcast", "invokevirtual"} =>
    LET c == op.operands[1]
        k == op.operands[2]
    IN CASE op.name = "instanceof" ->
              ~thrown /\ stack = <<IF c # Null /\ Castable[c][k] THEN 1 ELSE 0>>
         [] op.name = "checkcast" ->
              stack = <<c>> /\ (thrown <=> c # Null /\ ~ Castable[c][k])
         [] op.name = "invokevirtual" -> thrown <=> c = Null

\* Every instruction ends, or the machine exits: the loops of the library and of
\* the searches run out.  One thread executes one iteration after the other.
InstructionEnds == phase # "ready" ~> phase = "ready" \/ lpc = "exit"
=============================================================================

------------------------------- MODULE Lookup -------------------------------
(***************************************************************************)
(* The searches of constantpool.c through the tables of classes, one       *)
(* iteration of their loops at a time: a method by bisection, a field from *)
(* the start, both up through the superclasses; a reference to a constant; *)
(* subclasses and instanceof.                                              *)
(***************************************************************************)
EXTENDS ClassTables

CONSTANTS SoughtIds,   \* the link ids asked for
          SoughtIndexes \* the indexes of constants asked for

ASSUME SoughtAssumption == SoughtIds \subseteq LinkId /\ SoughtIndexes \subseteq Nat

VARIABLES query,       \* the function called and its arguments
          cls,         \* referencedClassId, or classId_S
          key,         \* linkId, or classId_T
          l, r,        \* the bounds of the bisection; l is also i of a scan
          entry,       \* the entry found, or what the test says
          passed,      \* history: the classes searched without success
          lpc          \* the loop at hand, or "idle", "done" or "exit"

lvars == <<query, cls, key, l, r, entry, passed, lpc>>

NULL == -1
FALSE_ == 0
TRUE_ == 1

NoQuery == [fn |-> "none", cls |-> Object, key |-> 0]

LookupIdle ==
  /\ query = NoQuery /\ cls = Object /\ key = 0 /\ l = 0 /\ r = 0 /\ entry = NULL
  /\ passed = {} /\ lpc = "idle"

Ask(fn, c, k, loop) ==
  /\ lpc = "idle"
  /\ query' = [fn |-> fn, cls |-> c, key |-> k]
  /\ cls' = c /\ key' = k /\ entry' = NULL /\ passed' = {}
  /\ l' = 0 /\ r' = IF loop = "methods" THEN Len(Methods[c]) ELSE 0
  /\ lpc' = loop

getVirtualMethodEntryByLinkId(c, id) == Ask("virtual", c, id, "methods")
getStaticMethodEntryByLinkId(c, id) == Ask("static", c, id, "methods")
getFieldInClassbyLinkId(c, id) == Ask("field", c, id, "fields")
getConstant(c, i) == Ask("constant", c, i, "constants")
getClassReference(c, i) == Ask("class", c, i, "constants")
CP_IsInstanceOf(s, t) == Ask("instanceof", s, t, "rules")

Answer(value) == entry' = value /\ lpc' = "done" /\ UNCHANGED <<query, cls, key, l, r, passed>>
jvmexit == lpc' = "exit" /\ UNCHANGED <<query, cls, key, l, r, entry, passed>>
-----------------------------------------------------------------------------
(* getMethodInClass: entries l .. r - 1 are left.                          *)

Found(i) == entry' = i /\ lpc' = "searched" /\ UNCHANGED <<query, cls, key, l, r, passed>>
NotFound == lpc' = "searched" /\ UNCHANGED <<query, cls, key, l, r, entry, passed>>

\* Faulty: the new bound is one too far to the left.
HalveOffByOne(center) ==
  IF key < Methods[cls][center + 1] THEN r' = center - 1 /\ UNCHANGED l
                                    ELSE l' = center /\ UNCHANGED r

Halve(center) ==
  IF key < Methods[cls][center + 1] THEN r' = center /\ UNCHANGED l
                                    ELSE l' = center /\ UNCHANGED r

Bisect ==
  LET center == (r + l) \div 2
  IN /\ lpc = "methods" /\ l # r /\ r - l # 1
     /\ IF Methods[cls][center + 1] = key
        THEN Found(center)
        ELSE Halve(center) /\ UNCHANGED <<query, cls, key, entry, passed, lpc>>

\* Faulty: the loop runs until no entry is left, and never narrows one down to none.
LastEntryNever ==
  /\ lpc = "methods" /\ l = r
  /\ NotFound

\* One entry is left, or none from the start.
LastEntry ==
  /\ lpc = "methods" /\ (l = r \/ r - l = 1)
  /\ IF l # r /\ Methods[cls][l + 1] = key THEN Found(l) ELSE NotFound

\* The fields are compared one by one.
ScanFields ==
  /\ lpc = "fields"
  /\ IF l < Len(Fields[cls])
     THEN IF Fields[cls][l + 1].linkId = key
          THEN Found(l)
          ELSE l' = l + 1 /\ UNCHANGED <<query, cls, key, r, entry, passed, lpc>>
     ELSE NotFound

\* References are compared one by one, for getClassReference those to classes
\* only; the machine exits at the end.
Refers(i) ==
  /\ References[i].classId = cls /\ References[i].constantPoolIndex = key
  /\ query.fn = "class" => References[i].table = "class"

ScanReferences ==
  /\ lpc = "constants"
  /\ IF l < Len(References)
     THEN IF Refers(l + 1)
          THEN Answer(l)
          ELSE l' = l + 1 /\ UNCHANGED <<query, cls, key, r, entry, passed, lpc>>
     ELSE jvmexit

\* Faulty: on to java.lang.Object at once.
SuperClassSkipped ==
  /\ lpc = "searched"
  /\ IF entry # NULL
     THEN Answer(entry)
     ELSE IF query.fn = "static" \/ cls = Object
     THEN jvmexit
     ELSE /\ cls' = Object /\ passed' = passed \cup {cls} /\ l' = 0
          /\ IF query.fn = "field" THEN r' = 0 /\ lpc' = "fields"
                                   ELSE r' = Len(Methods[Object]) /\ lpc' = "methods"
          /\ UNCHANGED <<query, key, entry>>

\* Not found: on to the superclass; from java.lang.Object, and for a static
\* method, the machine exits.
SuperClass ==
  /\ lpc = "searched"
  /\ IF entry # NULL
     THEN Answer(entry)
     ELSE IF query.fn = "static" \/ cls = Object
     THEN jvmexit
     ELSE LET super == Super[cls]
          IN /\ cls' = super /\ passed' = passed \cup {cls} /\ l' = 0
             /\ IF query.fn = "field"
                THEN r' = 0 /\ lpc' = "fields"
                ELSE r' = Len(Methods[super]) /\ lpc' = "methods"
             /\ UNCHANGED <<query, key, entry>>
-----------------------------------------------------------------------------
(* is_S_SubClassing_T *)

SubClassing ==
  /\ lpc = "subclassing"
  /\ IF cls = Object THEN Answer(FALSE_)
     ELSE IF Super[cls] = key THEN Answer(TRUE_)
     ELSE cls' = Super[cls] /\ UNCHANGED <<query, key, l, r, entry, passed, lpc>>

(* CP_IsInstanceOf; its call of itself for the elements is the last thing  *)
(* it does.                                                                *)

Truth(test) == IF test THEN TRUE_ ELSE FALSE_

OfArray ==
  /\ lpc = "rules" /\ (isObjectArray(cls) \/ isPrimitiveValueArray(cls))
  /\ IF isObjectArray(key)
     THEN IF isObjectArray(cls)
          THEN cls' = Element[cls] /\ key' = Element[key]
               /\ UNCHANGED <<query, l, r, entry, passed, lpc>>
          ELSE Answer(FALSE_)
     ELSE IF isPrimitiveValueArray(key) THEN Answer(Truth(key = cls))
     ELSE IF Type[key] = "CT_CLASS" THEN Answer(Truth(key = Object))
     ELSE jvmexit

OfClass ==
  /\ lpc = "rules" /\ Type[cls] = "CT_CLASS"
  /\ IF Type[key] = "CT_CLASS"
     THEN IF cls = key
          THEN Answer(TRUE_)
          ELSE lpc' = "subclassing" /\ UNCHANGED <<query, cls, key, l, r, entry, passed>>
     ELSE Answer(Truth(is_S_implementing_T(cls, key)))

\* "Not implemented": an array of interfaces leads here.
OfInterface == lpc = "rules" /\ Type[cls] = "CT_INTERFACE" /\ jvmexit
-----------------------------------------------------------------------------
LookupReturn ==
  /\ lpc = "done"
  /\ query' = NoQuery /\ cls' = Object /\ key' = 0 /\ l' = 0 /\ r' = 0 /\ entry' = NULL
  /\ passed' = {} /\ lpc' = "idle"

LookupStep ==
  \/ Bisect \/ LastEntry \/ ScanFields \/ ScanReferences \/ SuperClass
  \/ SubClassing \/ OfArray \/ OfClass \/ OfInterface

LookupCall ==
  \E c \in Class :
    \/ \E id \in SoughtIds :
         \/ getVirtualMethodEntryByLinkId(c, id)
         \/ getStaticMethodEntryByLinkId(c, id)
         \/ getFieldInClassbyLinkId(c, id)
    \/ \E i \in SoughtIndexes : getConstant(c, i) \/ getClassReference(c, i)
    \/ \E t \in Class : CP_IsInstanceOf(c, t)

LookupNext == LookupCall \/ LookupStep \/ LookupReturn

LookupSpec == LookupIdle /\ [][LookupNext]_lvars
-----------------------------------------------------------------------------
LookupTypeOK ==
  /\ query \in [fn : {"none", "virtual", "static", "field", "constant", "class", "instanceof"},
                cls : Class, key : Int]
  /\ cls \in Class /\ key \in Int /\ l \in Nat /\ r \in Nat /\ entry \in Int
  /\ passed \subseteq Class
  /\ lpc \in {"idle", "methods", "fields", "constants", "searched", "subclassing", "rules", "done", "exit"}

Declares(c, id) ==
  IF query.fn = "field" THEN DeclaresField(c, id) ELSE DeclaresMethod(c, id)

\* The bisection never steps over the method it looks for: it is among the
\* entries left, and a class is given up only when it has no such method.
BisectionOnTrack ==
  /\ lpc = "methods" =>
       /\ l <= r /\ r <= Len(Methods[cls])
       /\ DeclaresMethod(cls, key) => \E i \in l .. r - 1 : Methods[cls][i + 1] = key
  /\ lpc = "searched" /\ query.fn # "field" =>
       IF entry = NULL THEN ~ DeclaresMethod(cls, key)
                     ELSE entry + 1 \in DOMAIN Methods[cls] /\ Methods[cls][entry + 1] = key

\* From class c up to and without class d, no class declares id.
NoneBelow(c, d, id) ==
  \E below \in SUBSET Class :
    /\ d \notin below /\ c \in below \cup {d}
    /\ \A k \in below : Super[k] \in below \cup {d} /\ ~ Declares(k, id)

\* A search returns an entry of the nearest class that has one, and the machine
\* exits only when no class up to java.lang.Object has (for a static method,
\* when the class itself has none).  A search for a constant returns the first
\* reference that matches.
LookupExact ==
  /\ query.fn \in {"constant", "class"} =>
       /\ lpc = "done" => entry + 1 \in DOMAIN References /\ Refers(entry + 1)
       /\ lpc \in {"done", "exit"} =>
            \A i \in DOMAIN References : (lpc = "done" => i <= entry) => ~ Refers(i)
  /\ query.fn \in {"virtual", "static", "field"} =>
       /\ lpc = "done" =>
            /\ IF query.fn = "field" THEN Fields[cls][entry + 1].linkId = query.key
                                     ELSE Methods[cls][entry + 1] = query.key
            /\ NoneBelow(query.cls, cls, query.key)
            /\ query.fn = "static" => cls = query.cls
       /\ lpc = "exit" =>
            /\ ~ Declares(cls, query.key)
            /\ IF query.fn = "static" THEN cls = query.cls
                                      ELSE cls = Object /\ NoneBelow(query.cls, cls, query.key)

\* The superclasses of every class.
Supers[c \in Class] == IF c = Object THEN {} ELSE {Super[c]} \cup Supers[Super[c]]

\* The rules quoted in CP_IsInstanceOf; a type of interface is compared by the
\* rules for interfaces, which the code does not implement.
Castable[s \in Class] == [t \in Class |->
  CASE Type[s] = "CT_CLASS" ->
         IF Type[t] = "CT_INTERFACE" THEN t \in Implements[s] ELSE t \in {s} \cup Supers[s]
    [] Type[s] = "CT_INTERFACE" -> t \in {s, Object} \cup Implements[s]
    [] OTHER ->
         \/ t = Object
         \/ Type[s] \in PrimitiveArray /\ s = t
         \/ isObjectArray(s) /\ isObjectArray(t) /\ Castable[Element[s]][Element[t]]]

\* The elements of the elements ... of an array.
Innermost[c \in Class] == IF isObjectArray(c) THEN Innermost[Element[c]] ELSE c

\* instanceof agrees with the rules it quotes, and the machine exits only where
\* an interface is reached as the type of elements, or an array is asked for an
\* interface.
InstanceOfExact ==
  query.fn = "instanceof" =>
    /\ lpc = "done" => (entry = TRUE_ <=> Castable[query.cls][query.key])
    /\ lpc = "exit" => \/ Type[Innermost[query.cls]] = "CT_INTERFACE"
                       \/ Type[Innermost[query.key]] = "CT_INTERFACE"
=============================================================================

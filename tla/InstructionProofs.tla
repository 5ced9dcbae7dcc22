-------------------------- MODULE InstructionProofs --------------------------
(***************************************************************************)
(* The instructions that compute and search are exact.  The searches of    *)
(* constantpool.c are, for all tables: a bisection keeps the method among  *)
(* the entries left, a scan has passed over no match, and the classes      *)
(* given up lead from the class asked for to the one at hand without       *)
(* declaring what is looked for; instanceof asks of the classes at hand    *)
(* what was asked of the first two.  The machine interleaves them with the *)
(* instructions of ArithmeticProofs, one call at a time.                   *)
(***************************************************************************)
EXTENDS Instructions, ArithmeticProofs

USE TablesAssumption, ReferencesAssumption, SoughtAssumption

\* What is searched for, as a function of where the search stands.
Searching ==
  /\ lpc = "methods" => query.fn \in {"virtual", "static"} /\ entry = NULL
  /\ lpc = "fields" => query.fn = "field" /\ entry = NULL
  /\ lpc = "searched" => query.fn \in {"virtual", "static", "field"}
  /\ lpc = "constants" => query.fn \in {"constant", "class"}
  /\ lpc \in {"rules", "subclassing"} => query.fn = "instanceof" /\ key \in Class
  /\ query.fn \in {"virtual", "static", "field", "constant", "class"} => key = query.key

\* No field before l is the one looked for, and none at all when the class is given up.
ScanOnTrack ==
  /\ lpc = "fields" => \A i \in DOMAIN Fields[cls] : i <= l => Fields[cls][i].linkId # key
  /\ lpc = "searched" /\ query.fn = "field" =>
       IF entry = NULL THEN ~ DeclaresField(cls, key)
                     ELSE entry + 1 \in DOMAIN Fields[cls] /\ Fields[cls][entry + 1].linkId = key

\* No reference before l is the one looked for.
ReferencesOnTrack ==
  lpc = "constants" => \A i \in DOMAIN References : i <= l => ~ Refers(i)

\* The classes given up lead to the one at hand, and declare nothing sought.
PassedInVain ==
  query.fn \in {"virtual", "static", "field"} =>
    /\ query.cls \in passed \cup {cls}
    /\ \A k \in passed : Super[k] \in passed \cup {cls} /\ ~ Declares(k, query.key)
    /\ query.fn = "static" => cls = query.cls

\* What is answered when a search has ended.
AnswerRight ==
  /\ query.fn \in {"constant", "class"} =>
       /\ lpc = "done" => entry + 1 \in DOMAIN References /\ Refers(entry + 1)
       /\ lpc \in {"done", "exit"} =>
            \A i \in DOMAIN References : (lpc = "done" => i <= entry) => ~ Refers(i)
  /\ query.fn \in {"virtual", "static", "field"} =>
       /\ lpc = "done" =>
            IF query.fn = "field" THEN Fields[cls][entry + 1].linkId = query.key
                                  ELSE Methods[cls][entry + 1] = query.key
       /\ lpc = "exit" => ~ Declares(cls, query.key) /\ (query.fn # "static" => cls = Object)

LInv ==
  /\ LookupTypeOK
  /\ Searching
  /\ BisectionOnTrack
  /\ ScanOnTrack
  /\ ReferencesOnTrack
  /\ PassedInVain
  /\ AnswerRight

LEMMA ClassFacts ==
  /\ Object \in Class /\ Class \subseteq Int /\ SoughtIds \subseteq Int /\ SoughtIndexes \subseteq Int
  /\ \A c \in Class : Super[c] \in Class /\ Element[c] \in Class
  /\ \A c \in Class : Len(Methods[c]) \in Nat /\ DOMAIN Methods[c] = 1 .. Len(Methods[c])
                      /\ \A i \in 1 .. Len(Methods[c]) : Methods[c][i] \in Nat
  /\ \A c \in Class : Len(Fields[c]) \in Nat /\ DOMAIN Fields[c] = 1 .. Len(Fields[c])
  /\ Len(References) \in Nat /\ DOMAIN References = 1 .. Len(References)
<1>1. /\ Object \in Class /\ Class \subseteq Int /\ SoughtIds \subseteq Int
      /\ SoughtIndexes \subseteq Int
      /\ \A c \in Class : Super[c] \in Class /\ Element[c] \in Class
  <2>1. Object \in Class /\ Class \subseteq Int
    BY DEF Object, Class
  <2>2. SoughtIds \subseteq Int /\ SoughtIndexes \subseteq Int
    BY DEF LinkId
  <2>3. QED  BY <2>1, <2>2
<1>2. ASSUME NEW c \in Class
      PROVE  /\ Len(Methods[c]) \in Nat /\ DOMAIN Methods[c] = 1 .. Len(Methods[c])
             /\ \A i \in 1 .. Len(Methods[c]) : Methods[c][i] \in Nat
  <2>1. Methods[c] \in Seq(Nat)
    BY DEF LinkId
  <2>2. QED  BY <2>1
<1>3. ASSUME NEW c \in Class
      PROVE  Len(Fields[c]) \in Nat /\ DOMAIN Fields[c] = 1 .. Len(Fields[c])
  <2>1. Fields[c] \in Seq([linkId : LinkId, address : Nat, size : 1 .. 2])
    OBVIOUS
  <2>2. QED  BY <2>1
<1>4. QED  BY <1>1, <1>2, <1>3

LEMMA LookupInit == LookupIdle => LInv
  BY ClassFacts DEF LookupIdle, LInv, NoQuery, LookupTypeOK, Searching, BisectionOnTrack,
     ScanOnTrack, ReferencesOnTrack, PassedInVain, AnswerRight, NULL, Object

\* Every call starts a search at the left end of a table.
LEMMA AskLInv ==
  ASSUME LInv, NEW fn \in {"virtual", "static", "field", "constant", "class", "instanceof"},
         NEW c \in Class, NEW k \in Int, NEW loop,
         fn = "instanceof" => k \in Class,
         loop = CASE fn \in {"virtual", "static"} -> "methods" [] fn = "field" -> "fields"
                  [] fn \in {"constant", "class"} -> "constants" [] OTHER -> "rules",
         Ask(fn, c, k, loop)
  PROVE  LInv'
<1>1. /\ query' = [fn |-> fn, cls |-> c, key |-> k] /\ query'.fn = fn /\ query'.cls = c
      /\ query'.key = k /\ cls' = c /\ key' = k /\ entry' = NULL /\ passed' = {} /\ l' = 0
      /\ r' = (IF loop = "methods" THEN Len(Methods[c]) ELSE 0) /\ lpc' = loop
  BY DEF Ask
<1>2. loop \in {"methods", "fields", "constants", "rules"}
  OBVIOUS
<1>3. LookupTypeOK'
  BY <1>1, <1>2, ClassFacts DEF LookupTypeOK, NULL
<1>4. Searching'
  BY <1>1, <1>2 DEF Searching
<1>5. BisectionOnTrack'
  <2>1. SUFFICES ASSUME loop = "methods"
                 PROVE  /\ 0 <= Len(Methods[c])
                        /\ DeclaresMethod(c, k) =>
                             \E i \in 0 .. Len(Methods[c]) - 1 : Methods[c][i + 1] = k
    BY <1>1, <1>2, ClassFacts DEF BisectionOnTrack
  <2>2. ASSUME NEW i \in DOMAIN Methods[c], Methods[c][i] = k
        PROVE  \E j \in 0 .. Len(Methods[c]) - 1 : Methods[c][j + 1] = k
    <3>1. i \in 1 .. Len(Methods[c]) /\ Len(Methods[c]) \in Nat
      BY ClassFacts
    <3>2. i - 1 \in 0 .. Len(Methods[c]) - 1 /\ (i - 1) + 1 = i
      BY <3>1
    <3>3. QED  BY <2>2, <3>2
  <2>3. 0 <= Len(Methods[c])
    BY ClassFacts
  <2>4. QED  BY <2>2, <2>3 DEF DeclaresMethod
<1>6. ScanOnTrack' /\ ReferencesOnTrack' /\ PassedInVain' /\ AnswerRight'
  BY <1>1, <1>2, ClassFacts DEF ScanOnTrack, ReferencesOnTrack, PassedInVain, AnswerRight
<1>7. QED  BY <1>3, <1>4, <1>5, <1>6 DEF LInv

LEMMA CallLInv == LInv /\ LookupCall => LInv'
<1> SUFFICES ASSUME LInv, LookupCall PROVE LInv'
  OBVIOUS
<1>1. PICK c \in Class :
        \/ \E id \in SoughtIds : \/ Ask("virtual", c, id, "methods")
                                 \/ Ask("static", c, id, "methods")
                                 \/ Ask("field", c, id, "fields")
        \/ \E i \in SoughtIndexes : \/ Ask("constant", c, i, "constants")
                                    \/ Ask("class", c, i, "constants")
        \/ \E t \in Class : Ask("instanceof", c, t, "rules")
  BY DEF LookupCall, getVirtualMethodEntryByLinkId, getStaticMethodEntryByLinkId,
         getFieldInClassbyLinkId, getConstant, getClassReference, CP_IsInstanceOf
<1>2. ASSUME NEW id \in SoughtIds, Ask("virtual", c, id, "methods") PROVE LInv'
  BY <1>2, ClassFacts, AskLInv
<1>3. ASSUME NEW id \in SoughtIds, Ask("static", c, id, "methods") PROVE LInv'
  BY <1>3, ClassFacts, AskLInv
<1>4. ASSUME NEW id \in SoughtIds, Ask("field", c, id, "fields") PROVE LInv'
  BY <1>4, ClassFacts, AskLInv
<1>5. ASSUME NEW i \in SoughtIndexes, Ask("constant", c, i, "constants") PROVE LInv'
  BY <1>5, ClassFacts, AskLInv
<1>6. ASSUME NEW i \in SoughtIndexes, Ask("class", c, i, "constants") PROVE LInv'
  BY <1>6, ClassFacts, AskLInv
<1>7. ASSUME NEW t \in Class, Ask("instanceof", c, t, "rules") PROVE LInv'
  BY <1>7, ClassFacts, AskLInv
<1>8. QED  BY <1>1, <1>2, <1>3, <1>4, <1>5, <1>6, <1>7

LEMMA BisectLInv == LInv /\ Bisect => LInv'
<1> DEFINE center == (r + l) \div 2
<1> SUFFICES ASSUME LInv, Bisect PROVE LInv'
  OBVIOUS
<1>1. /\ query.fn \in {"virtual", "static"} /\ entry = NULL /\ key = query.key
      /\ cls \in Class /\ key \in Int /\ l \in Nat /\ r \in Nat
      /\ l <= r /\ r <= Len(Methods[cls]) /\ l # r /\ r - l # 1 /\ lpc = "methods"
      /\ UNCHANGED <<query, cls, key, passed>>
  BY DEF LInv, LookupTypeOK, Searching, BisectionOnTrack, Bisect, Found, Halve
<1>2. Len(Methods[cls]) \in Nat /\ DOMAIN Methods[cls] = 1 .. Len(Methods[cls])
      /\ \A i \in 1 .. Len(Methods[cls]) : Methods[cls][i] \in Nat
  BY <1>1, ClassFacts
<1>3. center \in Nat /\ l < center /\ center < r /\ center + 1 \in 1 .. Len(Methods[cls])
  BY <1>1, <1>2
<1> HIDE DEF center
<1>4. CASE Methods[cls][center + 1] = key /\ Found(center)
  <2>1. entry' = center /\ lpc' = "searched" /\ l' = l /\ r' = r
    BY <1>4 DEF Found
  <2>2. LookupTypeOK' /\ Searching' /\ ScanOnTrack' /\ ReferencesOnTrack' /\ AnswerRight'
    BY <1>1, <1>3, <2>1 DEF LInv, LookupTypeOK, Searching, ScanOnTrack, ReferencesOnTrack,
       AnswerRight
  <2>3. BisectionOnTrack'
    BY <1>1, <1>2, <1>3, <1>4, <2>1 DEF BisectionOnTrack, NULL
  <2>4. PassedInVain'
    BY <1>1 DEF LInv, PassedInVain, Declares
  <2>5. QED  BY <2>2, <2>3, <2>4 DEF LInv
<1>5. CASE Methods[cls][center + 1] # key /\ Halve(center) /\ UNCHANGED <<entry, lpc>>
  <2>1. l' \in Nat /\ r' \in Nat /\ l' <= r' /\ r' <= Len(Methods[cls])
    BY <1>1, <1>2, <1>3, <1>5 DEF Halve
  <2>2. ASSUME NEW i \in l .. r - 1, Methods[cls][i + 1] = key
        PROVE  i \in l' .. r' - 1
    <3>1. i + 1 \in DOMAIN Methods[cls] /\ center + 1 \in DOMAIN Methods[cls] /\ i \in Int
      BY <1>1, <1>2, <1>3
    <3>2. /\ i < center => Methods[cls][i + 1] < Methods[cls][center + 1]
          /\ center < i => Methods[cls][center + 1] < Methods[cls][i + 1]
      <4>1. /\ i + 1 < center + 1 => Methods[cls][i + 1] < Methods[cls][center + 1]
            /\ center + 1 < i + 1 => Methods[cls][center + 1] < Methods[cls][i + 1]
        BY <1>1, <3>1
      <4>2. QED  BY <1>3, <3>1, <4>1
    <3>3. i # center /\ Methods[cls][center + 1] \in Nat
      BY <1>2, <1>3, <1>5, <2>2
    <3>4. CASE key < Methods[cls][center + 1]
      <4>1. r' = center /\ l' = l
        BY <1>5, <3>4 DEF Halve
      <4>2. ~ (center < i)
        BY <1>1, <2>2, <3>2, <3>3, <3>4
      <4>3. QED  BY <1>1, <1>3, <3>1, <3>3, <4>1, <4>2
    <3>5. CASE ~ (key < Methods[cls][center + 1])
      <4>1. l' = center /\ r' = r
        BY <1>5, <3>5 DEF Halve
      <4>2. ~ (i < center)
        BY <1>1, <2>2, <3>2, <3>3, <3>5
      <4>3. QED  BY <1>1, <1>3, <3>1, <3>3, <4>1, <4>2
    <3>6. QED  BY <3>4, <3>5
  <2>3. BisectionOnTrack'
    <3>1. DeclaresMethod(cls, key) => \E i \in l .. r - 1 : Methods[cls][i + 1] = key
      BY <1>1 DEF LInv, BisectionOnTrack
    <3>2. DeclaresMethod(cls, key) => \E i \in l' .. r' - 1 : Methods[cls][i + 1] = key
      BY <2>2, <3>1
    <3>3. DeclaresMethod(cls, key)' <=> DeclaresMethod(cls, key)
      BY <1>1 DEF DeclaresMethod
    <3>4. QED  BY <1>1, <1>5, <2>1, <3>2, <3>3 DEF BisectionOnTrack
  <2>4. LookupTypeOK' /\ Searching' /\ ScanOnTrack' /\ ReferencesOnTrack' /\ AnswerRight'
    BY <1>1, <1>5, <2>1 DEF LInv, LookupTypeOK, Searching, ScanOnTrack, ReferencesOnTrack,
       AnswerRight
  <2>5. PassedInVain'
    BY <1>1 DEF LInv, PassedInVain, Declares
  <2>6. QED  BY <2>3, <2>4, <2>5 DEF LInv
<1>6. QED  BY <1>4, <1>5 DEF Bisect, center

LEMMA LastEntryLInv == LInv /\ LastEntry => LInv'
<1> SUFFICES ASSUME LInv, LastEntry PROVE LInv'
  OBVIOUS
<1>1. /\ query.fn \in {"virtual", "static"} /\ entry = NULL /\ key = query.key
      /\ cls \in Class /\ l \in Nat /\ r \in Nat
      /\ l <= r /\ r <= Len(Methods[cls]) /\ lpc = "methods" /\ lpc' = "searched"
      /\ UNCHANGED <<query, cls, key, l, r, passed>>
  BY DEF LInv, LookupTypeOK, Searching, BisectionOnTrack, LastEntry, Found, NotFound
<1>2. DOMAIN Methods[cls] = 1 .. Len(Methods[cls])
  BY <1>1, ClassFacts
<1>3. LookupTypeOK' /\ Searching' /\ ScanOnTrack' /\ ReferencesOnTrack' /\ AnswerRight'
  BY <1>1 DEF LInv, LookupTypeOK, Searching, ScanOnTrack, ReferencesOnTrack, AnswerRight,
     LastEntry, Found, NotFound
<1>4. PassedInVain'
  BY <1>1 DEF LInv, PassedInVain, Declares
<1>5. BisectionOnTrack'
  <2>1. CASE l # r /\ Methods[cls][l + 1] = key
    <3>1. entry' = l /\ l # NULL /\ l + 1 \in DOMAIN Methods[cls]
      BY <1>1, <1>2, <2>1, ClassFacts DEF LastEntry, Found, NULL
    <3>2. QED  BY <1>1, <2>1, <3>1 DEF BisectionOnTrack
  <2>2. CASE ~ (l # r /\ Methods[cls][l + 1] = key)
    <3>1. entry' = NULL
      BY <1>1, <2>2 DEF LastEntry, NotFound
    <3>2. l = r \/ r - l = 1
      BY DEF LastEntry
    <3>3. ~ \E i \in l .. r - 1 : Methods[cls][i + 1] = key
      BY <1>1, <2>2, <3>2
    <3>4. ~ DeclaresMethod(cls, key)
      BY <1>1, <3>3 DEF LInv, BisectionOnTrack
    <3>5. QED  BY <1>1, <3>1, <3>4 DEF BisectionOnTrack, DeclaresMethod
  <2>3. QED  BY <2>1, <2>2
<1>6. QED  BY <1>3, <1>4, <1>5 DEF LInv

LEMMA ScanFieldsLInv == LInv /\ ScanFields => LInv'
<1> SUFFICES ASSUME LInv, ScanFields PROVE LInv'
  OBVIOUS
<1>1. /\ query.fn = "field" /\ entry = NULL /\ key = query.key /\ cls \in Class /\ l \in Nat
      /\ lpc = "fields" /\ UNCHANGED <<query, cls, key, r, passed>>
      /\ \A i \in DOMAIN Fields[cls] : i <= l => Fields[cls][i].linkId # key
  BY DEF LInv, LookupTypeOK, Searching, ScanOnTrack, ScanFields, Found, NotFound
<1>2. Len(Fields[cls]) \in Nat /\ DOMAIN Fields[cls] = 1 .. Len(Fields[cls])
  BY <1>1, ClassFacts
<1>3. PassedInVain'
  BY <1>1 DEF LInv, PassedInVain, Declares
<1>4. CASE l < Len(Fields[cls]) /\ Fields[cls][l + 1].linkId = key /\ Found(l)
  <2>1. entry' = l /\ lpc' = "searched" /\ l' = l /\ l # NULL /\ l + 1 \in DOMAIN Fields[cls]
    BY <1>1, <1>2, <1>4 DEF Found, NULL
  <2>2. LookupTypeOK' /\ Searching' /\ BisectionOnTrack' /\ ReferencesOnTrack' /\ AnswerRight'
    BY <1>1, <2>1 DEF LInv, LookupTypeOK, Searching, BisectionOnTrack, ReferencesOnTrack,
       AnswerRight
  <2>3. ScanOnTrack'
    BY <1>1, <1>4, <2>1 DEF ScanOnTrack
  <2>4. QED  BY <1>3, <2>2, <2>3 DEF LInv
<1>5. CASE /\ l < Len(Fields[cls]) /\ Fields[cls][l + 1].linkId # key
           /\ l' = l + 1 /\ UNCHANGED <<entry, lpc>>
  <2>1. LookupTypeOK' /\ Searching' /\ BisectionOnTrack' /\ ReferencesOnTrack' /\ AnswerRight'
    BY <1>1, <1>5 DEF LInv, LookupTypeOK, Searching, BisectionOnTrack, ReferencesOnTrack,
       AnswerRight
  <2>2. \A i \in DOMAIN Fields[cls] : i <= l + 1 => Fields[cls][i].linkId # key
    <3>1. \A i \in DOMAIN Fields[cls] : i <= l + 1 => i <= l \/ i = l + 1
      BY <1>1, <1>2
    <3>2. QED  BY <1>1, <1>5, <3>1
  <2>3. ScanOnTrack'
    BY <1>1, <1>5, <2>2 DEF ScanOnTrack
  <2>4. QED  BY <1>3, <2>1, <2>3 DEF LInv
<1>6. CASE ~ (l < Len(Fields[cls])) /\ NotFound
  <2>1. entry' = entry /\ lpc' = "searched" /\ l' = l
    BY <1>6 DEF NotFound
  <2>2. LookupTypeOK' /\ Searching' /\ BisectionOnTrack' /\ ReferencesOnTrack' /\ AnswerRight'
    BY <1>1, <2>1 DEF LInv, LookupTypeOK, Searching, BisectionOnTrack, ReferencesOnTrack,
       AnswerRight
  <2>3. ~ DeclaresField(cls, key)
    BY <1>1, <1>2, <1>6 DEF DeclaresField
  <2>4. ScanOnTrack'
    BY <1>1, <2>1, <2>3 DEF ScanOnTrack, DeclaresField
  <2>5. QED  BY <1>3, <2>2, <2>4 DEF LInv
<1>7. QED  BY <1>4, <1>5, <1>6 DEF ScanFields

LEMMA ScanReferencesLInv == LInv /\ ScanReferences => LInv'
<1> SUFFICES ASSUME LInv, ScanReferences PROVE LInv'
  OBVIOUS
<1>1. /\ query.fn \in {"constant", "class"} /\ key = query.key /\ cls \in Class /\ l \in Nat
      /\ query.fn \notin {"virtual", "static", "field"}
      /\ lpc = "constants" /\ UNCHANGED <<query, cls, key, r, passed>>
      /\ \A i \in DOMAIN References : i <= l => ~ Refers(i)
  BY DEF LInv, LookupTypeOK, Searching, ReferencesOnTrack, ScanReferences, Answer, jvmexit
<1>2. Len(References) \in Nat /\ DOMAIN References = 1 .. Len(References)
  BY ClassFacts
<1>3. \A i : Refers(i)' <=> Refers(i)
  BY <1>1 DEF Refers
<1>4. CASE l < Len(References) /\ Refers(l + 1) /\ Answer(l)
  <2>1. entry' = l /\ lpc' = "done" /\ l' = l /\ l + 1 \in DOMAIN References
    BY <1>1, <1>2, <1>4 DEF Answer
  <2>2. /\ LookupTypeOK' /\ Searching' /\ BisectionOnTrack' /\ ScanOnTrack' /\ ReferencesOnTrack'
        /\ PassedInVain'
    BY <1>1, <2>1 DEF LInv, LookupTypeOK, Searching, BisectionOnTrack, ScanOnTrack,
       ReferencesOnTrack, PassedInVain
  <2>3. AnswerRight'
    BY <1>1, <1>3, <1>4, <2>1 DEF AnswerRight
  <2>4. QED  BY <2>2, <2>3 DEF LInv
<1>5. CASE /\ l < Len(References) /\ ~ Refers(l + 1)
           /\ l' = l + 1 /\ UNCHANGED <<entry, lpc>>
  <2>1. /\ LookupTypeOK' /\ Searching' /\ BisectionOnTrack' /\ ScanOnTrack' /\ AnswerRight'
        /\ PassedInVain'
    BY <1>1, <1>5 DEF LInv, LookupTypeOK, Searching, BisectionOnTrack, ScanOnTrack,
       AnswerRight, PassedInVain
  <2>2. \A i \in DOMAIN References : i <= l + 1 => ~ Refers(i)
    <3>1. l \in Nat
      BY <1>1
    <3>2. \A i \in DOMAIN References : i <= l + 1 => i <= l \/ i = l + 1
      BY <3>1, <1>2
    <3>3. QED  BY <1>1, <1>5, <3>2
  <2>3. ReferencesOnTrack'
    BY <1>1, <1>3, <1>5, <2>2 DEF ReferencesOnTrack
  <2>4. QED  BY <2>1, <2>3 DEF LInv
<1>6. CASE ~ (l < Len(References)) /\ jvmexit
  <2>1. entry' = entry /\ lpc' = "exit" /\ l' = l
    BY <1>6 DEF jvmexit
  <2>2. /\ LookupTypeOK' /\ Searching' /\ BisectionOnTrack' /\ ScanOnTrack' /\ ReferencesOnTrack'
        /\ PassedInVain'
    BY <1>1, <2>1 DEF LInv, LookupTypeOK, Searching, BisectionOnTrack, ScanOnTrack,
       ReferencesOnTrack, PassedInVain
  <2>3. \A i \in DOMAIN References : ~ Refers(i)
    BY <1>1, <1>2, <1>6
  <2>4. AnswerRight'
    BY <1>1, <1>3, <2>1, <2>3 DEF AnswerRight
  <2>5. QED  BY <2>2, <2>4 DEF LInv
<1>7. QED  BY <1>4, <1>5, <1>6 DEF ScanReferences

\* The class at hand joins those given up; the search goes on in its superclass.
LEMMA NextClassLInv ==
  ASSUME LInv, SuperClass, entry = NULL, query.fn # "static", cls # Object
  PROVE  LInv'
<1>1. /\ query.fn \in {"virtual", "field"} /\ key = query.key /\ cls \in Class /\ lpc = "searched"
      /\ key \in Int /\ passed \subseteq Class
  BY DEF LInv, LookupTypeOK, Searching, SuperClass
<1>2. /\ cls' = Super[cls] /\ passed' = passed \cup {cls} /\ l' = 0
      /\ r' = (IF query.fn = "field" THEN 0 ELSE Len(Methods[cls']))
      /\ lpc' = (IF query.fn = "field" THEN "fields" ELSE "methods")
      /\ UNCHANGED <<query, key, entry>>
  BY DEF SuperClass
<1>3. cls' \in Class /\ Len(Methods[cls']) \in Nat
      /\ DOMAIN Methods[cls'] = 1 .. Len(Methods[cls'])
      /\ DOMAIN Fields[cls'] = 1 .. Len(Fields[cls'])
  BY <1>1, <1>2, ClassFacts
<1>4. LookupTypeOK'
  BY <1>1, <1>2, <1>3 DEF LInv, LookupTypeOK
<1>5. Searching' /\ ReferencesOnTrack' /\ AnswerRight'
  BY <1>1, <1>2 DEF LInv, Searching, ReferencesOnTrack, AnswerRight
<1>6. BisectionOnTrack'
  <2> DEFINE c == cls'
  <2> HIDE DEF c
  <2>1. ASSUME NEW i \in DOMAIN Methods[c], Methods[c][i] = key
        PROVE  \E j \in 0 .. Len(Methods[c]) - 1 : Methods[c][j + 1] = key
    <3>1. i \in 1 .. Len(Methods[c]) /\ Len(Methods[c]) \in Nat
      BY <1>3 DEF c
    <3>2. i - 1 \in 0 .. Len(Methods[c]) - 1 /\ (i - 1) + 1 = i
      BY <3>1
    <3>3. QED  BY <2>1, <3>2
  <2>2. DeclaresMethod(c, key) => \E j \in 0 .. Len(Methods[c]) - 1 : Methods[c][j + 1] = key
    BY <2>1 DEF DeclaresMethod
  <2>3. DeclaresMethod(cls, key)' <=> DeclaresMethod(c, key)
    BY <1>2 DEF DeclaresMethod, c
  <2>4. lpc' = "methods" =>
          /\ l' <= r' /\ r' <= Len(Methods[cls])'
          /\ DeclaresMethod(cls, key)' => \E j \in l' .. r' - 1 : Methods[cls'][j + 1] = key'
    BY <1>2, <1>3, <2>2, <2>3 DEF c
  <2>5. lpc' # "searched"
    BY <1>2
  <2>6. QED  BY <2>4, <2>5 DEF BisectionOnTrack
<1>7. ScanOnTrack'
  BY <1>2, <1>3 DEF ScanOnTrack
<1>8. PassedInVain'
  <2>1. ~ Declares(cls, query.key)
    BY <1>1 DEF LInv, BisectionOnTrack, ScanOnTrack, Declares
  <2>2. \A k : Declares(k, query.key)' <=> Declares(k, query.key)
    BY <1>2 DEF Declares
  <2>3. /\ query.cls \in passed \cup {cls}
        /\ \A k \in passed : Super[k] \in passed \cup {cls} /\ ~ Declares(k, query.key)
    BY <1>1 DEF LInv, PassedInVain
  <2>4. \A k \in passed' : Super[k] \in passed' \cup {cls'} /\ ~ Declares(k, query.key)
    BY <1>2, <2>1, <2>3
  <2>5. QED  BY <1>1, <1>2, <2>2, <2>3, <2>4 DEF PassedInVain
<1>9. QED  BY <1>4, <1>5, <1>6, <1>7, <1>8 DEF LInv

LEMMA SuperClassLInv == LInv /\ SuperClass => LInv'
<1> SUFFICES ASSUME LInv, SuperClass PROVE LInv'
  OBVIOUS
<1>1. /\ query.fn \in {"virtual", "static", "field"} /\ key = query.key /\ lpc = "searched"
      /\ query.fn \notin {"constant", "class", "instanceof"}
  BY DEF LInv, Searching, SuperClass
<1>2. ASSUME UNCHANGED <<query, cls, key, l, r, passed, entry>>, lpc' \in {"done", "exit"}
      PROVE  /\ LookupTypeOK' /\ Searching' /\ BisectionOnTrack' /\ ScanOnTrack'
             /\ ReferencesOnTrack' /\ PassedInVain'
  <2>1. LookupTypeOK' /\ Searching' /\ BisectionOnTrack' /\ ScanOnTrack' /\ ReferencesOnTrack'
    BY <1>1, <1>2 DEF LInv, LookupTypeOK, Searching, BisectionOnTrack, ScanOnTrack,
       ReferencesOnTrack
  <2>2. PassedInVain'
    BY <1>2 DEF LInv, PassedInVain, Declares
  <2>3. QED  BY <2>1, <2>2
<1>3. CASE entry # NULL
  <2>1. UNCHANGED <<query, cls, key, l, r, passed, entry>> /\ lpc' = "done"
    BY <1>3 DEF SuperClass, Answer
  <2>2. AnswerRight'
    BY <1>1, <1>3, <2>1 DEF LInv, BisectionOnTrack, ScanOnTrack, AnswerRight
  <2>3. QED  BY <1>2, <2>1, <2>2 DEF LInv
<1>4. CASE entry = NULL /\ (query.fn = "static" \/ cls = Object)
  <2>1. UNCHANGED <<query, cls, key, l, r, passed, entry>> /\ lpc' = "exit"
    BY <1>4 DEF SuperClass, jvmexit
  <2>2. ~ Declares(cls, query.key)
    BY <1>1, <1>4 DEF LInv, BisectionOnTrack, ScanOnTrack, Declares
  <2>3. AnswerRight'
    BY <1>1, <1>4, <2>1, <2>2 DEF AnswerRight, Declares
  <2>4. QED  BY <1>2, <2>1, <2>3 DEF LInv
<1>5. CASE entry = NULL /\ query.fn # "static" /\ cls # Object
  BY <1>5, NextClassLInv
<1>6. QED  BY <1>3, <1>4, <1>5

\* The tests of classes leave the searches alone.
LEMMA TestLInv ==
  ASSUME LInv, SubClassing \/ OfArray \/ OfClass \/ OfInterface
  PROVE  LInv'
<1>1. /\ query.fn = "instanceof" /\ query' = query /\ passed' = passed /\ UNCHANGED <<l, r>>
      /\ query'.fn \notin {"virtual", "static", "field", "constant", "class"}
  BY DEF LInv, Searching, SubClassing, OfArray, OfClass, OfInterface, Answer, jvmexit
<1>2. /\ cls' \in Class /\ key' \in Int /\ entry' \in Int
      /\ lpc' \in {"rules", "subclassing", "done", "exit"}
      /\ lpc' \in {"rules", "subclassing"} => key' \in Class
  <2>1. cls \in Class /\ key \in Class /\ key \in Int /\ entry \in Int
    BY DEF LInv, LookupTypeOK, Searching, SubClassing, OfArray, OfClass, OfInterface
  <2>2. CASE SubClassing
    BY <2>1, <2>2, ClassFacts DEF SubClassing, Answer, FALSE_, TRUE_
  <2>3. CASE OfArray
    <3>1. \/ cls' = Element[cls] /\ key' = Element[key] /\ entry' = entry /\ lpc' = "rules"
          \/ cls' = cls /\ key' = key /\ entry' \in {0, 1} /\ lpc' = "done"
          \/ cls' = cls /\ key' = key /\ entry' = entry /\ lpc' = "exit"
      BY <2>3 DEF OfArray, Answer, jvmexit, FALSE_, TRUE_, Truth
    <3>2. Element[cls] \in Class /\ Element[key] \in Class /\ Element[key] \in Int
      BY <2>1, ClassFacts
    <3>3. QED  BY <2>1, <3>1, <3>2
  <2>4. CASE OfClass
    BY <2>1, <2>4 DEF OfClass, Answer, FALSE_, TRUE_, Truth
  <2>5. CASE OfInterface
    BY <2>1, <2>5 DEF OfInterface, jvmexit
  <2>6. QED  BY <2>2, <2>3, <2>4, <2>5
<1>3. LookupTypeOK'
  BY <1>1, <1>2 DEF LInv, LookupTypeOK
<1>4. /\ Searching' /\ BisectionOnTrack' /\ ScanOnTrack' /\ ReferencesOnTrack'
      /\ PassedInVain' /\ AnswerRight'
  BY <1>1, <1>2 DEF Searching, BisectionOnTrack, ScanOnTrack, ReferencesOnTrack, PassedInVain,
     AnswerRight
<1>5. QED  BY <1>3, <1>4 DEF LInv

LEMMA LookupReturnLInv == LInv /\ LookupReturn => LInv'
  BY ClassFacts DEF LookupReturn, LInv, NoQuery, LookupTypeOK, Searching, BisectionOnTrack,
     ScanOnTrack, ReferencesOnTrack, PassedInVain, AnswerRight, NULL, Object

LEMMA StutterLInv == LInv /\ UNCHANGED lvars => LInv'
  BY DEF lvars, LInv, LookupTypeOK, Searching, BisectionOnTrack, ScanOnTrack, ReferencesOnTrack,
     PassedInVain, AnswerRight, Refers, Declares, DeclaresMethod, DeclaresField

\* The invariant of the searches, for all tables: what is looked for is among what
\* is left of the table at hand, and the classes given up do not have it.
THEOREM LookupInvariant == LookupSpec => []LInv
<1>1. LInv /\ [LookupNext]_lvars => LInv'
  BY CallLInv, BisectLInv, LastEntryLInv, ScanFieldsLInv, ScanReferencesLInv, SuperClassLInv,
     TestLInv, LookupReturnLInv, StutterLInv DEF LookupNext, LookupStep
<1>2. QED  BY LookupInit, <1>1, PTL DEF LookupSpec

\* The bisection of getMethodInClass never steps over the method it looks for, in
\* tables of any size sorted by link id.
THEOREM BisectionStaysOnTrack == LookupSpec => []BisectionOnTrack
<1>1. LInv => BisectionOnTrack
  BY DEF LInv
<1>2. QED  BY LookupInvariant, <1>1, PTL

LEMMA PassedLeads ==
  ASSUME LInv, query.fn \in {"virtual", "static", "field"}
  PROVE  NoneBelow(query.cls, cls, query.key)
<1> DEFINE below == passed \ {cls}
<1>1. below \in SUBSET Class
  BY DEF LInv, LookupTypeOK
<1>2. /\ cls \notin below /\ query.cls \in below \cup {cls}
      /\ \A k \in below : Super[k] \in below \cup {cls} /\ ~ Declares(k, query.key)
  BY DEF LInv, PassedInVain
<1>3. QED  BY <1>1, <1>2 DEF NoneBelow

LEMMA LookupFromInvariant == LInv => LookupExact
<1> SUFFICES ASSUME LInv PROVE LookupExact
  OBVIOUS
<1>1. /\ AnswerRight
      /\ query.fn \in {"virtual", "static", "field"} => (query.fn = "static" => cls = query.cls)
  BY DEF LInv, PassedInVain
<1>2. query.fn \in {"virtual", "static", "field"} => NoneBelow(query.cls, cls, query.key)
  BY PassedLeads
<1>3. QED  BY <1>1, <1>2 DEF LookupExact, AnswerRight

\* A search answers with an entry of the nearest class that has one, and exits only
\* when no class has; a reference found is the first that matches.
THEOREM LookupsAreExact == LookupSpec => []LookupExact
BY LookupFromInvariant, LookupInvariant, PTL
-----------------------------------------------------------------------------
(* instanceof.  The definitions that recurse over the tables have a value  *)
(* that satisfies them, whether the tables are well founded or not: the    *)
(* least one.                                                              *)

\* The classes above c: the least set with its superclass and theirs.
ClosedUp(U) == \A k \in U : k # Object => Super[k] \in U
AllAbove(c) == {d \in Class : \A U \in SUBSET Class :
                 ClosedUp(U) /\ (c # Object => Super[c] \in U) => d \in U}

LEMMA AllAboveStep ==
  ASSUME NEW c \in Class
  PROVE  AllAbove(c) = IF c = Object THEN {} ELSE {Super[c]} \cup AllAbove(Super[c])
<1> DEFINE s == Super[c]
<1>1. s \in Class
  BY ClassFacts
<1>2. CASE c = Object
  <2>1. {} \in SUBSET Class /\ ClosedUp({})
    BY DEF ClosedUp
  <2>2. QED  BY <1>2, <2>1 DEF AllAbove
<1>3. CASE c # Object
  <2> DEFINE V == {s} \cup AllAbove(s)
  <2>1. V \in SUBSET Class
    BY <1>1 DEF AllAbove
  <2>2. ClosedUp(V)
    <3>1. SUFFICES ASSUME NEW k \in V, k # Object PROVE Super[k] \in AllAbove(s)
      BY DEF ClosedUp
    <3>2. Super[k] \in Class
      BY <2>1, ClassFacts
    <3>3. SUFFICES ASSUME NEW U \in SUBSET Class, ClosedUp(U), s # Object => Super[s] \in U
                   PROVE  Super[k] \in U
      BY <3>2 DEF AllAbove
    <3>4. CASE k = s
      BY <3>1, <3>3, <3>4
    <3>5. CASE k \in AllAbove(s)
      <4>1. k \in U
        BY <3>3, <3>5 DEF AllAbove
      <4>2. QED  BY <3>1, <3>3, <4>1 DEF ClosedUp
    <3>6. QED  BY <3>4, <3>5
  <2>3. AllAbove(c) \subseteq V
    BY <2>1, <2>2 DEF AllAbove
  <2>4. s \in AllAbove(c)
    BY <1>1, <1>3 DEF AllAbove
  <2>5. AllAbove(s) \subseteq AllAbove(c)
    <3>1. SUFFICES ASSUME NEW d \in AllAbove(s), NEW U \in SUBSET Class, ClosedUp(U), s \in U
                   PROVE  d \in U
      BY <1>3 DEF AllAbove
    <3>2. s # Object => Super[s] \in U
      BY <3>1 DEF ClosedUp
    <3>3. QED  BY <3>1, <3>2 DEF AllAbove
  <2>6. QED  BY <1>3, <2>3, <2>4, <2>5
<1>4. QED  BY <1>2, <1>3

LEMMA SupersDefined ==
  \A c \in Class : Supers[c] = IF c = Object THEN {} ELSE {Super[c]} \cup Supers[Super[c]]
<1> DEFINE F == [c \in Class |-> AllAbove(c)]
<1>1. F = [c \in Class |-> IF c = Object THEN {} ELSE {Super[c]} \cup F[Super[c]]]
  BY AllAboveStep, ClassFacts
<1> HIDE DEF F
<1>2. Supers = [c \in Class |-> IF c = Object THEN {} ELSE {Super[c]} \cup Supers[Super[c]]]
  BY <1>1 DEF Supers
<1>3. QED  BY <1>2

\* The rules for casts with U for what is known of the elements.
CastAtOnce(s, t) ==
  CASE Type[s] = "CT_CLASS" ->
         IF Type[t] = "CT_INTERFACE" THEN t \in Implements[s] ELSE t \in {s} \cup Supers[s]
    [] Type[s] = "CT_INTERFACE" -> t \in {s, Object} \cup Implements[s]
    [] OTHER -> t = Object \/ (Type[s] \in PrimitiveArray /\ s = t)
CastByElements(s, t) == isObjectArray(s) /\ isObjectArray(t)
CastGiven(U, s, t) ==
  CastAtOnce(s, t) \/ (CastByElements(s, t) /\ <<Element[s], Element[t]>> \in U)

ClosedCasts(U) == \A s, t \in Class : CastGiven(U, s, t) => <<s, t>> \in U
LeastCasts == {p \in Class \X Class : \A U \in SUBSET (Class \X Class) : ClosedCasts(U) => p \in U}

LEMMA LeastCastsStep ==
  ASSUME NEW s \in Class, NEW t \in Class
  PROVE  <<s, t>> \in LeastCasts <=> CastGiven(LeastCasts, s, t)
<1> DEFINE V == {p \in Class \X Class : CastGiven(LeastCasts, p[1], p[2])}
<1>1. ASSUME NEW a1 \in Class, NEW b1 \in Class, CastGiven(LeastCasts, a1, b1)
      PROVE  <<a1, b1>> \in LeastCasts
  <2>1. SUFFICES ASSUME NEW U \in SUBSET (Class \X Class), ClosedCasts(U)
                 PROVE  <<a1, b1>> \in U
    BY DEF LeastCasts
  <2>2. CastGiven(U, a1, b1)
    BY <1>1, <2>1 DEF CastGiven, LeastCasts
  <2>3. QED  BY <2>1, <2>2 DEF ClosedCasts
<1>2. V \subseteq LeastCasts
  BY <1>1
<1>3. ClosedCasts(V)
  <2>1. SUFFICES ASSUME NEW a1 \in Class, NEW b1 \in Class, CastGiven(V, a1, b1)
                 PROVE  CastGiven(LeastCasts, a1, b1)
    BY DEF ClosedCasts
  <2> HIDE DEF V
  <2>2. QED  BY <1>2, <2>1 DEF CastGiven
<1>4. LeastCasts \subseteq V
  BY <1>3 DEF LeastCasts
<1>5. QED  BY <1>1, <1>4

LEMMA CastableDefined ==
  ASSUME NEW s \in Class, NEW t \in Class
  PROVE  /\ Castable[s][t] \in BOOLEAN
         /\ Castable[s][t] <=>
              CastAtOnce(s, t) \/ (CastByElements(s, t) /\ Castable[Element[s]][Element[t]])
<1> DEFINE F == [x \in Class |-> [y \in Class |-> <<x, y>> \in LeastCasts]]
           Body(G, x, y) ==
             CASE Type[x] = "CT_CLASS" ->
                    IF Type[y] = "CT_INTERFACE" THEN y \in Implements[x] ELSE y \in {x} \cup Supers[x]
               [] Type[x] = "CT_INTERFACE" -> y \in {x, Object} \cup Implements[x]
               [] OTHER ->
                    \/ y = Object
                    \/ Type[x] \in PrimitiveArray /\ x = y
                    \/ isObjectArray(x) /\ isObjectArray(y) /\ G[Element[x]][Element[y]]
<1>1. ASSUME NEW G, NEW x \in Class, NEW y \in Class
      PROVE  /\ Body(G, x, y) \in BOOLEAN
             /\ Body(G, x, y) <=>
                  CastAtOnce(x, y) \/ (CastByElements(x, y) /\ G[Element[x]][Element[y]])
  <2>1. CASE Type[x] = "CT_CLASS"
    <3>1. CASE Type[y] = "CT_INTERFACE"
      BY <2>1, <3>1 DEF CastAtOnce, CastByElements, isObjectArray
    <3>2. CASE Type[y] # "CT_INTERFACE"
      BY <2>1, <3>2 DEF CastAtOnce, CastByElements, isObjectArray
    <3>3. QED  BY <3>1, <3>2
  <2>2. CASE Type[x] = "CT_INTERFACE"
    BY <2>2 DEF CastAtOnce, CastByElements, isObjectArray
  <2>3. CASE Type[x] \notin {"CT_CLASS", "CT_INTERFACE"}
    BY <2>3 DEF CastAtOnce, CastByElements, isObjectArray
  <2>4. QED  BY <2>1, <2>2, <2>3
<1>2. ASSUME NEW x \in Class, NEW y \in Class
      PROVE  F[x][y] = Body(F, x, y)
  <2>1. Element[x] \in Class /\ Element[y] \in Class
    BY ClassFacts
  <2>2. F[Element[x]][Element[y]] = (<<Element[x], Element[y]>> \in LeastCasts)
    BY <2>1
  <2>3. F[x][y] = (<<x, y>> \in LeastCasts)
    OBVIOUS
  <2>4. <<x, y>> \in LeastCasts <=> CastGiven(LeastCasts, x, y)
    BY LeastCastsStep
  <2> HIDE DEF F, Body
  <2>5. F[x][y] <=> CastAtOnce(x, y) \/ (CastByElements(x, y) /\ F[Element[x]][Element[y]])
    BY <2>2, <2>3, <2>4 DEF CastGiven
  <2>6. F[x][y] \in BOOLEAN
    BY <2>3
  <2>7. QED  BY <1>1, <2>5, <2>6
<1>3. F = [x \in Class |-> [y \in Class |-> Body(F, x, y)]]
  <2> DEFINE H == [x \in Class |-> [y \in Class |-> Body(F, x, y)]]
  <2>1. ASSUME NEW x \in Class
        PROVE  F[x] = H[x]
    <3>1. F[x] = [y \in Class |-> F[x][y]]
      OBVIOUS
    <3>2. H[x] = [y \in Class |-> Body(F, x, y)]
      OBVIOUS
    <3> HIDE DEF F, H, Body
    <3>3. QED  BY <1>2, <3>1, <3>2
  <2>2. F = [x \in Class |-> F[x]] /\ H = [x \in Class |-> H[x]]
    OBVIOUS
  <2> HIDE DEF F, H, Body
  <2>3. F = H
    BY <2>1, <2>2
  <2>4. QED  BY <2>3 DEF H
<1>4. Castable = [x \in Class |-> [y \in Class |-> Body(Castable, x, y)]]
  <2> HIDE DEF F
  <2>1. QED  BY <1>3 DEF Castable
<1>5. \A x, y \in Class : Castable[x][y] = Body(Castable, x, y)
  <2> DEFINE H == [x \in Class |-> [y \in Class |-> Body(Castable, x, y)]]
  <2>1. \A x, y \in Class : H[x][y] = Body(Castable, x, y)
    <3> HIDE DEF Body
    <3>1. QED  OBVIOUS
  <2>2. Castable = H
    BY <1>4
  <2> HIDE DEF H, Body
  <2>3. QED  BY <2>1, <2>2
<1> HIDE DEF Body
<1>6. QED  BY <1>1, <1>5

\* The classes met on the way from an array to its innermost elements.
ClosedDown(U) == \A k \in U : isObjectArray(k) => Element[k] \in U
AllWithin(c) == {d \in Class : \A U \in SUBSET Class : ClosedDown(U) /\ c \in U => d \in U}
NoArrays(c) == {d \in AllWithin(c) : ~ isObjectArray(d)}

LEMMA NoArraysStep ==
  ASSUME NEW c \in Class
  PROVE  /\ isObjectArray(c) => NoArrays(c) = NoArrays(Element[c])
         /\ ~ isObjectArray(c) => NoArrays(c) = {c}
<1>1. CASE isObjectArray(c)
  <2> DEFINE e == Element[c]
             V == {c} \cup AllWithin(e)
  <2>1. e \in Class /\ V \in SUBSET Class
    BY ClassFacts DEF AllWithin
  <2>2. e \in AllWithin(e)
    BY <2>1 DEF AllWithin
  <2>3. ClosedDown(V)
    <3>1. SUFFICES ASSUME NEW k \in V, isObjectArray(k) PROVE Element[k] \in AllWithin(e)
      BY DEF ClosedDown
    <3>2. CASE k = c
      BY <2>2, <3>2
    <3>3. CASE k \in AllWithin(e)
      <4>1. Element[k] \in Class
        BY <2>1, ClassFacts
      <4>2. QED  BY <3>1, <3>3, <4>1 DEF AllWithin, ClosedDown
    <3>4. QED  BY <3>2, <3>3
  <2>4. AllWithin(c) \subseteq V
    BY <2>1, <2>3 DEF AllWithin
  <2>5. AllWithin(e) \subseteq AllWithin(c)
    BY <1>1 DEF AllWithin, ClosedDown
  <2>6. QED  BY <1>1, <2>4, <2>5 DEF NoArrays
<1>2. CASE ~ isObjectArray(c)
  <2>1. {c} \in SUBSET Class /\ ClosedDown({c})
    BY <1>2 DEF ClosedDown
  <2>2. AllWithin(c) = {c}
    BY <2>1 DEF AllWithin
  <2>3. QED  BY <1>2, <2>2 DEF NoArrays
<1>3. QED  BY <1>1, <1>2

LEMMA InnermostDefined ==
  \A c \in Class : Innermost[c] = IF isObjectArray(c) THEN Innermost[Element[c]] ELSE c
<1> DEFINE F == [c \in Class |-> CHOOSE d : d \in NoArrays(c)]
<1>1. ASSUME NEW c \in Class
      PROVE  F[c] = IF isObjectArray(c) THEN F[Element[c]] ELSE c
  <2>1. Element[c] \in Class
    BY ClassFacts
  <2>2. QED  BY <2>1, NoArraysStep
<1>2. F = [c \in Class |-> IF isObjectArray(c) THEN F[Element[c]] ELSE c]
  <2>1. F = [c \in Class |-> F[c]]
    OBVIOUS
  <2> HIDE DEF F
  <2>2. QED  BY <1>1, <2>1
<1> HIDE DEF F
<1>3. Innermost = [c \in Class |-> IF isObjectArray(c) THEN Innermost[Element[c]] ELSE c]
  BY <1>2 DEF Innermost
<1>4. QED  BY <1>3
\* A superclass is always a class.
LEMMA SupersAreClasses == \A c \in Class, k \in Class : k \in Supers[c] => Type[k] = "CT_CLASS"
<1> DEFINE U == {c \in Class : \A k \in Class : k \in Supers[c] => Type[k] = "CT_CLASS"}
<1>1. U \in SUBSET Class
  OBVIOUS
<1>2. Object \in U
  BY ClassFacts, SupersDefined
<1>3. ASSUME NEW c \in Class, Super[c] \in U
      PROVE  c \in U
  <2>1. Type[Super[c]] = "CT_CLASS"
    BY SuperclassAssumption
  <2>2. ASSUME NEW k \in Class, k \in Supers[c]
        PROVE  Type[k] = "CT_CLASS"
    <3>1. c # Object /\ k \in {Super[c]} \cup Supers[Super[c]]
      BY <2>2, SupersDefined
    <3>2. k = Super[c] \/ k \in Supers[Super[c]]
      BY <3>1
    <3>3. QED  BY <1>3, <2>1, <3>2
  <2>3. QED  BY <2>2
<1> HIDE DEF U
<1>4. U = Class
  BY <1>1, <1>2, <1>3, SuperclassAssumption
<1>5. QED  BY <1>4 DEF U

\* The rules for casts, one for each pair of kinds of types that the code tells apart.
LEMMA CastRules ==
  ASSUME NEW s \in Class, NEW t \in Class
  PROVE  /\ isObjectArray(s) /\ isObjectArray(t) =>
              (Castable[s][t] <=> Castable[Element[s]][Element[t]])
         /\ isPrimitiveValueArray(s) /\ isObjectArray(t) => ~ Castable[s][t]
         /\ (isObjectArray(s) \/ isPrimitiveValueArray(s)) /\ isPrimitiveValueArray(t) =>
              (Castable[s][t] <=> t = s)
         /\ (isObjectArray(s) \/ isPrimitiveValueArray(s)) /\ Type[t] = "CT_CLASS" =>
              (Castable[s][t] <=> t = Object)
         /\ Type[s] = "CT_CLASS" /\ Type[t] = "CT_CLASS" =>
              (Castable[s][t] <=> s = t \/ t \in Supers[s])
         /\ Type[s] = "CT_CLASS" /\ Type[t] # "CT_CLASS" =>
              (Castable[s][t] <=> t \in Implements[s])
<1>1. Castable[s][t] <=>
        CastAtOnce(s, t) \/ (CastByElements(s, t) /\ Castable[Element[s]][Element[t]])
  BY CastableDefined
<1>2. /\ Type[Object] = "CT_CLASS"
      /\ t \in Implements[s] => Type[t] = "CT_INTERFACE"
      /\ t \in Supers[s] => Type[t] = "CT_CLASS"
  BY SuperclassAssumption, InterfacesAssumption, SupersAreClasses
<1>3. CASE Type[s] = "CT_CLASS"
  <2>1. Castable[s][t] <=> CastAtOnce(s, t)
    BY <1>1, <1>3 DEF CastByElements, isObjectArray
  <2>2. CASE Type[t] = "CT_INTERFACE"
    <3>1. Castable[s][t] <=> t \in Implements[s]
      BY <1>3, <2>1, <2>2 DEF CastAtOnce
    <3>2. QED  BY <1>3, <2>2, <3>1 DEF isObjectArray, isPrimitiveValueArray, PrimitiveArray
  <2>3. CASE Type[t] # "CT_INTERFACE"
    <3>1. Castable[s][t] <=> t = s \/ t \in Supers[s]
      BY <1>3, <2>1, <2>3 DEF CastAtOnce
    <3>2. QED
      BY <1>2, <1>3, <2>3, <3>1 DEF isObjectArray, isPrimitiveValueArray, PrimitiveArray
  <2>4. QED  BY <2>2, <2>3
<1>4. CASE isObjectArray(s) \/ isPrimitiveValueArray(s)
  <2>1. Type[s] \notin {"CT_CLASS", "CT_INTERFACE"}
    BY <1>4 DEF isObjectArray, isPrimitiveValueArray, PrimitiveArray
  <2>2. CastAtOnce(s, t) <=> t = Object \/ (isPrimitiveValueArray(s) /\ s = t)
    BY <2>1 DEF CastAtOnce, isPrimitiveValueArray
  <2>3. /\ isObjectArray(s) => ~ isPrimitiveValueArray(s)
        /\ isObjectArray(t) => ~ isPrimitiveValueArray(t)
        /\ t = Object => ~ isObjectArray(t) /\ ~ isPrimitiveValueArray(t)
    BY <1>2 DEF isObjectArray, isPrimitiveValueArray, PrimitiveArray
  <2>4. /\ Type[t] = "CT_CLASS" => ~ isObjectArray(t) /\ ~ isPrimitiveValueArray(t)
        /\ Type[s] # "CT_CLASS"
    BY <2>1 DEF isObjectArray, isPrimitiveValueArray, PrimitiveArray
  <2>5. QED  BY <1>1, <1>4, <2>2, <2>3, <2>4 DEF CastByElements
<1>5. CASE Type[s] = "CT_INTERFACE"
  BY <1>5 DEF isObjectArray, isPrimitiveValueArray, PrimitiveArray
<1>6. Type[s] \in ClassType
  OBVIOUS
<1>7. QED  BY <1>3, <1>4, <1>5, <1>6 DEF ClassType, isObjectArray, isPrimitiveValueArray
-----------------------------------------------------------------------------
(* instanceof *)

\* The answer asked for, and what an exit needs.
Asked == Castable[query.cls][query.key]
MayExit == \/ Type[Innermost[query.cls]] = "CT_INTERFACE"
           \/ Type[Innermost[query.key]] = "CT_INTERFACE"

\* The test asks of the classes at hand what was asked of the first two.
CInv ==
  query.fn = "instanceof" =>
    /\ query.key \in Class
    /\ lpc = "rules" =>
         /\ Castable[cls][key] <=> Asked
         /\ Innermost[cls] = Innermost[query.cls] /\ Innermost[key] = Innermost[query.key]
    /\ lpc = "subclassing" => (key \in Supers[cls] <=> Asked)
    /\ lpc = "done" => entry \in {FALSE_, TRUE_} /\ (entry = TRUE_ <=> Asked)
    /\ lpc = "exit" => MayExit

LEMMA CInvExact == CInv => InstanceOfExact
  BY DEF CInv, InstanceOfExact, Asked, MayExit

LEMMA SubClassingCInv == LInv /\ CInv /\ SubClassing => CInv'
<1> SUFFICES ASSUME LInv, CInv, SubClassing PROVE CInv'
  OBVIOUS
<1>1. /\ query.fn = "instanceof" /\ cls \in Class /\ key \in Class /\ query' = query
      /\ query.key \in Class /\ (key \in Supers[cls] <=> Asked)
  BY DEF LInv, LookupTypeOK, Searching, CInv, SubClassing, Answer
<1>2. Supers[cls] = IF cls = Object THEN {} ELSE {Super[cls]} \cup Supers[Super[cls]]
  BY <1>1, SupersDefined
<1>3. Asked' <=> Asked
  BY <1>1 DEF Asked
<1>4. CASE cls = Object /\ Answer(FALSE_)
  <2>1. entry' = FALSE_ /\ lpc' = "done" /\ ~ Asked
    BY <1>1, <1>2, <1>4 DEF Answer
  <2>2. QED  BY <1>1, <1>3, <2>1 DEF CInv, FALSE_, TRUE_
<1>5. CASE cls # Object /\ Super[cls] = key /\ Answer(TRUE_)
  <2>1. entry' = TRUE_ /\ lpc' = "done" /\ Asked
    BY <1>1, <1>2, <1>5 DEF Answer
  <2>2. QED  BY <1>1, <1>3, <2>1 DEF CInv
<1>6. CASE cls # Object /\ Super[cls] # key /\ cls' = Super[cls] /\ UNCHANGED <<key, lpc>>
  <2>1. key' \in Supers[cls'] <=> Asked
    BY <1>1, <1>2, <1>6
  <2>2. (key \in Supers[cls])' <=> Asked'
    BY <1>3, <2>1
  <2>3. lpc' = "subclassing"
    BY <1>6 DEF SubClassing
  <2>4. QED  BY <1>1, <2>2, <2>3 DEF CInv
<1>7. QED  BY <1>4, <1>5, <1>6 DEF SubClassing

LEMMA OfArrayCInv == LInv /\ CInv /\ OfArray => CInv'
<1> SUFFICES ASSUME LInv, CInv, OfArray PROVE CInv'
  OBVIOUS
<1>1. /\ query.fn = "instanceof" /\ cls \in Class /\ key \in Class /\ query' = query
      /\ query.key \in Class /\ (Castable[cls][key] <=> Asked)
      /\ Innermost[cls] = Innermost[query.cls] /\ Innermost[key] = Innermost[query.key]
      /\ isObjectArray(cls) \/ isPrimitiveValueArray(cls)
  BY DEF LInv, LookupTypeOK, Searching, CInv, OfArray, Answer, jvmexit
<1>2. (Asked' <=> Asked) /\ (MayExit' <=> MayExit)
  BY <1>1 DEF Asked, MayExit
<1>3. ASSUME NEW test \in BOOLEAN, Answer(Truth(test)), test <=> Asked
      PROVE  CInv'
  <2>1. entry' = Truth(test) /\ lpc' = "done"
    BY <1>3 DEF Answer
  <2>2. Truth(test) \in {FALSE_, TRUE_} /\ (Truth(test) = TRUE_ <=> test)
    BY DEF Truth, FALSE_, TRUE_
  <2>3. QED  BY <1>1, <1>2, <1>3, <2>1, <2>2 DEF CInv
<1>4. CASE isObjectArray(key) /\ isObjectArray(cls)
  <2>1. cls' = Element[cls] /\ key' = Element[key] /\ lpc' = "rules"
    BY <1>4 DEF OfArray
  <2>2. Castable[cls][key] <=> Castable[Element[cls]][Element[key]]
    BY <1>1, <1>4, CastRules
  <2>3. Innermost[cls] = Innermost[Element[cls]] /\ Innermost[key] = Innermost[Element[key]]
    BY <1>1, <1>4, InnermostDefined
  <2>4. /\ (Castable[cls][key])' <=> Asked'
        /\ (Innermost[cls])' = (Innermost[query.cls])'
        /\ (Innermost[key])' = (Innermost[query.key])'
    BY <1>1, <1>2, <2>1, <2>2, <2>3
  <2>5. QED  BY <1>1, <2>1, <2>4 DEF CInv
<1>5. CASE isObjectArray(key) /\ ~ isObjectArray(cls)
  <2>1. Answer(Truth(FALSE))
    BY <1>5 DEF OfArray, Truth
  <2>2. ~ Asked
    BY <1>1, <1>5, CastRules
  <2>3. QED  BY <1>3, <2>1, <2>2
<1>6. CASE ~ isObjectArray(key) /\ isPrimitiveValueArray(key)
  <2>1. Answer(Truth(key = cls))
    BY <1>6 DEF OfArray
  <2>2. key = cls <=> Asked
    BY <1>1, <1>6, CastRules
  <2>3. QED  BY <1>3, <2>1, <2>2
<1>7. CASE ~ isObjectArray(key) /\ ~ isPrimitiveValueArray(key) /\ Type[key] = "CT_CLASS"
  <2>1. Answer(Truth(key = Object))
    BY <1>7 DEF OfArray
  <2>2. key = Object <=> Asked
    BY <1>1, <1>7, CastRules
  <2>3. QED  BY <1>3, <2>1, <2>2
<1>8. CASE ~ isObjectArray(key) /\ ~ isPrimitiveValueArray(key) /\ Type[key] # "CT_CLASS"
  <2>1. lpc' = "exit"
    BY <1>8 DEF OfArray, jvmexit
  <2>2. Type[key] = "CT_INTERFACE" /\ Innermost[key] = key
    <3>1. Type[key] \in ClassType
      BY <1>1
    <3>2. QED
      BY <1>1, <1>8, <3>1, InnermostDefined DEF ClassType, isObjectArray, isPrimitiveValueArray
  <2>3. MayExit
    BY <1>1, <2>2 DEF MayExit
  <2>4. QED  BY <1>1, <1>2, <2>1, <2>3 DEF CInv
<1>9. QED  BY <1>4, <1>5, <1>6, <1>7, <1>8

LEMMA OfClassCInv == LInv /\ CInv /\ OfClass => CInv'
<1> SUFFICES ASSUME LInv, CInv, OfClass PROVE CInv'
  OBVIOUS
<1>1. /\ query.fn = "instanceof" /\ cls \in Class /\ key \in Class /\ query' = query
      /\ query.key \in Class /\ (Castable[cls][key] <=> Asked) /\ Type[cls] = "CT_CLASS"
  BY DEF LInv, LookupTypeOK, Searching, CInv, OfClass, Answer
<1>2. Asked' <=> Asked
  BY <1>1 DEF Asked
<1>3. CASE Type[key] = "CT_CLASS" /\ cls = key
  <2>1. entry' = TRUE_ /\ lpc' = "done" /\ Asked
    BY <1>1, <1>3, CastRules DEF OfClass, Answer
  <2>2. QED  BY <1>1, <1>2, <2>1 DEF CInv
<1>4. CASE Type[key] = "CT_CLASS" /\ cls # key
  <2>1. cls' = cls /\ key' = key /\ lpc' = "subclassing" /\ (key \in Supers[cls] <=> Asked)
    BY <1>1, <1>4, CastRules DEF OfClass
  <2>2. (key \in Supers[cls])' <=> Asked'
    BY <1>2, <2>1
  <2>3. QED  BY <1>1, <2>1, <2>2 DEF CInv
<1>5. CASE Type[key] # "CT_CLASS"
  <2>1. entry' = Truth(key \in Implements[cls]) /\ lpc' = "done"
    BY <1>5 DEF OfClass, Answer, is_S_implementing_T
  <2>2. key \in Implements[cls] <=> Asked
    BY <1>1, <1>5, CastRules
  <2>3. entry' \in {FALSE_, TRUE_} /\ (entry' = TRUE_ <=> key \in Implements[cls])
    BY <2>1 DEF Truth, FALSE_, TRUE_
  <2>4. QED  BY <1>1, <1>2, <2>1, <2>2, <2>3 DEF CInv
<1>6. QED  BY <1>3, <1>4, <1>5

LEMMA OfInterfaceCInv == LInv /\ CInv /\ OfInterface => CInv'
<1> SUFFICES ASSUME LInv, CInv, OfInterface PROVE CInv'
  OBVIOUS
<1>1. /\ query.fn = "instanceof" /\ cls \in Class /\ query' = query /\ query.key \in Class
      /\ Innermost[cls] = Innermost[query.cls] /\ Type[cls] = "CT_INTERFACE" /\ lpc' = "exit"
  BY DEF LInv, LookupTypeOK, Searching, CInv, OfInterface, jvmexit
<1>2. Innermost[cls] = cls
  BY <1>1, InnermostDefined DEF isObjectArray
<1>3. MayExit' 
  BY <1>1, <1>2 DEF MayExit
<1>4. QED  BY <1>1, <1>3 DEF CInv

\* The searches for entries are not tests of types.
LEMMA SearchCInv ==
  ASSUME LInv, Bisect \/ LastEntry \/ ScanFields \/ ScanReferences \/ SuperClass
  PROVE  CInv'
<1>1. query.fn # "instanceof" /\ query' = query
  BY DEF LInv, Searching, Bisect, LastEntry, ScanFields, ScanReferences, SuperClass, Found,
     NotFound, Answer, jvmexit
<1>2. QED  BY <1>1 DEF CInv

LEMMA AskCInv ==
  ASSUME NEW fn, NEW c \in Class, NEW k, NEW loop, Ask(fn, c, k, loop),
         fn = "instanceof" => k \in Class /\ loop = "rules"
  PROVE  CInv'
<1>1. query' = [fn |-> fn, cls |-> c, key |-> k] /\ cls' = c /\ key' = k /\ lpc' = loop
  BY DEF Ask
<1>2. QED  BY <1>1 DEF CInv, Asked

LEMMA CallCInv == LookupCall => CInv'
  BY AskCInv DEF LookupCall, getVirtualMethodEntryByLinkId, getStaticMethodEntryByLinkId,
     getFieldInClassbyLinkId, getConstant, getClassReference, CP_IsInstanceOf

LEMMA ReturnCInv == LookupReturn => CInv'
  BY DEF LookupReturn, NoQuery, CInv

LEMMA StutterCInv == CInv /\ UNCHANGED lvars => CInv'
  BY DEF lvars, CInv, Asked, MayExit

LEMMA StepCInv == LInv /\ CInv /\ LookupStep => LInv' /\ CInv'
  BY BisectLInv, LastEntryLInv, ScanFieldsLInv, ScanReferencesLInv, SuperClassLInv, TestLInv,
     SearchCInv, SubClassingCInv, OfArrayCInv, OfClassCInv, OfInterfaceCInv DEF LookupStep

\* instanceof and checkcast follow the rules for casts that CP_IsInstanceOf quotes,
\* for all tables, and the machine exits only where an interface is met.
THEOREM InstanceOfIsExact == LookupSpec => []InstanceOfExact
<1>1. LookupIdle => LInv /\ CInv
  BY LookupInit DEF LookupIdle, NoQuery, CInv
<1>2. LInv /\ CInv /\ [LookupNext]_lvars => (LInv /\ CInv)'
  BY CallLInv, CallCInv, StepCInv, LookupReturnLInv, ReturnCInv, StutterLInv, StutterCInv
     DEF LookupNext
<1>3. QED  BY <1>1, <1>2, CInvExact, PTL DEF LookupSpec
-----------------------------------------------------------------------------
(* The machine.                                                            *)

SearchName == {"invokevirtual", "invokestatic", "getfield", "ldc", "new", "instanceof", "checkcast"}

\* The search that runs was called by the instruction at hand, with its operands.
SearchCalled ==
  lpc # "idle" =>
    /\ phase = "library" /\ op.name \in SearchName /\ op.operands[1] \in Class
    /\ op.name \in {"instanceof", "checkcast"} =>
         query = [fn |-> "instanceof", cls |-> op.operands[1], key |-> op.operands[2]]

\* What a test of types has left.
CastsLeft ==
  phase = "finished" /\ op.name \in {"instanceof", "checkcast", "invokevirtual"} =>
    LET c == op.operands[1]
        k == op.operands[2]
    IN CASE op.name = "instanceof" ->
              ~thrown /\ stack = <<IF c # Null /\ Castable[c][k] THEN 1 ELSE 0>>
         [] op.name = "checkcast" ->
              stack = <<c>> /\ (thrown <=> c # Null /\ ~ Castable[c][k])
         [] op.name = "invokevirtual" -> thrown <=> c = Null

MInv == AInv /\ LInv /\ CInv /\ SearchCalled /\ CastsLeft

LEMMA SearchNames ==
  \A name \in SearchName : name \notin ArithmeticName /\ name \notin Divisions \cup Shifts
BY Names DEF SearchName, ArithmeticName, IntPair, LongPair, IntUnary, LongUnary, Divisions, Shifts

LEMMA NullIsNoClass == Null \notin Class
BY DEF Null, Class

\* A search leaves the arithmetic alone.
LEMMA SearchingAInv ==
  ASSUME AInv, op'.name \in SearchName, phase' \in {"library", "finished"},
         phase = "ready" \/ (op.name \in SearchName /\ phase = "library"),
         UNCHANGED dvars, UNCHANGED svars
  PROVE  AInv'
<1>1. pc = "idle" /\ spc = "idle"
  BY SearchNames DEF AInv, DivisionCalled, ShiftCalled
<1>2. pc' = "idle" /\ spc' = "idle"
  BY <1>1 DEF dvars, svars
<1>3. IInv' /\ SInv'
  BY NextIInv, EndShiftSInv DEF AInv
<1>4. op'.name \notin ArithmeticName
  BY SearchNames
<1>5. OperandsOK'
  BY <1>4, Names DEF OperandsOK, ArithmeticName, Shifts
<1>6. PhaseOK' /\ DivisionCalled' /\ ShiftCalled' /\ ArithmeticExact'
  BY <1>2, <1>4 DEF PhaseOK, DivisionCalled, ShiftCalled, ArithmeticExact
<1>7. QED  BY <1>3, <1>5, <1>6 DEF AInv

\* Arithmetic leaves the searches alone: it neither runs nor ends while one does.
LEMMA ArithmeticMInv ==
  ASSUME MInv, IssueAny \/ Perform, UNCHANGED lvars
  PROVE  MInv'
<1>1. AInv' /\ LInv' /\ CInv'
  BY PerformAInv, StutterLInv, StutterCInv DEF MInv
<1>2. \/ phase = "ready" /\ phase' = "running"
      \/ phase = "running" /\ op' = op /\ op.name \in ArithmeticName
      \/ phase = "library" /\ phase' = "library" /\ op' = op
      \/ phase = "library" /\ op' = op /\ op.name \in ArithmeticName
      \/ phase = "finished" /\ phase' = "ready"
  <2>1. CASE IssueAny
    BY <2>1 DEF IssueAny, Issue
  <2>2. CASE Direct
    <3>1. phase = "running" /\ op' = op
      BY <2>2 DEF Direct, AddSubMul, Negate, IntShift, I2B, I2C, IntLong, Compare, Branch, Push
    <3>2. QED  BY <3>1 DEF MInv, AInv, PhaseOK
  <2>3. CASE DivideChecked \/ LongShift
    <3>1. phase = "running" /\ op' = op
      BY <2>3 DEF DivideChecked, LongShift
    <3>2. QED  BY <3>1 DEF MInv, AInv, PhaseOK
  <2>4. CASE Library
    BY <2>4 DEF Library
  <2>5. CASE PushResult
    <3>1. phase = "library" /\ op' = op /\ (pc # "idle" \/ spc # "idle")
      BY <2>5 DEF PushResult, Return, ReturnShifted
    <3>2. op.name \in Divisions \cup Shifts
      BY <3>1 DEF MInv, AInv, DivisionCalled, ShiftCalled
    <3>3. op.name \in ArithmeticName
      BY <3>2, Names DEF ArithmeticName, IntPair, LongPair, Divisions
    <3>4. QED  BY <3>1, <3>3
  <2>6. CASE NextInstruction
    BY <2>6 DEF NextInstruction
  <2>7. QED  BY <2>1, <2>2, <2>3, <2>4, <2>5, <2>6 DEF Perform
<1>3. SearchCalled'
  BY <1>2, SearchNames DEF MInv, SearchCalled, lvars
<1>4. phase' = "finished" => op'.name \notin {"instanceof", "checkcast", "invokevirtual"}
  BY <1>2, SearchNames DEF SearchName
<1>5. CastsLeft'
  BY <1>1, <1>4 DEF CastsLeft
<1>6. QED  BY <1>1, <1>3, <1>5 DEF MInv

\* An instruction calls a search, with a class.
LEMMA SearchMInv ==
  ASSUME MInv, NEW name \in SearchName, NEW c \in Class, NEW k, Search(name, c, k), LookupCall,
         name \in {"instanceof", "checkcast"} =>
           query' = [fn |-> "instanceof", cls |-> c, key |-> k]
  PROVE  MInv'
<1>1. /\ phase = "ready" /\ phase' = "library" /\ op' = [name |-> name, operands |-> <<c, k>>]
      /\ UNCHANGED dvars /\ UNCHANGED svars
  BY DEF Search
<1>2. op'.name = name /\ op'.operands[1] = c /\ op'.operands[2] = k
  BY <1>1
<1>3. AInv'
  BY <1>1, <1>2, SearchingAInv DEF MInv
<1>4. LInv' /\ CInv'
  BY CallLInv, CallCInv DEF MInv
<1>5. SearchCalled'
  BY <1>1, <1>2 DEF SearchCalled
<1>6. CastsLeft'
  BY <1>1, <1>4 DEF CastsLeft
<1>7. QED  BY <1>3, <1>4, <1>5, <1>6 DEF MInv

\* An instruction ends at once, with null.
LEMMA AtOnceMInv ==
  ASSUME MInv, NEW k,
         \/ AtOnce("invokevirtual", Null, k, <<>>, TRUE)
         \/ AtOnce("instanceof", Null, k, << 0 >>, FALSE)
         \/ AtOnce("checkcast", Null, k, <<Null>>, FALSE)
  PROVE  MInv'
<1>1. /\ phase = "ready" /\ phase' = "finished" /\ op'.operands[1] = Null
      /\ UNCHANGED dvars /\ UNCHANGED svars /\ UNCHANGED lvars
      /\ \/ op'.name = "invokevirtual" /\ thrown' = TRUE
         \/ op'.name = "instanceof" /\ thrown' = FALSE /\ stack' = << 0 >>
         \/ op'.name = "checkcast" /\ thrown' = FALSE /\ stack' = <<Null>>
  BY DEF AtOnce
<1>2. AInv'
  BY <1>1, SearchingAInv DEF MInv, SearchName
<1>3. LInv' /\ CInv'
  BY <1>1, StutterLInv, StutterCInv DEF MInv
<1>4. SearchCalled'
  BY <1>1 DEF MInv, SearchCalled, lvars
<1>5. CastsLeft'
  BY <1>1, <1>3 DEF CastsLeft
<1>6. QED  BY <1>2, <1>3, <1>4, <1>5 DEF MInv

LEMMA IssueSearchMInv ==
  ASSUME MInv, IssueSearch
  PROVE  MInv'
<1>1. PICK c \in Class \cup {Null} :
        \/ \E id \in SoughtIds : InvokeVirtual(c, id)
        \/ \E t \in Class : InstanceOf(c, t) \/ CheckCast(c, t)
        \/ c # Null /\ \E id \in SoughtIds : InvokeStatic(c, id) \/ FieldEntry(c, id)
        \/ c # Null /\ \E i \in SoughtIndexes : LoadConstant(c, i) \/ ClassReference(c, i)
  BY DEF IssueSearch
<1>2. CASE c = Null
  BY <1>1, <1>2, AtOnceMInv DEF InvokeVirtual, InstanceOf, CheckCast
<1>3. CASE c \in Class
  <2>1. c # Null
    BY <1>3, NullIsNoClass
  <2>2. ASSUME NEW id \in SoughtIds, InvokeVirtual(c, id)
        PROVE  MInv'
    <3>1. Search("invokevirtual", c, id) /\ LookupCall
      BY <1>3, <2>1, <2>2 DEF InvokeVirtual, LookupCall
    <3>2. QED  BY <1>3, <3>1, SearchMInv DEF SearchName
  <2>3. ASSUME NEW t \in Class, InstanceOf(c, t)
        PROVE  MInv'
    <3>1. /\ Search("instanceof", c, t) /\ LookupCall
          /\ query' = [fn |-> "instanceof", cls |-> c, key |-> t]
      BY <1>3, <2>1, <2>3 DEF InstanceOf, LookupCall, CP_IsInstanceOf, Ask
    <3>2. QED  BY <1>3, <3>1, SearchMInv DEF SearchName
  <2>4. ASSUME NEW t \in Class, CheckCast(c, t)
        PROVE  MInv'
    <3>1. /\ Search("checkcast", c, t) /\ LookupCall
          /\ query' = [fn |-> "instanceof", cls |-> c, key |-> t]
      BY <1>3, <2>1, <2>4 DEF CheckCast, LookupCall, CP_IsInstanceOf, Ask
    <3>2. QED  BY <1>3, <3>1, SearchMInv DEF SearchName
  <2>5. ASSUME NEW id \in SoughtIds, InvokeStatic(c, id) \/ FieldEntry(c, id)
        PROVE  MInv'
    <3>1. (Search("invokestatic", c, id) \/ Search("getfield", c, id)) /\ LookupCall
      BY <1>3, <2>5 DEF InvokeStatic, FieldEntry, LookupCall
    <3>2. QED  BY <1>3, <3>1, SearchMInv DEF SearchName
  <2>6. ASSUME NEW i \in SoughtIndexes, LoadConstant(c, i) \/ ClassReference(c, i)
        PROVE  MInv'
    <3>1. (Search("ldc", c, i) \/ Search("new", c, i)) /\ LookupCall
      BY <1>3, <2>6 DEF LoadConstant, ClassReference, LookupCall
    <3>2. QED  BY <1>3, <3>1, SearchMInv DEF SearchName
  <2>7. QED  BY <1>1, <2>2, <2>3, <2>4, <2>5, <2>6
<1>4. QED  BY <1>2, <1>3

LEMMA LookupStepMInv ==
  ASSUME MInv, LookupStep, UNCHANGED avars
  PROVE  MInv'
<1>1. AInv' /\ LInv' /\ CInv'
  BY PerformAInv, StepCInv DEF MInv
<1>2. UNCHANGED <<op, stack, thrown, phase>>
  BY DEF avars
<1>3. lpc # "idle" /\ query' = query
  BY DEF LookupStep, Bisect, LastEntry, ScanFields, ScanReferences, SuperClass, SubClassing,
     OfArray, OfClass, OfInterface, Found, NotFound, Answer, jvmexit
<1>4. SearchCalled' /\ phase' = "library"
  BY <1>2, <1>3 DEF MInv, SearchCalled
<1>5. CastsLeft'
  BY <1>1, <1>4 DEF CastsLeft
<1>6. QED  BY <1>1, <1>4, <1>5 DEF MInv

\* What the test answered is what the instruction leaves.
LEMMA UseAnswerMInv ==
  ASSUME MInv, UseAnswer
  PROVE  MInv'
<1> DEFINE c == op.operands[1]
           k == op.operands[2]
<1>1. /\ lpc = "done" /\ phase = "library" /\ phase' = "finished" /\ op' = op /\ LookupReturn
      /\ UNCHANGED dvars /\ UNCHANGED svars
      /\ thrown' = (op.name = "checkcast" /\ entry = FALSE_)
      /\ op.name = "instanceof" => stack' = <<entry>>
      /\ op.name = "checkcast" => stack' = <<c>>
  BY DEF UseAnswer, LookupReturn
<1>2. /\ op.name \in SearchName /\ c \in Class
      /\ op.name \in {"instanceof", "checkcast"} =>
           query.fn = "instanceof" /\ query.cls = c /\ query.key = k
  BY <1>1 DEF MInv, SearchCalled
<1>3. AInv'
  BY <1>1, <1>2, SearchingAInv DEF MInv
<1>4. LInv' /\ CInv'
  BY <1>1, LookupReturnLInv, ReturnCInv DEF MInv
<1>5. SearchCalled'
  BY <1>1 DEF SearchCalled, LookupReturn
<1>6. op.name \in {"instanceof", "checkcast"} =>
        entry \in {FALSE_, TRUE_} /\ (entry = TRUE_ <=> Castable[c][k])
  BY <1>1, <1>2 DEF MInv, CInv, Asked
<1>7. c # Null
  BY <1>2, NullIsNoClass
<1>8. CASE op.name = "instanceof"
  <2>1. ~ thrown' /\ stack' = <<IF c # Null /\ Castable[c][k] THEN 1 ELSE 0>>
    BY <1>1, <1>6, <1>7, <1>8 DEF FALSE_, TRUE_
  <2>2. QED  BY <1>1, <1>3, <1>4, <1>5, <1>8, <2>1 DEF MInv, CastsLeft
<1>9. CASE op.name = "checkcast"
  <2>1. stack' = <<c>> /\ (thrown' <=> c # Null /\ ~ Castable[c][k])
    <3>1. stack' = <<c>> /\ (thrown' <=> entry = FALSE_)
      BY <1>1, <1>9
    <3>2. entry = FALSE_ <=> ~ Castable[c][k]
      <4>1. entry \in {FALSE_, TRUE_} /\ (entry = TRUE_ <=> Castable[c][k])
        BY <1>6, <1>9
      <4>2. FALSE_ # TRUE_
        BY DEF FALSE_, TRUE_
      <4>3. QED  BY <4>1, <4>2
    <3>3. QED  BY <1>7, <3>1, <3>2
  <2>2. QED  BY <1>1, <1>3, <1>4, <1>5, <1>9, <2>1 DEF MInv, CastsLeft
<1>10. CASE op.name \notin {"instanceof", "checkcast"}
  <2>1. ~ thrown'
    BY <1>1, <1>10
  <2>2. QED  BY <1>1, <1>3, <1>4, <1>5, <1>7, <1>10, <2>1 DEF MInv, CastsLeft
<1>11. QED  BY <1>8, <1>9, <1>10

LEMMA StutterMInv ==
  ASSUME MInv, UNCHANGED ivars
  PROVE  MInv'
<1>1. UNCHANGED avars /\ UNCHANGED lvars /\ UNCHANGED <<op, stack, thrown, phase>>
  BY DEF ivars, avars
<1>2. AInv' /\ LInv' /\ CInv'
  BY <1>1, PerformAInv, StutterLInv, StutterCInv DEF MInv
<1>3. SearchCalled'
  BY <1>1 DEF MInv, SearchCalled, lvars
<1>4. CastsLeft'
  BY <1>1, <1>2 DEF MInv, CastsLeft
<1>5. QED  BY <1>2, <1>3, <1>4 DEF MInv

\* The invariant of the machine: an instruction's result is what Java prescribes, a
\* search has missed nothing, and each belongs to the instruction at hand.
THEOREM MachineInvariant == Spec => []MInv
<1>1. Init => MInv
  <2>1. SUFFICES ASSUME Init PROVE MInv
    OBVIOUS
  <2>2. AInv /\ LInv
    BY <2>1, InitAInv, LookupInit DEF Init
  <2>3. lpc = "idle" /\ query.fn = "none" /\ phase = "ready"
    BY <2>1 DEF Init, LookupIdle, NoQuery, ArithmeticInit
  <2>4. CInv /\ SearchCalled
    BY <2>3 DEF CInv, SearchCalled
  <2>5. CastsLeft
    BY <2>3 DEF CastsLeft
  <2>6. QED  BY <2>2, <2>4, <2>5 DEF MInv
<1>2. MInv /\ [INext]_ivars => MInv'
  BY ArithmeticMInv, IssueSearchMInv, LookupStepMInv, UseAnswerMInv, StutterMInv
     DEF INext, InstructionStep
<1>3. QED  BY <1>1, <1>2, PTL DEF Spec

\* Every arithmetic instruction of instruction1.c leaves the result Java prescribes,
\* cut to its width, and throws exactly when it divides by zero: for ints and longs of
\* every width, through the division and the shifts of nostdlib.c.
THEOREM ArithmeticIsExact == Spec => []ArithmeticExact
<1>1. MInv => ArithmeticExact
  BY DEF MInv, AInv
<1>2. QED  BY MachineInvariant, <1>1, PTL

\* checkcast and instanceof agree with the rules for casts for all tables of classes,
\* null passes, and only null makes invokevirtual throw.
THEOREM CastsAreExact == Spec => []CastsExact
<1>1. MInv => CastsExact
  BY CInvExact DEF MInv, CastsLeft, CastsExact
<1>2. QED  BY MachineInvariant, <1>1, PTL

\* The quotient of a division is exact, in the machine that calls the division too.
THEOREM MachineDivides == Spec => []DivisionExact
<1>1. MInv => DivisionExact
  BY QuotientFromInvariant, RemainderFromInvariant DEF MInv, AInv, DivisionExact
<1>2. QED  BY MachineInvariant, <1>1, PTL

\* A search answers with an entry of the nearest class that has one, in the machine
\* that calls it too.
THEOREM MachineLooksUp == Spec => []LookupExact
<1>1. MInv => LookupExact
  BY LookupFromInvariant DEF MInv
<1>2. QED  BY MachineInvariant, <1>1, PTL

\* The bisection never steps over the method it looks for, in the machine that calls
\* it too.
THEOREM MachineBisects == Spec => []BisectionOnTrack
<1>1. MInv => BisectionOnTrack
  BY DEF MInv, LInv
<1>2. QED  BY MachineInvariant, <1>1, PTL
=============================================================================

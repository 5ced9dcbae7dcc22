--------------------------- MODULE HeapMarkProofs ---------------------------
(***************************************************************************)
(* Marking is correct for every heap: any set of objects, any number of    *)
(* slots and roots, any graph.  IInv is inductive; at the end of marking   *)
(* it gives that the marked objects are the reachable ones.                *)
(***************************************************************************)
EXTENDS HeapMark, TLAPS

\* A set that holds the heads of the two lists and is closed under next: Pending
\* is the least such set.
Waits(S) == HoldsLists(S) /\ ClosedUnderNext(S)

LEMMA PendingIsLeast ==
  ASSUME NEW S \in SUBSET Object, Waits(S)
  PROVE  Pending \subseteq S
BY DEF Pending, Waits

LEMMA PendingWaits == TypeOK => Waits(Pending)
BY DEF TypeOK, Pending, Waits, HoldsLists, ClosedUnderNext, ObjectOrNull

\* How a step may change the waiting objects: if each set that waits after the
\* step waits before it once X is added, then only X left Pending.
LEMMA PendingAfter ==
  ASSUME NEW X \in SUBSET Object,
         \A S \in SUBSET Object : Waits(S)' => Waits(S \cup X)
  PROVE  Pending \subseteq Pending' \cup X
<1>1. SUFFICES ASSUME NEW o \in Pending, o \notin X
               PROVE  o \in Pending'
  OBVIOUS
<1>2. o \in Object
  BY DEF Pending
<1>3. ASSUME NEW S \in SUBSET Object, Waits(S)'
      PROVE  o \in S
  <2>1. Waits(S \cup X)
    BY <1>3
  <2>2. o \in S \cup X
    BY <2>1, <1>1, PendingIsLeast, S \cup X \in SUBSET Object
  <2>3. QED
    BY <2>2, <1>1
<1>4. QED
  BY <1>2, <1>3 DEF Pending, Waits

\* The same for a step that leaves the lists alone.
LEMMA PendingSame ==
  (UNCHANGED <<next, curList, nxtList>>) => Pending' = Pending
BY DEF Pending, HoldsLists, ClosedUnderNext

\* Reachable holds the roots and is closed under references.
LEMMA ReachableClosed ==
  ASSUME TypeOK
  PROVE  /\ HoldsRoots(Reachable, NRoots + 1)
         /\ ClosedUnderRefs(Reachable)
<1>1. HoldsRoots(Reachable, NRoots + 1)
  <2>1. SUFFICES ASSUME NEW k \in Roots, k < NRoots + 1, memory[k] # NULL
                 PROVE  memory[k] \in Reachable
    BY DEF HoldsRoots
  <2>2. memory[k] \in Object
    BY <2>1 DEF TypeOK, ObjectOrNull
  <2>3. \A S \in SUBSET Object : HoldsRoots(S, NRoots + 1) => memory[k] \in S
    BY <2>1 DEF HoldsRoots
  <2>4. QED
    BY <2>2, <2>3 DEF Reachable
<1>2. ClosedUnderRefs(Reachable)
  <2>1. SUFFICES ASSUME NEW o \in Reachable, NEW s \in Slots, refs[o][s] # NULL
                 PROVE  refs[o][s] \in Reachable
    BY DEF ClosedUnderRefs
  <2>2. o \in Object /\ refs[o][s] \in Object
    BY <2>1 DEF TypeOK, Reachable, ObjectOrNull
  <2>3. ASSUME NEW S \in SUBSET Object, HoldsRoots(S, NRoots + 1), ClosedUnderRefs(S)
        PROVE  refs[o][s] \in S
    <3>1. o \in S
      BY <2>1, <2>3 DEF Reachable
    <3>2. QED
      BY <3>1, <2>1, <2>3 DEF ClosedUnderRefs
  <2>4. QED
    BY <2>2, <2>3 DEF Reachable
<1>3. QED
  BY <1>1, <1>2

LEMMA ReachableSame == UNCHANGED graph => Reachable' = Reachable
BY DEF graph, Reachable, HoldsRoots, ClosedUnderRefs

-----------------------------------------------------------------------------
LEMMA TypeStep == TypeOK /\ [Next]_vars => TypeOK'
<1>1. SUFFICES ASSUME TypeOK, [Next]_vars PROVE TypeOK'
  OBVIOUS
<1> USE MarkAssumption DEF TypeOK, ObjectOrNull, graph, Roots, Slots
<1>2. CASE SkipRoot
  BY <1>1, <1>2 DEF SkipRoot
<1>3. CASE MarkRoot
  BY <1>1, <1>3 DEF MarkRoot
<1>4. CASE PopUnmarked
  BY <1>1, <1>4 DEF PopUnmarked
<1>5. CASE PopMarked
  BY <1>1, <1>5 DEF PopMarked, Refill
<1>6. CASE ScanSlot
  <2>1. refs[h][i] \in ObjectOrNull
    BY <1>1, <1>6 DEF ScanSlot
  <2>2. CASE refs[h][i] = NULL
    BY <1>1, <1>6, <2>2 DEF ScanSlot
  <2>3. CASE refs[h][i] # NULL
    <3>1. Link(refs[h][i])
      BY <1>6, <2>3 DEF ScanSlot
    <3>2. next' \in [Object -> ObjectOrNull] /\ nxtList' \in ObjectOrNull
      BY <3>1, <2>1, <2>3, <1>1 DEF Link
    <3>3. QED
      BY <1>1, <1>6, <3>2 DEF ScanSlot
  <2>4. QED
    BY <2>2, <2>3
<1>7. CASE ScanEnd
  BY <1>1, <1>7 DEF ScanEnd, Refill
<1>8. CASE ObjectDone
  BY <1>1, <1>8 DEF ObjectDone
<1>9. CASE RootsDone
  BY <1>1, <1>9 DEF RootsDone
<1>10. CASE UNCHANGED vars
  BY <1>1, <1>10 DEF vars
<1>11. QED
  BY <1>1, <1>2, <1>3, <1>4, <1>5, <1>6, <1>7, <1>8, <1>9, <1>10 DEF Next

\* The variables of the marker keep their types (mark2, markObject3).
THEOREM TypeCorrect == Spec => []TypeOK
<1>1. Init => TypeOK
  BY MarkAssumption DEF Init, InitMark, TypeOK, ObjectOrNull, Roots
<1>2. QED
  BY <1>1, TypeStep, PTL DEF Spec

-----------------------------------------------------------------------------
\* With both lists empty nothing waits.
LEMMA NothingWaits == curList = NULL /\ nxtList = NULL => Pending = {}
<1>1. SUFFICES ASSUME curList = NULL, nxtList = NULL PROVE Pending = {}
  OBVIOUS
<1>2. Waits({})
  BY <1>1 DEF Waits, HoldsLists, ClosedUnderNext
<1>3. QED
  BY <1>2, PendingIsLeast

\* The heads of the lists wait.
LEMMA HeadsWait ==
  ASSUME TypeOK
  PROVE  /\ curList # NULL => curList \in Pending
         /\ nxtList # NULL => nxtList \in Pending
BY DEF TypeOK, ObjectOrNull, Pending, HoldsLists

LEMMA InitIInv == Init => IInv
<1>1. SUFFICES ASSUME Init PROVE IInv
  OBVIOUS
<1>2. TypeOK
  BY <1>1, MarkAssumption DEF Init, InitMark, TypeOK, ObjectOrNull, Roots
<1>3. NoneForgotten /\ LinkedIsPending /\ OnlyReachableMarked
  BY <1>1 DEF Init, InitMark, NoneForgotten, Scanned, LinkedIsPending, OnlyReachableMarked
<1>4. ListsReachable /\ ListsEmpty
  BY <1>1 DEF Init, InitMark, ListsReachable, ListsEmpty
<1>5. RootsMarked
  BY <1>1 DEF Init, InitMark, RootsMarked, Roots
<1>6. QED
  BY <1>2, <1>3, <1>4, <1>5 DEF IInv

-----------------------------------------------------------------------------
(* One lemma per action: it preserves the invariant.                       *)

LEMMA SkipRootInv == ASSUME IInv, TypeOK', SkipRoot PROVE IInv'
<1> USE DEF IInv, SkipRoot
<1>1. Pending' = Pending /\ Reachable' = Reachable
  BY PendingSame, ReachableSame
<1>2. NoneForgotten' /\ LinkedIsPending' /\ OnlyReachableMarked'
  BY <1>1 DEF NoneForgotten, Scanned, LinkedIsPending, OnlyReachableMarked, graph
<1>3. ListsReachable' /\ ListsEmpty'
  BY <1>1 DEF ListsReachable, ListsEmpty
<1>4. RootsMarked'
  BY DEF RootsMarked, Roots, TypeOK, graph
<1>5. QED
  BY <1>2, <1>3, <1>4

LEMMA MarkRootInv == ASSUME IInv, TypeOK', MarkRoot PROVE IInv'
<1> USE DEF IInv, MarkRoot
<1>1. Pending = {} /\ Reachable' = Reachable
  BY NothingWaits, ReachableSame DEF ListsEmpty
<1>2. next' = next /\ \A o \in Object : next[o] = NULL
  BY <1>1 DEF LinkedIsPending, TypeOK, ObjectOrNull, Roots
<1>3. curList' = memory[r] /\ curList' \in Object /\ curList' \in Pending'
  BY MarkAssumption DEF TypeOK, ObjectOrNull, Pending, HoldsLists, Roots
<1>4. NoneForgotten' /\ LinkedIsPending' /\ OnlyReachableMarked'
  BY <1>1, <1>2 DEF NoneForgotten, Scanned, LinkedIsPending, OnlyReachableMarked, graph
<1>5. ListsReachable' /\ ListsEmpty'
  <2>1. memory[r] \in Reachable
    BY ReachableClosed, MarkAssumption DEF HoldsRoots, TypeOK, Roots
  <2>2. QED
    BY <2>1, <1>1, <1>2 DEF ListsReachable, ListsEmpty
<1>6. RootsMarked'
  BY <1>3 DEF RootsMarked, graph, TypeOK
<1>7. QED
  BY <1>4, <1>5, <1>6

\* Taking the head of curList loses only the head, which is marked now; the tail
\* of the chain and the ring are still led to.
LEMMA PopUnmarkedInv == ASSUME IInv, TypeOK', PopUnmarked PROVE IInv'
<1> USE DEF IInv, PopUnmarked
<1>1. Reachable' = Reachable
  BY ReachableSame
<1>2. curList \in Object
  BY DEF TypeOK, ObjectOrNull
<1>3. Pending \subseteq Pending' \cup {curList}
  <2>1. ASSUME NEW S \in SUBSET Object, Waits(S)'
        PROVE  Waits(S \cup {curList})
    <3>1. HoldsLists(S \cup {curList})
      BY <2>1 DEF Waits, HoldsLists
    <3>2. ASSUME NEW o \in S \cup {curList}, next[o] # NULL
          PROVE  next[o] \in S
      BY <1>2, <2>1, <3>2 DEF Waits, HoldsLists, ClosedUnderNext, TypeOK
    <3>3. QED
      BY <3>1, <3>2 DEF Waits, ClosedUnderNext
  <2>2. QED
    BY <2>1, <1>2, PendingAfter
<1>4. NoneForgotten'
  <2>1. SUFFICES ASSUME NEW o \in Object, NEW s \in Slots,
                        Scanned(o, s)', refs[o][s] # NULL
                 PROVE  refs[o][s] \in marked' \cup Pending'
    BY DEF NoneForgotten, graph
  <2>2. o # curList
    BY <2>1 DEF Scanned, Slots
  <2>3. Scanned(o, s)
    BY <2>1, <2>2 DEF Scanned
  <2>4. refs[o][s] \in marked \cup Pending
    BY <2>1, <2>3 DEF NoneForgotten
  <2>5. QED
    BY <2>4, <1>3
<1>5. LinkedIsPending'
  BY <1>2, <1>3 DEF LinkedIsPending, TypeOK
<1>6. OnlyReachableMarked' /\ ListsReachable'
  BY <1>1, <1>2 DEF OnlyReachableMarked, ListsReachable, TypeOK
<1>7. ListsEmpty' /\ RootsMarked'
  BY <1>3 DEF ListsEmpty, RootsMarked, TypeOK, graph
<1>8. QED
  BY <1>4, <1>5, <1>6, <1>7

LEMMA PopMarkedInv == ASSUME IInv, TypeOK', PopMarked PROVE IInv'
<1> USE DEF IInv, PopMarked
<1>1. Reachable' = Reachable
  BY ReachableSame
<1>2. curList \in Object
  BY DEF TypeOK, ObjectOrNull
<1>3. Pending \subseteq Pending' \cup {curList}
  <2>1. ASSUME NEW S \in SUBSET Object, Waits(S)'
        PROVE  Waits(S \cup {curList})
    <3>1. HoldsLists(S \cup {curList})
      BY <2>1 DEF Waits, HoldsLists, Refill
    <3>2. ASSUME NEW o \in S \cup {curList}, next[o] # NULL
          PROVE  next[o] \in S
      BY <1>2, <2>1, <3>2 DEF Waits, HoldsLists, ClosedUnderNext, TypeOK, Refill
    <3>3. QED
      BY <3>1, <3>2 DEF Waits, ClosedUnderNext
  <2>2. QED
    BY <2>1, <1>2, PendingAfter
<1>4. NoneForgotten'
  BY <1>3 DEF NoneForgotten, Scanned, graph
<1>5. LinkedIsPending'
  BY <1>2, <1>3 DEF LinkedIsPending, TypeOK
<1>6. OnlyReachableMarked' /\ ListsReachable'
  BY <1>1, <1>2 DEF OnlyReachableMarked, ListsReachable, TypeOK, Refill
<1>7. ListsEmpty' /\ RootsMarked'
  BY <1>3 DEF ListsEmpty, RootsMarked, TypeOK, graph, Refill
<1>8. QED
  BY <1>4, <1>5, <1>6, <1>7

\* Linking e keeps what waits and makes e wait, whichever branch is taken and
\* whether or not the ring is still closed.
LEMMA LinkPending ==
  ASSUME IInv, TypeOK', NEW e \in Object, Link(e), UNCHANGED curList
  PROVE  /\ Pending \subseteq Pending'
         /\ e \in Pending'
         /\ LinkedIsPending'
         /\ \A o \in Object : next'[o] # NULL => \/ next'[o] = e
                                                 \/ \E x \in Object : next'[o] = next[x]
         /\ nxtList' # NULL => nxtList' = e \/ nxtList' = nxtList
<1> USE DEF IInv, Link
<1>1. Pending \subseteq Pending'
  <2>1. ASSUME NEW S \in SUBSET Object, Waits(S)'
        PROVE  Waits(S)
    <3>1. HoldsLists(S)
      BY <2>1 DEF Waits, HoldsLists
    <3>2. ASSUME NEW o \in S, next[o] # NULL
          PROVE  next[o] \in S
      <4>1. CASE next[e] = NULL /\ nxtList # NULL
        <5>1. nxtList \in Object /\ nxtList \in S
          BY <4>1, <2>1, MarkAssumption DEF TypeOK, ObjectOrNull, Waits, HoldsLists
        <5>2. e \in S
          BY <4>1, <5>1, <2>1, MarkAssumption DEF TypeOK, Waits, ClosedUnderNext
        <5>3. o # e
          BY <3>2, <4>1
        <5>4. CASE o = nxtList
          <6>1. next'[e] = next[nxtList]
            BY <4>1, <5>1, <5>3, <5>4 DEF TypeOK
          <6>2. QED
            BY <6>1, <5>2, <5>4, <3>2, <2>1 DEF Waits, ClosedUnderNext
        <5>5. CASE o # nxtList
          BY <4>1, <5>3, <5>5, <3>2, <2>1 DEF TypeOK, Waits, ClosedUnderNext
        <5>6. QED
          BY <5>4, <5>5
      <4>2. CASE next[e] = NULL /\ nxtList = NULL
        BY <4>2, <3>2, <2>1 DEF TypeOK, Waits, ClosedUnderNext
      <4>3. CASE next[e] # NULL
        BY <4>3, <3>2, <2>1 DEF Waits, ClosedUnderNext
      <4>4. QED
        BY <4>1, <4>2, <4>3
    <3>3. QED
      BY <3>1, <3>2 DEF Waits, ClosedUnderNext
  <2>2. QED
    <3>1. \A S \in SUBSET Object : Waits(S)' => Waits(S \cup {})
      BY <2>1
    <3>2. QED
      BY <3>1, PendingAfter
<1>2. e \in Pending'
  <2>1. CASE next[e] # NULL
    BY <2>1, <1>1 DEF LinkedIsPending
  <2>2. CASE next[e] = NULL /\ nxtList = NULL
    BY <2>2, MarkAssumption DEF Pending, HoldsLists, TypeOK
  <2>3. CASE next[e] = NULL /\ nxtList # NULL
    <3>1. nxtList \in Object /\ nxtList' = nxtList /\ next'[nxtList] = e
      BY <2>3 DEF TypeOK, ObjectOrNull
    <3>2. ASSUME NEW S \in SUBSET Object, Waits(S)' PROVE e \in S
      BY <2>3, <3>1, <3>2, MarkAssumption DEF Waits, HoldsLists, ClosedUnderNext
    <3>3. QED
      BY <3>2 DEF Pending, Waits
  <2>4. QED
    BY <2>1, <2>2, <2>3
<1>3. LinkedIsPending'
  <2>1. SUFFICES ASSUME NEW o \in Object, next'[o] # NULL
                 PROVE  o \in Pending'
    BY DEF LinkedIsPending
  <2>2. CASE o = e
    BY <2>2, <1>2
  <2>3. CASE o # e /\ o = nxtList
    <3>1. nxtList' # NULL /\ nxtList' = o
      BY <2>3, MarkAssumption
    <3>2. QED
      BY <3>1 DEF Pending, HoldsLists
  <2>4. CASE o # e /\ o # nxtList
    <3>1. next'[o] = next[o]
      BY <2>4 DEF TypeOK
    <3>2. QED
      BY <3>1, <2>1, <1>1 DEF LinkedIsPending
  <2>5. QED
    BY <2>2, <2>3, <2>4
<1>4. \A o \in Object : next'[o] # NULL => \/ next'[o] = e
                                           \/ \E x \in Object : next'[o] = next[x]
  BY DEF TypeOK, ObjectOrNull
<1>5. QED
  BY <1>1, <1>2, <1>3, <1>4

LEMMA ScanSlotInv == ASSUME IInv, TypeOK', ScanSlot PROVE IInv'
<1> USE DEF IInv, ScanSlot
<1>1. Reachable' = Reachable
  BY ReachableSame
<1>2. h \in Object /\ i \in Slots
  BY MarkAssumption DEF TypeOK, Slots
<1>3. ListsEmpty'
  BY DEF ListsEmpty
<1>4. CASE refs[h][i] = NULL
  <2>1. Pending' = Pending
    BY <1>4, PendingSame
  <2>2. NoneForgotten'
    <3>1. SUFFICES ASSUME NEW o \in Object, NEW s \in Slots,
                          Scanned(o, s)', refs[o][s] # NULL
                   PROVE  refs[o][s] \in marked \cup Pending
      BY <2>1 DEF NoneForgotten, graph
    <3>2. Scanned(o, s)
      BY <3>1, <1>2, <1>4 DEF Scanned, Slots
    <3>3. QED
      BY <3>1, <3>2 DEF NoneForgotten
  <2>3. LinkedIsPending' /\ OnlyReachableMarked' /\ ListsReachable' /\ RootsMarked'
    BY <1>1, <1>4, <2>1
    DEF LinkedIsPending, OnlyReachableMarked, ListsReachable, RootsMarked, graph
  <2>4. QED
    BY <1>3, <2>2, <2>3
<1>5. CASE refs[h][i] # NULL
  <2> DEFINE e == refs[h][i]
  <2>1. e \in Object /\ Link(e)
    BY <1>2, <1>5 DEF TypeOK, ObjectOrNull
  <2>2. /\ Pending \subseteq Pending' /\ e \in Pending' /\ LinkedIsPending'
        /\ \A o \in Object : next'[o] # NULL =>
             next'[o] = e \/ \E x \in Object : next'[o] = next[x]
        /\ nxtList' # NULL => nxtList' = e \/ nxtList' = nxtList
    <3> HIDE DEF e
    <3>1. QED
      BY <2>1, LinkPending
  <2>3. NoneForgotten'
    <3>1. SUFFICES ASSUME NEW o \in Object, NEW s \in Slots,
                          Scanned(o, s)', refs[o][s] # NULL
                   PROVE  refs[o][s] \in marked \cup Pending'
      BY DEF NoneForgotten, graph
    <3>2. CASE o = h /\ s = i
      BY <3>2, <2>2
    <3>3. CASE ~ (o = h /\ s = i)
      <4>1. Scanned(o, s)
        BY <3>1, <3>3, <1>2 DEF Scanned, Slots
      <4>2. QED
        BY <3>1, <4>1, <2>2 DEF NoneForgotten
    <3>4. QED
      BY <3>2, <3>3
  <2>4. OnlyReachableMarked' /\ ListsReachable'
    <3>1. h \in Reachable
      BY DEF RootsMarked, OnlyReachableMarked
    <3>2. e \in Reachable
      BY <3>1, <1>2, <1>5, ReachableClosed DEF ClosedUnderRefs
    <3>3. QED
      BY <3>2, <2>2, <1>1 DEF OnlyReachableMarked, ListsReachable
  <2>5. RootsMarked'
    BY <2>2 DEF RootsMarked, graph
  <2>6. QED
    BY <1>3, <2>2, <2>3, <2>4, <2>5
<1>6. QED
  BY <1>4, <1>5

LEMMA ScanEndInv == ASSUME IInv, TypeOK', ScanEnd PROVE IInv'
<1> USE DEF IInv, ScanEnd, Refill
<1>1. Reachable' = Reachable
  BY ReachableSame
<1>2. Pending \subseteq Pending'
  <2>1. \A S \in SUBSET Object : Waits(S)' => Waits(S \cup {})
    BY DEF Waits, HoldsLists, ClosedUnderNext
  <2>2. QED
    BY <2>1, PendingAfter
<1>3. NoneForgotten'
  <2>1. SUFFICES ASSUME NEW o \in Object, NEW s \in Slots,
                        Scanned(o, s)', refs[o][s] # NULL
                 PROVE  refs[o][s] \in marked \cup Pending'
    BY DEF NoneForgotten, graph
  <2>2. Scanned(o, s)
    BY <2>1, MarkAssumption DEF Scanned, TypeOK, Slots
  <2>3. QED
    BY <2>1, <2>2, <1>2 DEF NoneForgotten
<1>4. LinkedIsPending' /\ OnlyReachableMarked' /\ ListsReachable'
  BY <1>1, <1>2 DEF LinkedIsPending, OnlyReachableMarked, ListsReachable
<1>5. ListsEmpty' /\ RootsMarked'
  BY <1>2 DEF ListsEmpty, RootsMarked, graph
<1>6. QED
  BY <1>3, <1>4, <1>5

LEMMA ObjectDoneInv == ASSUME IInv, TypeOK', ObjectDone PROVE IInv'
<1> USE DEF IInv, ObjectDone
<1>1. Pending' = Pending /\ Reachable' = Reachable /\ Pending = {}
  BY PendingSame, ReachableSame, NothingWaits DEF ListsEmpty
<1>2. NoneForgotten' /\ LinkedIsPending' /\ OnlyReachableMarked'
  BY <1>1 DEF NoneForgotten, Scanned, LinkedIsPending, OnlyReachableMarked, graph
<1>3. ListsReachable' /\ ListsEmpty'
  BY <1>1 DEF ListsReachable, ListsEmpty
<1>4. RootsMarked'
  BY <1>1 DEF RootsMarked, Roots, TypeOK, graph
<1>5. QED
  BY <1>2, <1>3, <1>4

LEMMA RootsDoneInv == ASSUME IInv, TypeOK', RootsDone PROVE IInv'
<1> USE DEF IInv, RootsDone
<1>1. Pending' = Pending /\ Reachable' = Reachable
  BY PendingSame, ReachableSame
<1>2. NoneForgotten' /\ LinkedIsPending' /\ OnlyReachableMarked'
  BY <1>1 DEF NoneForgotten, Scanned, LinkedIsPending, OnlyReachableMarked, graph
<1>3. ListsReachable' /\ ListsEmpty'
  BY <1>1 DEF ListsReachable, ListsEmpty
<1>4. RootsMarked'
  BY MarkAssumption DEF RootsMarked, Roots, TypeOK, graph
<1>5. QED
  BY <1>2, <1>3, <1>4

LEMMA StutterInv == ASSUME IInv, UNCHANGED vars PROVE IInv'
<1> USE DEF IInv, vars
<1>1. Pending' = Pending /\ Reachable' = Reachable
  BY PendingSame, ReachableSame DEF graph
<1>2. QED
  BY <1>1 DEF TypeOK, NoneForgotten, Scanned, LinkedIsPending, OnlyReachableMarked,
              ListsReachable, ListsEmpty, RootsMarked

-----------------------------------------------------------------------------
\* The inductive invariant of marking.
THEOREM Invariance == Spec => []IInv
<1>1. ASSUME IInv, [Next]_vars PROVE IInv'
  <2>1. TypeOK'
    BY <1>1, TypeStep DEF IInv
  <2>2. QED
    BY <1>1, <2>1, SkipRootInv, MarkRootInv, PopUnmarkedInv, PopMarkedInv,
       ScanSlotInv, ScanEndInv, ObjectDoneInv, RootsDoneInv, StutterInv DEF Next
<1>2. QED
  BY <1>1, InitIInv, PTL DEF Spec

LEMMA IInvGivesNoLinkLeft == IInv => NoLinkLeft
<1>1. SUFFICES ASSUME IInv, pc \in {"mark2", "done"}
               PROVE  next = [o \in Object |-> NULL]
  BY DEF NoLinkLeft
<1>2. Pending = {}
  BY <1>1, NothingWaits DEF IInv, ListsEmpty
<1>3. \A o \in Object : next[o] = NULL
  BY <1>1, <1>2 DEF IInv, LinkedIsPending
<1>4. QED
  BY <1>1, <1>3 DEF IInv, TypeOK

LEMMA IInvGivesMarkedIsReachable == IInv => MarkedIsReachable
<1>1. SUFFICES ASSUME IInv, pc = "done"
               PROVE  marked = Reachable
  BY DEF MarkedIsReachable
<1>2. Pending = {}
  BY <1>1, NothingWaits DEF IInv, ListsEmpty
<1>3. HoldsRoots(marked, NRoots + 1)
  BY <1>1 DEF IInv, RootsMarked, HoldsRoots
<1>4. ClosedUnderRefs(marked)
  BY <1>1, <1>2 DEF IInv, TypeOK, NoneForgotten, Scanned, ClosedUnderRefs
<1>5. Reachable \subseteq marked
  BY <1>1, <1>3, <1>4 DEF IInv, TypeOK, Reachable
<1>6. QED
  BY <1>1, <1>5 DEF IInv, OnlyReachableMarked

\* No reference of a scanned slot is forgotten, at any time.
THEOREM NoReferenceForgotten == Spec => [](NoneForgotten /\ LinkedIsPending)
<1>1. IInv => NoneForgotten /\ LinkedIsPending
  BY DEF IInv
<1>2. QED
  BY <1>1, Invariance, PTL

\* No header stays linked between roots or after marking.
THEOREM NoHeaderStaysLinked == Spec => []NoLinkLeft
BY Invariance, IInvGivesNoLinkLeft, PTL

\* Marking marks exactly the reachable objects, and never an unreachable one
\* meanwhile: the answer to the question of heap.c:97.
THEOREM MarkingIsExact == Spec => [](MarkedIsReachable /\ OnlyReachableMarked)
<1>1. IInv => OnlyReachableMarked
  BY DEF IInv
<1>2. QED
  BY <1>1, Invariance, IInvGivesMarkedIsReachable, PTL
=============================================================================

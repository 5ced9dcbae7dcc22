------------------------------ MODULE HeapMark ------------------------------
(***************************************************************************)
(* The marking phase of the garbage collector: mark2 calls markObject3 for *)
(* every reference in the root memory, and markObject3 visits the objects  *)
(* breadth first without a stack, with two lists linked through the `next' *)
(* field of the headers: curList, a chain that ends with NULL, and         *)
(* nxtList, a ring.  Whether an object waits on a list is told only by its *)
(* next field not being NULL -- which is also what the last element of     *)
(* curList has there, so an object can be linked while it waits already,   *)
(* and curList runs on into the ring (the question of the TODO comments at *)
(* heap.c:97 and heap.c:123).                                              *)
(*                                                                         *)
(* One action per loop iteration: a root (mark2), an element taken from    *)
(* curList, a slot of its payload.                                         *)
(***************************************************************************)
EXTENDS Integers

CONSTANTS Object,  \* the objects on the heap
          NSlots,  \* stackables (or array elements) per object
          NRoots,  \* stackables in the root memory
          NULL

ASSUME MarkAssumption ==
  /\ NULL \notin Object
  /\ NSlots \in Nat
  /\ NRoots \in Nat

Slots == 1 .. NSlots
Roots == 1 .. NRoots
ObjectOrNull == Object \cup {NULL}

VARIABLES refs,     \* refs[o][i]: the reference in slot i of o.  NULL also stands
                    \* for a slot that is not an OBJECTREF, for one past the end,
                    \* and for the elements of a primitive array
          memory,   \* the root memory mark2 is called with
          marked,   \* the objects whose mark field is markValue
          next,     \* the next field of the headers
          curList, nxtList,
          h,        \* the object whose slots are being scanned
          i,        \* the slot to look at next
          r,        \* the root to look at next
          pc        \* "mark2", "pop" or "scan" (the loops), or "done"

graph == <<refs, memory>>
vars == <<refs, memory, marked, next, curList, nxtList, h, i, r, pc>>

\* What a collection starts from: nothing is marked and no header is linked.
InitMark ==
  /\ marked = {}
  /\ next = [o \in Object |-> NULL]
  /\ curList = NULL /\ nxtList = NULL
  /\ h = NULL /\ i = 1 /\ r = 1
  /\ pc = "mark2"

Init ==
  /\ refs \in [Object -> [Slots -> ObjectOrNull]]
  /\ memory \in [Roots -> ObjectOrNull]
  /\ InitMark

-----------------------------------------------------------------------------
SkipRoot ==
  /\ pc = "mark2" /\ r <= NRoots
  /\ memory[r] = NULL
  /\ r' = r + 1
  /\ UNCHANGED <<graph, marked, next, curList, nxtList, h, i, pc>>

\* The call of markObject3 for the root.
MarkRoot ==
  /\ pc = "mark2" /\ r <= NRoots
  /\ memory[r] # NULL
  /\ curList' = memory[r]
  /\ next' = [next EXCEPT ![memory[r]] = NULL]
  /\ nxtList' = NULL
  /\ pc' = "pop"
  /\ UNCHANGED <<graph, marked, h, i, r>>

\* Faulty: the ring is not taken when the chain is done.
RefillNever(cur) == curList' = cur /\ nxtList' = nxtList

\* if (curList == NULL) { curList = nxtList; nxtList = NULL; }
Refill(cur) ==
  IF cur = NULL THEN curList' = nxtList /\ nxtList' = NULL
                ELSE curList' = cur /\ nxtList' = nxtList

\* Faulty: curList is advanced before its element is kept in h.
PopUnmarkedLate ==
  /\ pc = "pop" /\ curList # NULL
  /\ curList \notin marked
  /\ marked' = marked \cup {curList}
  /\ h' = next[curList]
  /\ curList' = next[curList]
  /\ next' = [next EXCEPT ![curList] = NULL]
  /\ i' = 1
  /\ pc' = "scan"
  /\ UNCHANGED <<graph, nxtList, r>>

PopUnmarked ==
  /\ pc = "pop" /\ curList # NULL
  /\ curList \notin marked
  /\ marked' = marked \cup {curList}
  /\ h' = curList
  /\ curList' = next[curList]
  /\ next' = [next EXCEPT ![curList] = NULL]
  /\ i' = 1
  /\ pc' = "scan"
  /\ UNCHANGED <<graph, nxtList, r>>

\* Faulty: the link of a marked element is kept.
PopMarkedKeepsLink ==
  /\ pc = "pop" /\ curList # NULL
  /\ curList \in marked
  /\ Refill(next[curList])
  /\ UNCHANGED <<graph, marked, next, h, i, r, pc>>

PopMarked ==
  /\ pc = "pop" /\ curList # NULL
  /\ curList \in marked
  /\ next' = [next EXCEPT ![curList] = NULL]
  /\ Refill(next[curList])
  /\ UNCHANGED <<graph, marked, h, i, r, pc>>

\* Faulty: an element is linked again although it is linked.
LinkAlways(e) ==
  IF nxtList = NULL
    THEN next' = [next EXCEPT ![e] = e] /\ nxtList' = e
    ELSE /\ next' = [next EXCEPT ![e] = next[nxtList], ![nxtList] = e]
         /\ nxtList' = nxtList

\* Faulty: the ring does not lead to the element linked into it.
LinkOneWay(e) ==
  /\ next' = IF next[e] # NULL THEN next
             ELSE [next EXCEPT ![e] = IF nxtList = NULL THEN e ELSE next[nxtList]]
  /\ nxtList' = IF nxtList = NULL /\ next[e] = NULL THEN e ELSE nxtList

\* Link element e into the ring, unless its next field says it is linked.
Link(e) ==
  IF next[e] = NULL
    THEN IF nxtList = NULL
           THEN next' = [next EXCEPT ![e] = e] /\ nxtList' = e
           ELSE /\ next' = [next EXCEPT ![e] = next[nxtList], ![nxtList] = e]
                /\ nxtList' = nxtList
    ELSE next' = next /\ nxtList' = nxtList

ScanSlot ==
  /\ pc = "scan" /\ i <= NSlots
  /\ IF refs[h][i] # NULL THEN Link(refs[h][i])
                          ELSE UNCHANGED <<next, nxtList>>
  /\ i' = i + 1
  /\ UNCHANGED <<graph, marked, curList, h, r, pc>>

\* Faulty: the loop may end before the last slot.
ScanEndEarly ==
  /\ pc = "scan" /\ i >= NSlots
  /\ Refill(curList)
  /\ pc' = "pop"
  /\ UNCHANGED <<graph, marked, next, h, i, r>>

ScanEnd ==
  /\ pc = "scan" /\ i > NSlots
  /\ Refill(curList)
  /\ pc' = "pop"
  /\ UNCHANGED <<graph, marked, next, h, i, r>>

\* markObject3 returns to the loop of mark2.
ObjectDone ==
  /\ pc = "pop" /\ curList = NULL
  /\ r' = r + 1
  /\ pc' = "mark2"
  /\ UNCHANGED <<graph, marked, next, curList, nxtList, h, i>>

RootsDone ==
  /\ pc = "mark2" /\ r > NRoots
  /\ pc' = "done"
  /\ UNCHANGED <<graph, marked, next, curList, nxtList, h, i, r>>

Next ==
  \/ SkipRoot \/ MarkRoot \/ PopUnmarked \/ PopMarked
  \/ ScanSlot \/ ScanEnd \/ ObjectDone \/ RootsDone

\* Marking is one call without a wait: it runs to its end.
Spec == Init /\ [][Next]_vars /\ WF_vars(Next)

-----------------------------------------------------------------------------
(* Properties                                                              *)

\* Every variable has the values its declaration allows.
TypeOK ==
  /\ refs \in [Object -> [Slots -> ObjectOrNull]]
  /\ memory \in [Roots -> ObjectOrNull]
  /\ marked \subseteq Object
  /\ next \in [Object -> ObjectOrNull]
  /\ curList \in ObjectOrNull /\ nxtList \in ObjectOrNull
  /\ h \in ObjectOrNull /\ i \in 1 .. (NSlots + 1) /\ r \in 1 .. (NRoots + 1)
  /\ pc \in {"mark2", "pop", "scan", "done"}
  /\ pc = "scan" => h \in Object
  /\ pc \in {"pop", "scan"} => r \in Roots

\* The least set of objects that holds every root among the first n and every
\* object referenced from one of its own.
ClosedUnderRefs(S) == \A o \in S, s \in Slots : refs[o][s] # NULL => refs[o][s] \in S
HoldsRoots(S, n) == \A k \in Roots : k < n /\ memory[k] # NULL => memory[k] \in S
Reachable ==
  {o \in Object : \A S \in SUBSET Object :
     HoldsRoots(S, NRoots + 1) /\ ClosedUnderRefs(S) => o \in S}

\* The objects that wait: those the chain and the ring lead to.
ClosedUnderNext(S) == \A o \in S : next[o] # NULL => next[o] \in S
HoldsLists(S) == /\ curList # NULL => curList \in S
                 /\ nxtList # NULL => nxtList \in S
Pending ==
  {o \in Object : \A S \in SUBSET Object :
     HoldsLists(S) /\ ClosedUnderNext(S) => o \in S}

\* The slots of a marked object that have been looked at.
Scanned(o, s) == o \in marked /\ (pc = "scan" /\ o = h => s < i)

\* No object is forgotten: what a scanned slot refers to is marked or still
\* waits on a list, although an object may be linked into the ring while it is
\* the tail of the chain, and be unlinked while the ring still leads to it.
NoneForgotten ==
  \A o \in Object, s \in Slots :
    Scanned(o, s) /\ refs[o][s] # NULL => refs[o][s] \in marked \cup Pending

\* A next field that is not NULL belongs to an object that waits, so skipping
\* an object that looks linked ("Already in list") loses nothing.
LinkedIsPending == \A o \in Object : next[o] # NULL => o \in Pending

\* Between two roots, and when marking ends, no header is linked: one that was
\* would look as if it waited in the next collection and lose its subtree.
NoLinkLeft ==
  pc \in {"mark2", "done"} => next = [o \in Object |-> NULL]

\* Nothing unreachable is marked, at any time.
OnlyReachableMarked == marked \subseteq Reachable

\* When marking ends, what heap_sweep will keep is what the program can reach.
MarkedIsReachable == pc = "done" => marked = Reachable

\* What makes the above inductive: the lists lead to reachable objects only,
\* they are empty where the loops say so, and each root looked at so far is
\* marked (the one markObject3 is at work on may still wait).
ListsReachable ==
  /\ curList # NULL => curList \in Reachable
  /\ nxtList # NULL => nxtList \in Reachable
  /\ \A o \in Object : next[o] # NULL => next[o] \in Reachable

ListsEmpty ==
  /\ pc = "pop" /\ curList = NULL => nxtList = NULL
  /\ pc \in {"mark2", "done"} => curList = NULL /\ nxtList = NULL

RootsMarked ==
  /\ \A k \in Roots : k < r /\ memory[k] # NULL => memory[k] \in marked
  /\ pc \in {"pop", "scan"} =>
       memory[r] # NULL /\ memory[r] \in marked \cup Pending
  /\ pc = "scan" => h \in marked
  /\ pc = "done" => r = NRoots + 1

IInv ==
  /\ TypeOK /\ NoneForgotten /\ LinkedIsPending /\ OnlyReachableMarked
  /\ ListsReachable /\ ListsEmpty /\ RootsMarked

\* Marking ends, cyclic graphs and re-linked elements included.
MarkingEnds == <>(pc = "done")
=============================================================================

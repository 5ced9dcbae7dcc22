--------------------------- MODULE HeapListLoops ----------------------------
(***************************************************************************)
(* The scans of heaplist.c and list.c as the loops they are, and that in   *)
(* every reachable heap they leave in their variables what IsBestFit and   *)
(* IsInsertPoint of HeapList say, and heap_validate finds nothing.         *)
(***************************************************************************)
EXTENDS HeapList

\* while (go) body: where a loop ends, as a function of the variables it starts
\* with.
While(S, go, body) ==
  LET run[s \in S] == IF s \in go THEN run[body[s]] ELSE s IN run

Place == DOMAIN hdr \cup {NULL}

\* Faulty: the addresses are not compared, the block goes to the end.
InsertLoopToEnd(h) ==
  LET S == [prev : Place, l : Place]
      go == {s \in S : s.l # NULL}
      body == [s \in go |-> [prev |-> s.l, l |-> hdr[s.l].next]]
  IN  While(S, go, body)[[prev |-> NULL, l |-> free_list]].prev

\* while (l != NULL && h > l) { prev = l; l = l->e.next; }
InsertLoop(h) ==
  LET S == [prev : Place, l : Place]
      go == {s \in S : s.l # NULL /\ h > s.l}
      body == [s \in go |-> [prev |-> s.l, l |-> hdr[s.l].next]]
  IN  While(S, go, body)[[prev |-> NULL, l |-> free_list]].prev

\* What the loop of heap_alloc keeps of the block h; prev is the one before it.
Keep(better, s) ==
  [h |-> hdr[s.h].next, prev |-> s.h,
   best_fit |-> IF better THEN s.h ELSE s.best_fit,
   prev_best_fit |-> IF better THEN s.prev ELSE s.prev_best_fit]

\* Faulty: <= for <, the last of the smallest blocks is taken.
BestFitLoopLast(size) ==
  LET S == [h : Place, prev : Place, best_fit : Place, prev_best_fit : Place]
      go == {s \in S : s.h # NULL}
      body == [s \in go |->
        Keep(/\ hdr[s.h].size >= size
             /\ s.best_fit # NULL => hdr[s.h].size <= hdr[s.best_fit].size, s)]
  IN  While(S, go, body)[[h |-> free_list, prev |-> NULL, best_fit |-> NULL, prev_best_fit |-> NULL]]

\* The loop of heap_alloc over the free list.
BestFitLoop(size) ==
  LET S == [h : Place, prev : Place, best_fit : Place, prev_best_fit : Place]
      go == {s \in S : s.h # NULL}
      body == [s \in go |->
        Keep(/\ hdr[s.h].size >= size
             /\ s.best_fit # NULL => hdr[s.h].size < hdr[s.best_fit].size, s)]
  IN  While(S, go, body)[[h |-> free_list, prev |-> NULL, best_fit |-> NULL, prev_best_fit |-> NULL]]

\* The loop of heap_stat and heap_validate over the memory, summing the sizes of
\* the free and of the other blocks; it exits where it meets no header.
StatLoop ==
  LET S == [offset : Nat, used : Nat, free : Nat]
      go == {s \in S : s.offset < HeapSize /\ s.offset \in DOMAIN hdr}
      body == [s \in go |->
        LET size == hdr[s.offset].size
            free == is_type(s.offset, HT_FREE)
        IN  [offset |-> s.offset + size,
             used |-> IF free THEN s.used ELSE s.used + size,
             free |-> IF free THEN s.free + size ELSE s.free]]
  IN  While(S, go, body)[[offset |-> 0, used |-> 0, free |-> 0]]

\* The loop of heap_validate over the free list; it exits at a block that is not
\* free or lies before its predecessor.
ValidateLoop ==
  LET S == [h : Place, prev : Place, free_l : Nat]
      go == {s \in S : /\ s.h # NULL /\ is_type(s.h, HT_FREE)
                       /\ s.prev # NULL => s.h >= s.prev}
      body == [s \in go |->
        [h |-> hdr[s.h].next, prev |-> s.h, free_l |-> s.free_l + hdr[s.h].size]]
  IN  While(S, go, body)[[h |-> free_list, prev |-> NULL, free_l |-> 0]]

\* The insert position is unique and is where the loop stops, for every header
\* that is not on the list.
InsertLoopAgrees ==
  \A h \in {a \in DOMAIN hdr : ~ is_type(a, HT_FREE)}, p \in DOMAIN hdr \cup {NULL} :
    IsInsertPoint(hdr, free_list, h, p) <=> p = InsertLoop(h)

\* The best fit is unique and is what the loop of heap_alloc finds, and there is
\* none exactly when heap_alloc returns NULL.
BestFitLoopAgrees ==
  \A n \in Requests :
    LET size == n + HEAP_HEADER_SIZE
        found == BestFitLoop(size)
    IN  {fit \in FreeCells \X (FreeCells \cup {NULL}) : IsBestFit(size, fit[1], fit[2])}
          = {<<found.best_fit, found.prev_best_fit>>} \ {<<NULL, NULL>>}

\* heap_validate, which every operation calls first and last, never exits: both
\* its loops reach their ends, and the three sums it compares agree.
ValidatePasses ==
  LET memory == StatLoop
      list == ValidateLoop
  IN  /\ memory.offset >= HeapSize /\ memory.used + memory.free = HeapSize
      /\ list.h = NULL /\ list.free_l = memory.free
=============================================================================

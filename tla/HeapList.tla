------------------------------ MODULE HeapList ------------------------------
(***************************************************************************)
(* The heap of the virtual machine as heaplist.c and list.c keep it: an    *)
(* area of HeapSize units (of sizeof(align_t) bytes) tiled by blocks, each *)
(* headed by a header_t, and the free blocks linked through the `next'     *)
(* field of their headers in address order.                                *)
(*                                                                         *)
(* A header is named by the offset of its first unit.  hdr holds the       *)
(* headers that exist; an offset outside DOMAIN hdr is payload, or the     *)
(* stale header of a block that was merged into its neighbour.             *)
(*                                                                         *)
(* heap_sweep is modelled one loop iteration at a time; the scans of       *)
(* heap_alloc and list_insert_ordered are given by what they find          *)
(* (IsBestFit, IsInsertPoint), and module HeapListLoops checks that the    *)
(* loops find exactly that.                                                *)
(***************************************************************************)
EXTENDS Integers

CONSTANTS HeapSize,          \* heap_size, in units
          HEAP_HEADER_SIZE,  \* units of a header_t
          Requests,          \* payload sizes the callers ask for, in units
          Marks              \* values of the mark field

ASSUME HeapAssumption ==
  /\ HEAP_HEADER_SIZE \in Nat \ {0}
  /\ HeapSize \in Nat /\ HeapSize > HEAP_HEADER_SIZE
  /\ Requests \subseteq Nat
  /\ Marks \subseteq Nat /\ 0 \in Marks

VARIABLES hdr,        \* the headers in memory: offset -> header_t
          free_list,  \* the first free header, or NULL
          pc,         \* "idle", or "sweep" while in the loop of heap_sweep
          offset,     \* heap_sweep: the block to visit next
          previous,   \* heap_sweep: the free block that ends at offset, or NULL
          markValue,  \* heap_sweep: the argument
          last        \* the last call of heap_alloc and its result

vars == <<hdr, free_list, pc, offset, previous, markValue, last>>

NULL == -1

Addr == 0 .. (HeapSize - 1)

HT_PROTECTED == "protected"
HT_FREE == "free"
HT_USED == "used"

Header == [type : {HT_PROTECTED, HT_FREE, HT_USED},
           mark : Marks,
           next : Addr \cup {NULL},
           size : 1 .. HeapSize]

\* What is observed of the allocator from outside: the last call of heap_alloc
\* (n: the payload asked for, ret: the block or NULL), or no such call.
NoCall == [n |-> 0, ret |-> NULL, op |-> "other"]
AllocCall(n, r) == [n |-> n, ret |-> r, op |-> "alloc"]

-----------------------------------------------------------------------------
(* list.c.  H is a set of headers in memory, L the head of the list.       *)

\* A header is on the list when the head or another header leads to it.
OnList(H, L, a) == a = L \/ \E x \in DOMAIN H : H[x].next = a

\* The element after p; the head of the list is the element after NULL.
After(H, L, p) == IF p = NULL THEN L ELSE H[p].next

SetNext(H, p, n) == [H EXCEPT ![p].next = n]

\* Faulty: the head is left on the block that is taken out.
list_remove_head_kept(H, L, h) == L

list_remove_head(H, L, h) == IF L = h THEN H[h].next ELSE L
list_remove(H, L, prev, h) == IF L = h THEN H ELSE SetNext(H, prev, H[h].next)

\* Faulty: the size of the merged element is lost.
list_merge_unsized(H, h) ==
  LET n == H[h].next
  IN  IF n # NULL /\ h + H[h].size = n
        THEN [a \in DOMAIN H \ {n} |->
                IF a = h THEN [H[h] EXCEPT !.next = H[n].next] ELSE H[a]]
        ELSE H

\* Merge h with the next element if the two are adjacent in memory; the next
\* element's header is payload of h from then on.
list_merge(H, h) ==
  LET n == H[h].next
  IN  IF n # NULL /\ h + H[h].size = n
        THEN [a \in DOMAIN H \ {n} |->
                IF a = h THEN [H[h] EXCEPT !.next = H[n].next,
                                           !.size = H[h].size + H[n].size]
                         ELSE H[a]]
        ELSE H

\* p is where the loop of list_insert_ordered leaves prev: every element up to
\* p is below h, the one after p is not.
IsInsertPoint(H, L, h, p) ==
  LET l == After(H, L, p)
  IN  /\ p # NULL => p \in DOMAIN H /\ OnList(H, L, p) /\ h > p
      /\ l # NULL => h < l

\* Faulty: h is not merged with the element before it.
list_insert_ordered_onesided(H, L, h, p) ==
  LET l == After(H, L, p)
  IN  list_merge(IF p = NULL THEN SetNext(H, h, L)
                             ELSE SetNext(SetNext(H, h, l), p, h), h)

\* The memory after list_insert_ordered put h after p.
list_insert_ordered(H, L, h, p) ==
  LET l == After(H, L, p)
  IN  IF p = NULL
        THEN list_merge(SetNext(H, h, L), h)
        ELSE LET linked == SetNext(SetNext(H, h, l), p, h)
             IN  list_merge(IF l # NULL THEN list_merge(linked, h) ELSE linked, p)

list_insert_ordered_head(L, h, p) == IF p = NULL THEN h ELSE L

-----------------------------------------------------------------------------
(* heaplist.c                                                              *)

init_element(length, hdrtyp) ==
  [type |-> hdrtyp, mark |-> 0, next |-> NULL, size |-> length]

is_type(h, type) == hdr[h].type = type

set_type(H, h, type) == [H EXCEPT ![h].type = type]

heap_init ==
  /\ hdr = [a \in {0} |-> init_element(HeapSize, HT_FREE)]
  /\ free_list = 0

Init ==
  /\ heap_init
  /\ pc = "idle" /\ offset = 0 /\ previous = NULL /\ markValue = 0
  /\ last = NoCall

FreeCells == {a \in DOMAIN hdr : OnList(hdr, free_list, a)}

\* b is what the scan of heap_alloc leaves in best_fit, prev what it leaves in
\* prev_best_fit: the first of the smallest free blocks that are large enough.
IsBestFit(size, b, prev) ==
  /\ b = After(hdr, free_list, prev)
  /\ hdr[b].size >= size
  /\ \A c \in FreeCells :
       hdr[c].size >= size => \/ hdr[c].size > hdr[b].size
                              \/ hdr[c].size = hdr[b].size /\ c >= b

\* Faulty: every rest is split off, or none is.
SplitsAny(rest) == rest >= 0
SplitsNone(rest) == FALSE

\* What is left of the best fit goes back to the free list when it is larger
\* than a header, and stays part of the block when it is not.
Splits(rest) == rest > HEAP_HEADER_SIZE

\* Faulty: the header of the block handed out keeps its link.
TakeWholeLinked(b, H) == set_type(H, b, HT_USED)

TakeWhole(b, H) ==
  [H EXCEPT ![b] = init_element(hdr[b].size, HT_USED)]

SplitOff(size, b, H) ==
  [a \in DOMAIN H \cup {b + size} |->
     IF a = b + size THEN init_element(hdr[b].size - size, HT_FREE) ELSE H[a]]

heap_alloc(n) ==
  LET size == n + HEAP_HEADER_SIZE
  IN  \E b \in FreeCells, prev \in FreeCells \cup {NULL} :
        /\ IsBestFit(size, b, prev)
        /\ LET H == list_remove(hdr, free_list, prev, b)
               L == list_remove_head(hdr, free_list, b)
           IN  IF Splits(hdr[b].size - size)
                 THEN LET r == b + size
                          S == SplitOff(size, b, H)
                      IN  \E p \in DOMAIN S \cup {NULL} :
                            /\ IsInsertPoint(S, L, r, p)
                            /\ hdr' = [list_insert_ordered(S, L, r, p)
                                         EXCEPT ![b] = init_element(size, HT_USED)]
                            /\ free_list' = list_insert_ordered_head(L, r, p)
                 ELSE /\ hdr' = TakeWhole(b, H)
                      /\ free_list' = L
        /\ last' = AllocCall(n, b)

heap_alloc_fails(n) ==
  /\ \A c \in FreeCells : hdr[c].size < n + HEAP_HEADER_SIZE
  /\ last' = AllocCall(n, NULL)
  /\ UNCHANGED <<hdr, free_list>>

\* The effect of heap_free on the heap, for a block that is not free.
heap_free(h) ==
  LET H == set_type(hdr, h, HT_FREE)
  IN  \E p \in DOMAIN hdr \cup {NULL} :
        /\ IsInsertPoint(H, free_list, h, p)
        /\ hdr' = list_insert_ordered(H, free_list, h, p)
        /\ free_list' = list_insert_ordered_head(free_list, h, p)

-----------------------------------------------------------------------------
(* The calls.  No other call is made while heap_sweep runs.                *)

Idle == pc = "idle" /\ UNCHANGED <<pc, offset, previous, markValue>>

Alloc(n) == Idle /\ heap_alloc(n)

AllocFails(n) == Idle /\ heap_alloc_fails(n)

Free(h) ==
  /\ Idle
  /\ ~ is_type(h, HT_FREE)
  /\ heap_free(h)
  /\ last' = NoCall

\* heap.c:86: the marker writes the mark of an object's header.
Mark(h, m) ==
  /\ Idle
  /\ ~ is_type(h, HT_FREE)
  /\ hdr' = [hdr EXCEPT ![h].mark = m]
  /\ UNCHANGED <<free_list, last>>

\* heap.c:55-58
heapProtect(h, protected) ==
  /\ Idle
  /\ ~ is_type(h, HT_FREE)
  /\ hdr' = set_type(hdr, h, IF protected THEN HT_PROTECTED ELSE HT_USED)
  /\ UNCHANGED <<free_list, last>>

SweepStart(m) ==
  /\ pc = "idle"
  /\ pc' = "sweep" /\ offset' = 0 /\ previous' = NULL /\ markValue' = m
  /\ UNCHANGED <<hdr, free_list, last>>

Sweeping == pc = "sweep" /\ offset < HeapSize /\ UNCHANGED <<pc, markValue>>

\* Faulty: the loop does not advance past a free block.
SweepFreeStuck ==
  /\ Sweeping
  /\ is_type(offset, HT_FREE)
  /\ previous' = offset
  /\ UNCHANGED <<offset, hdr, free_list, last>>

SweepFree ==
  /\ Sweeping
  /\ is_type(offset, HT_FREE)
  /\ previous' = offset
  /\ offset' = offset + hdr[offset].size
  /\ UNCHANGED <<hdr, free_list, last>>

\* Faulty: the growth of previous is not skipped, only the block is.
SweepCollectOwnSize ==
  /\ Sweeping
  /\ is_type(offset, HT_USED)
  /\ hdr[offset].mark # markValue
  /\ heap_free(offset)
  /\ offset' = offset + hdr[offset].size
  /\ previous' = IF previous # NULL THEN previous ELSE offset
  /\ last' = NoCall

\* Faulty: the mark decides alone, a protected block is collected.
SweepCollectProtected ==
  /\ Sweeping
  /\ ~ is_type(offset, HT_FREE)
  /\ hdr[offset].mark # markValue
  /\ heap_free(offset)
  /\ IF previous # NULL
       THEN /\ offset' = offset + (hdr'[previous].size - hdr[previous].size)
            /\ UNCHANGED previous
       ELSE /\ offset' = offset + hdr'[offset].size
            /\ previous' = offset
  /\ last' = NoCall

\* Collect the block.  heap_free may merge it with its neighbours: after a merge
\* with previous its own header is gone and the growth of previous is skipped.
SweepCollect ==
  /\ Sweeping
  /\ is_type(offset, HT_USED)
  /\ hdr[offset].mark # markValue
  /\ heap_free(offset)
  /\ IF previous # NULL
       THEN /\ offset' = offset + (hdr'[previous].size - hdr[previous].size)
            /\ UNCHANGED previous
       ELSE /\ offset' = offset + hdr'[offset].size
            /\ previous' = offset
  /\ last' = NoCall

\* Faulty: the mark is not compared.
SweepKeepAny ==
  /\ Sweeping
  /\ ~ is_type(offset, HT_FREE)
  /\ offset' = offset + hdr[offset].size
  /\ previous' = NULL
  /\ UNCHANGED <<hdr, free_list, last>>

SweepKeep ==
  /\ Sweeping
  /\ \/ is_type(offset, HT_USED) /\ hdr[offset].mark = markValue
     \/ is_type(offset, HT_PROTECTED)
  /\ offset' = offset + hdr[offset].size
  /\ previous' = NULL
  /\ UNCHANGED <<hdr, free_list, last>>

SweepEnd ==
  /\ pc = "sweep" /\ offset >= HeapSize
  /\ pc' = "idle" /\ offset' = 0 /\ previous' = NULL /\ markValue' = 0
  /\ UNCHANGED <<hdr, free_list, last>>

SweepStep == SweepFree \/ SweepCollect \/ SweepKeep \/ SweepEnd

Next ==
  \/ \E n \in Requests : Alloc(n) \/ AllocFails(n)
  \/ \E h \in DOMAIN hdr : \/ Free(h)
                           \/ \E m \in Marks : Mark(h, m)
                           \/ \E protected \in BOOLEAN : heapProtect(h, protected)
  \/ \E m \in Marks : SweepStart(m)
  \/ SweepStep

\* heap_sweep is one C call: once entered it runs.
Spec == Init /\ [][Next]_vars /\ WF_vars(SweepStep)
-----------------------------------------------------------------------------
(* Properties                                                              *)

\* Every variable has the values its declaration allows.
TypeOK ==
  /\ DOMAIN hdr \subseteq Addr
  /\ hdr \in [DOMAIN hdr -> Header]
  /\ free_list \in Addr \cup {NULL}
  /\ pc \in {"idle", "sweep"}
  /\ offset \in 0 .. HeapSize
  /\ previous \in Addr \cup {NULL}
  /\ markValue \in Marks
  /\ last \in [op : {"alloc", "other"}, n : Nat, ret : Addr \cup {NULL}]

\* The blocks tile the heap: a walk from offset 0 by the sizes in the headers
\* meets every header and ends at heap_size.  It is what heap_validate, heap_sweep,
\* heap_stat and heap_used rely on when they advance by h->e.size.
Tiling ==
  /\ 0 \in DOMAIN hdr
  /\ \A a \in DOMAIN hdr :
       /\ a + hdr[a].size \in DOMAIN hdr \cup {HeapSize}
       /\ \A b \in DOMAIN hdr : b > a => b >= a + hdr[a].size

\* The free list links exactly the free blocks, each to the next one in memory
\* (the order and the sums heap_validate compares), and a block that is not free
\* carries no link (heap.c tells by it whether an object is on a pending list).
FreeListExact ==
  /\ \A a \in DOMAIN hdr : is_type(a, HT_FREE) =>
       /\ free_list # NULL /\ free_list <= a
       /\ hdr[a].next # NULL => /\ hdr[a].next \in DOMAIN hdr
                                /\ is_type(hdr[a].next, HT_FREE)
                                /\ hdr[a].next > a
       /\ \A b \in DOMAIN hdr : is_type(b, HT_FREE) /\ b > a =>
            hdr[a].next # NULL /\ hdr[a].next <= b
  /\ \A a \in DOMAIN hdr : ~ is_type(a, HT_FREE) => hdr[a].next = NULL
  /\ free_list # NULL => free_list \in DOMAIN hdr /\ is_type(free_list, HT_FREE)

\* No two free blocks are neighbours: list_merge leaves no gap in two pieces,
\* so that a free stretch is as useful to heap_alloc as it is long.
Coalesced ==
  \A a \in DOMAIN hdr : is_type(a, HT_FREE) /\ a + hdr[a].size # HeapSize =>
    ~ is_type(a + hdr[a].size, HT_FREE)

\* In the loop of heap_sweep, offset is at a block's header or at the end of the
\* heap although the frees inside the loop merge blocks on both sides of it,
\* and previous is the free block that ends there, if there is one.
SweepOnTrack ==
  pc = "sweep" =>
    /\ offset \in DOMAIN hdr \cup {HeapSize}
    /\ previous # NULL => /\ previous \in DOMAIN hdr
                          /\ is_type(previous, HT_FREE)
                          /\ previous + hdr[previous].size = offset
    /\ previous = NULL =>
         \A a \in DOMAIN hdr : is_type(a, HT_FREE) => a + hdr[a].size # offset

\* Behind offset the sweep has left no unmarked used block: none was skipped
\* when offset jumped over a merged neighbour.
SweptClean ==
  pc = "sweep" =>
    \A a \in DOMAIN hdr : is_type(a, HT_USED) /\ a < offset =>
      hdr[a].mark = markValue

IInv == TypeOK /\ Tiling /\ FreeListExact /\ Coalesced /\ SweepOnTrack /\ SweptClean

\* Allocating, freeing and sweeping never touch another block in use: its
\* header stays where it is, with its size and mark, whatever is merged or
\* split beside it, and a sweep frees neither a marked nor a protected block.
InUseKept ==
  \A a \in DOMAIN hdr :
    /\ ~ is_type(a, HT_FREE)
    /\ pc = "sweep" => is_type(a, HT_PROTECTED) \/ hdr[a].mark = markValue
    => \/ a \in DOMAIN hdr' /\ hdr'[a] = hdr[a]
       \/ Free(a) \/ (\E m \in Marks : Mark(a, m))
       \/ (\E protected \in BOOLEAN : heapProtect(a, protected))

InUseUndisturbed == [][InUseKept]_vars

\* heap_sweep reaches the end of the heap.
SweepEnds == pc = "sweep" ~> pc = "idle"

\* The blocks in use, with their sizes, and the calls of heap_alloc are an
\* allocator as Allocator specifies it.
live == [a \in {b \in DOMAIN hdr : ~ is_type(b, HT_FREE)} |-> hdr[a].size]

A == INSTANCE Allocator WITH live <- live, last <- last

ImplementsAllocator == A!Spec
=============================================================================

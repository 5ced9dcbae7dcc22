----------------------------- MODULE Allocator ------------------------------
(***************************************************************************)
(* What heaplist.c promises its callers: blocks of an area of HeapSize     *)
(* units that never overlap, a NULL only when no gap between the blocks in *)
(* use has room for the request, and no memory kept beside a block that    *)
(* would have made a block of its own.                                     *)
(***************************************************************************)
EXTENDS Integers

CONSTANTS HeapSize, HEAP_HEADER_SIZE, Requests

VARIABLES live,  \* the blocks in use: first unit -> size
          last   \* the last call of heap_alloc and its result

vars == <<live, last>>

NULL == -1

\* [a, a + n) lies in the heap and meets no block in use.
Gap(a, n) ==
  /\ a + n <= HeapSize
  /\ \A b \in DOMAIN live : a + n <= b \/ b + live[b] <= a

Init ==
  /\ live = [a \in {} |-> 0]
  /\ last = [n |-> 0, ret |-> NULL, op |-> "other"]

Alloc(n) ==
  \E a \in 0 .. HeapSize, slack \in 0 .. HEAP_HEADER_SIZE :
    LET size == n + HEAP_HEADER_SIZE + slack
    IN  /\ Gap(a, size)
        /\ live' = [b \in DOMAIN live \cup {a} |-> IF b = a THEN size ELSE live[b]]
        /\ last' = [n |-> n, ret |-> a, op |-> "alloc"]

AllocFails(n) ==
  /\ \A a \in 0 .. HeapSize : ~ Gap(a, n + HEAP_HEADER_SIZE)
  /\ last' = [n |-> n, ret |-> NULL, op |-> "alloc"]
  /\ UNCHANGED live

Release(a) ==
  /\ live' = [b \in DOMAIN live \ {a} |-> live[b]]
  /\ last' = [n |-> 0, ret |-> NULL, op |-> "other"]

Next ==
  \/ \E n \in Requests : Alloc(n) \/ AllocFails(n)
  \/ \E a \in DOMAIN live : Release(a)

Spec == Init /\ [][Next]_vars
=============================================================================

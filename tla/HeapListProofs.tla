--------------------------- MODULE HeapListProofs ---------------------------
(***************************************************************************)
(* The heap stays tiled, its free list exact and coalesced, and the sweep  *)
(* on track, for a heap, a header and requests of any size; and the loops  *)
(* of the allocator compute what the model's operations take from them.    *)
(***************************************************************************)
EXTENDS HeapListLoops, WellFoundedInduction, TLAPS

USE HeapAssumption

\* The parts of the invariant as predicates of a memory H, a list head L and
\* the set F of the headers the list links.
Mem(H) == DOMAIN H \subseteq Addr /\ H \in [DOMAIN H -> Header]

Tiled(H) ==
  /\ 0 \in DOMAIN H
  /\ \A a \in DOMAIN H :
       /\ a + H[a].size \in DOMAIN H \cup {HeapSize}
       /\ \A b \in DOMAIN H : b > a => b >= a + H[a].size

Listed(H, L, F) ==
  /\ F \subseteq DOMAIN H
  /\ L # NULL => L \in F
  /\ \A a \in F :
       /\ L # NULL /\ L <= a
       /\ H[a].next # NULL => H[a].next \in F /\ H[a].next > a
       /\ \A b \in F : b > a => H[a].next # NULL /\ H[a].next <= b

Apart(H, F) == \A a \in F : a + H[a].size \notin F

AllFree(H, F) == \A a \in F : H[a].type = HT_FREE

FreeBlocks == {a \in DOMAIN hdr : is_type(a, HT_FREE)}

InUse == DOMAIN hdr \ FreeBlocks

\* IInv in these terms.
LEMMA InvAsPredicates ==
  TypeOK /\ Tiling /\ FreeListExact /\ Coalesced =>
    /\ Mem(hdr) /\ Tiled(hdr)
    /\ Listed(hdr, free_list, FreeBlocks)
    /\ Apart(hdr, FreeBlocks)
    /\ AllFree(hdr, FreeBlocks)
<1>1. SUFFICES ASSUME TypeOK, Tiling, FreeListExact, Coalesced
               PROVE  /\ Mem(hdr) /\ Tiled(hdr)
                      /\ Listed(hdr, free_list, FreeBlocks)
                      /\ Apart(hdr, FreeBlocks)
                      /\ AllFree(hdr, FreeBlocks)
  OBVIOUS
<1>2. Mem(hdr) /\ Tiled(hdr)
  BY <1>1 DEF TypeOK, Tiling, Mem, Tiled
<1>3. Listed(hdr, free_list, FreeBlocks)
  BY <1>1 DEF FreeListExact, Listed, FreeBlocks
<1>4. Apart(hdr, FreeBlocks)
  BY <1>1 DEF TypeOK, Addr, Coalesced, Apart, FreeBlocks
<1>5. QED
  BY <1>2, <1>3, <1>4 DEF AllFree, FreeBlocks, is_type

\* And back, after a step.
LEMMA PredicatesAsInv ==
  ASSUME Mem(hdr)', Tiled(hdr)', free_list' \in Addr \cup {NULL},
         Listed(hdr, free_list, FreeBlocks)', Apart(hdr, FreeBlocks)',
         \A a \in DOMAIN hdr' : hdr'[a].type # HT_FREE => hdr'[a].next = NULL
  PROVE  Tiling' /\ FreeListExact' /\ Coalesced'
<1>1. Tiling'
  BY DEF Tiling, Tiled
<1>2. FreeListExact'
  BY DEF FreeListExact, Listed, FreeBlocks, is_type, Mem
<1>3. Coalesced'
  <2>1. SUFFICES ASSUME NEW a \in DOMAIN hdr', is_type(a, HT_FREE)',
                        a + hdr'[a].size # HeapSize
                 PROVE  ~ is_type(a + hdr[a].size, HT_FREE)'
    BY DEF Coalesced
  <2>2. a \in FreeBlocks' /\ a + hdr'[a].size \in DOMAIN hdr'
    BY <2>1 DEF FreeBlocks, Tiled
  <2>3. QED
    BY <2>2 DEF Apart, FreeBlocks
<1>4. QED
  BY <1>1, <1>2, <1>3

-----------------------------------------------------------------------------
(* list_merge                                                              *)

Adjacent(H, a) == H[a].next # NULL /\ a + H[a].size = H[a].next

LEMMA MergeApart ==
  ASSUME NEW H, NEW a, ~ Adjacent(H, a)
  PROVE  list_merge(H, a) = H
BY DEF list_merge, Adjacent

\* M is H with block n merged into a.
MergedInto(H, L, F, a, n, M) ==
  /\ n \in F /\ n > a
  /\ DOMAIN M = DOMAIN H \ {n}
  /\ Mem(M) /\ Tiled(M) /\ Listed(M, L, F \ {n})
  /\ \A x \in DOMAIN M : x # a => M[x] = H[x]
  /\ M[a].size = H[a].size + H[n].size
  /\ M[a].type = H[a].type

LEMMA MergeAdjacent ==
  ASSUME NEW H, NEW L, NEW F, Mem(H), Tiled(H), Listed(H, L, F),
         NEW a \in F, Adjacent(H, a),
         NEW n, n = H[a].next,
         NEW M, M = list_merge(H, a)
  PROVE  MergedInto(H, L, F, a, n, M)
<1>1. n \in F /\ n > a /\ n = a + H[a].size
  BY DEF Listed, Adjacent
<1>2. M = [x \in DOMAIN H \ {n} |->
             IF x = a THEN [H[a] EXCEPT !.next = H[n].next, !.size = H[a].size + H[n].size]
                      ELSE H[x]]
  BY DEF list_merge, Adjacent
<1>3. /\ a \in DOMAIN H /\ n \in DOMAIN H
      /\ H[a] \in Header /\ H[n] \in Header
      /\ a \in Nat /\ n \in Nat
  BY <1>1 DEF Listed, Mem, Addr
<1>4. /\ DOMAIN M = DOMAIN H \ {n}
      /\ \A x \in DOMAIN M : x # a => M[x] = H[x]
      /\ M[a] = [H[a] EXCEPT !.next = H[n].next, !.size = H[a].size + H[n].size]
  BY <1>1, <1>2, <1>3
<1>5. /\ M[a].size = H[a].size + H[n].size
      /\ M[a].next = H[n].next
      /\ M[a].type = H[a].type
      /\ M[a].mark = H[a].mark
  BY <1>3, <1>4 DEF Header
<1>6. Mem(M)
  <2>1. n + H[n].size <= HeapSize
    BY <1>3 DEF Tiled, Mem, Addr, Header
  <2>2. M[a] \in Header
    <3>1. H[a].size + H[n].size \in 1 .. HeapSize
      BY <1>1, <1>3, <2>1 DEF Header
    <3>2. QED
      BY <1>3, <1>4, <3>1 DEF Header
  <2>3. M \in [DOMAIN M -> Header]
    BY <1>2, <1>4, <2>2 DEF Mem
  <2>4. QED
    BY <1>4, <2>3 DEF Mem
<1>7. Tiled(M)
  <2>1. 0 \in DOMAIN M
    BY <1>1, <1>3, <1>4 DEF Tiled
  <2>2. ASSUME NEW x \in DOMAIN M
        PROVE  /\ x + M[x].size \in DOMAIN M \cup {HeapSize}
               /\ \A b \in DOMAIN M : b > x => b >= x + M[x].size
    <3>0. \A y \in DOMAIN H : H[y].size \in Nat /\ H[y].size > 0 /\ y \in Nat
      BY DEF Mem, Header, Addr
    <3>1. CASE x = a
      <4>1. x + M[x].size = n + H[n].size
        BY <3>1, <3>0, <1>1, <1>3, <1>5
      <4>2. n + H[n].size \in (DOMAIN H \ {n}) \cup {HeapSize}
        BY <3>0, <1>3 DEF Tiled
      <4>3. \A b \in DOMAIN M : b > a => b >= n + H[n].size
        BY <3>0, <1>1, <1>3, <1>4 DEF Tiled
      <4>4. QED
        BY <3>1, <4>1, <4>2, <4>3, <1>4
    <3>2. CASE x # a
      <4>1. M[x] = H[x] /\ x \in DOMAIN H /\ x # n
        BY <3>2, <1>4
      <4>2. x + H[x].size # n
        BY <3>0, <3>2, <4>1, <1>1, <1>3 DEF Tiled
      <4>3. QED
        BY <4>1, <4>2, <1>4 DEF Tiled
    <3>3. QED
      BY <3>1, <3>2
  <2>3. QED
    BY <2>1, <2>2 DEF Tiled
<1>8. Listed(M, L, F \ {n})
  <2>1. F \ {n} \subseteq DOMAIN M /\ (L # NULL => L \in F \ {n})
    BY <1>1, <1>3, <1>4 DEF Listed, Mem, Addr
  <2>2. ASSUME NEW x \in F \ {n}
        PROVE  /\ L # NULL /\ L <= x
               /\ M[x].next # NULL => M[x].next \in F \ {n} /\ M[x].next > x
               /\ \A b \in F \ {n} : b > x => M[x].next # NULL /\ M[x].next <= b
    <3>0. F \subseteq Nat
      BY DEF Listed, Mem, Addr
    <3>1. CASE x = a
      <4>1. L # NULL /\ L <= a
        BY <3>1 DEF Listed
      <4>2. H[n].next # NULL => H[n].next \in F /\ H[n].next > n
        BY <1>1 DEF Listed
      <4>3. ASSUME NEW b \in F \ {n}, b > a
            PROVE  H[n].next # NULL /\ H[n].next <= b
        <5>1. n <= b
          BY <4>3 DEF Listed
        <5>2. b > n
          BY <5>1, <4>3, <3>0, <1>3
        <5>3. QED
          BY <5>2, <1>1, <4>3 DEF Listed
      <4>4. QED
        BY <3>0, <3>1, <1>1, <1>3, <1>5, <4>1, <4>2, <4>3
    <3>2. CASE x # a
      <4>1. M[x] = H[x] /\ x \in F
        BY <3>2, <2>1, <1>4
      <4>2. H[x].next # n
        <5>1. CASE x < a
          BY <5>1, <3>0, <4>1, <1>1, <1>3 DEF Listed
        <5>2. CASE x > a
          <6>1. n <= x
            BY <5>2, <4>1, <1>1 DEF Listed
          <6>2. H[x].next # NULL => H[x].next > x
            BY <4>1 DEF Listed
          <6>3. n # NULL
            BY DEF Adjacent
          <6>4. CASE H[x].next # NULL
            <7>1. H[x].next \in F /\ H[x].next > x
              BY <6>4, <4>1 DEF Listed
            <7>2. QED
              BY <7>1, <6>1, <3>0, <4>1, <1>3
          <6>5. QED
            BY <6>3, <6>4
        <5>3. QED
          BY <5>1, <5>2, <3>0, <3>2, <4>1, <1>3
      <4>3. QED
        <5>1. /\ L # NULL /\ L <= x
              /\ H[x].next # NULL => H[x].next \in F /\ H[x].next > x
              /\ \A b \in F : b > x => H[x].next # NULL /\ H[x].next <= b
          BY <4>1 DEF Listed
        <5>2. QED
          BY <1>1, <1>4, <2>2, <4>1, <4>2, <5>1
    <3>3. QED
      BY <3>1, <3>2
  <2>3. QED
    BY <2>1, <2>2 DEF Listed
<1>9. QED
  BY <1>1, <1>4, <1>5, <1>6, <1>7, <1>8 DEF MergedInto
\* Both cases together: M is list_merge(H, a).
MergeResult(H, L, F, a, M) ==
  /\ Mem(M) /\ Tiled(M) /\ Listed(M, L, F \cap DOMAIN M)
  /\ a \in DOMAIN M
  /\ M[a].type = H[a].type
  /\ \A x \in DOMAIN M : x # a => M[x] = H[x]
  /\ Adjacent(H, a) => LET n == H[a].next
                       IN  /\ n \in F /\ n > a
                           /\ DOMAIN M = DOMAIN H \ {n}
                           /\ a + M[a].size = n + H[n].size
  /\ ~ Adjacent(H, a) => M = H

LEMMA MergeAny ==
  ASSUME NEW H, NEW L, NEW F, Mem(H), Tiled(H), Listed(H, L, F), NEW a \in F,
         NEW M, M = list_merge(H, a)
  PROVE  MergeResult(H, L, F, a, M)
<1> DEFINE n == H[a].next
<1>0. a \in DOMAIN H /\ F \subseteq DOMAIN H
  BY DEF Listed
<1>1. CASE Adjacent(H, a)
  <2>1. /\ n \in F /\ n > a
        /\ DOMAIN M = DOMAIN H \ {n}
        /\ Mem(M) /\ Tiled(M) /\ Listed(M, L, F \ {n})
        /\ \A x \in DOMAIN M : x # a => M[x] = H[x]
        /\ M[a].size = H[a].size + H[n].size
        /\ M[a].type = H[a].type
    <3>1. MergedInto(H, L, F, a, n, M)
      BY <1>1, MergeAdjacent
    <3>2. QED
      BY <3>1 DEF MergedInto
  <2>2. n \in DOMAIN H /\ H[a] \in Header /\ H[n] \in Header /\ a \in Nat /\ n \in Nat
    BY <1>0, <2>1 DEF Mem, Addr
  <2>3. F \cap DOMAIN M = F \ {n}
    BY <1>0, <2>1
  <2>5. n = a + H[a].size
    BY <1>1 DEF Adjacent
  <2>6. a \in DOMAIN M
    BY <1>0, <2>1, <2>2
  <2>7. a + M[a].size = n + H[n].size
    BY <2>1, <2>2, <2>5 DEF Header
  <2>8. QED
    BY <1>1, <2>1, <2>3, <2>6, <2>7 DEF MergeResult
<1>2. CASE ~ Adjacent(H, a)
  <2>1. M = H
    BY <1>2, MergeApart
  <2>2. F \cap DOMAIN M = F
    BY <2>1, <1>0
  <2>3. QED
    BY <1>0, <1>2, <2>1, <2>2 DEF MergeResult
<1>3. QED
  BY <1>1, <1>2

-----------------------------------------------------------------------------
(* list_insert_ordered                                                     *)

\* The memory once h is linked after p and before l, nothing merged yet.
Linked(H, L, h, p) ==
  LET l == After(H, L, p)
  IN  IF p = NULL THEN SetNext(H, h, l) ELSE SetNext(SetNext(H, h, l), p, h)

LinkResult(H, L, F, h, p, K, l, M) ==
  /\ Mem(M) /\ DOMAIN M = DOMAIN H
  /\ Listed(M, K, F \cup {h})
  /\ M[h].next = l
  /\ p # NULL => p < h /\ M[p].next = h
  /\ l # NULL => l \in F /\ h < l
  /\ \A b \in F : b <= p \/ (l # NULL /\ l <= b)
  /\ \A x \in DOMAIN H : /\ M[x].size = H[x].size
                         /\ M[x].type = H[x].type
                         /\ x \notin {h, p} => M[x] = H[x]

LEMMA LinkAfter ==
  ASSUME NEW H, NEW L, NEW F, Mem(H), Listed(H, L, F), L \in Addr \cup {NULL},
         NEW h \in DOMAIN H \ F, NEW p \in F \cup {NULL}, IsInsertPoint(H, L, h, p),
         NEW K, K = list_insert_ordered_head(L, h, p),
         NEW l, l = After(H, L, p),
         NEW M, M = Linked(H, L, h, p)
  PROVE  LinkResult(H, L, F, h, p, K, l, M)
<1>1. /\ F \subseteq DOMAIN H /\ F \subseteq Nat /\ F \subseteq Addr
      /\ h \in Addr /\ h \in Nat /\ h \in DOMAIN H /\ h \notin F
      /\ p # NULL => p \in DOMAIN H /\ p # h
      /\ NULL \notin F /\ h # NULL
  BY DEF Listed, Mem, Addr, NULL
<1>2. p # NULL => p < h
  BY DEF IsInsertPoint
<1>3. l # NULL => l \in F /\ h < l
  BY DEF IsInsertPoint, After, Listed
<1>4. \A b \in F : b <= p \/ (l # NULL /\ l <= b)
  <2>1. CASE p = NULL
    BY <2>1 DEF After, Listed
  <2>2. CASE p # NULL
    BY <2>2, <1>1 DEF After, Listed
  <2>3. QED
    BY <2>1, <2>2
<1>5. /\ DOMAIN M = DOMAIN H
      /\ M[h] = [H[h] EXCEPT !.next = l]
      /\ p # NULL => M[p] = [H[p] EXCEPT !.next = h]
      /\ \A x \in DOMAIN H : x \notin {h, p} => M[x] = H[x]
  <2>1. CASE p = NULL
    BY <2>1, <1>1 DEF Linked, SetNext
  <2>2. CASE p # NULL
    BY <2>2, <1>1 DEF Linked, SetNext
  <2>3. QED
    BY <2>1, <2>2
<1>6. /\ M[h].next = l
      /\ p # NULL => M[p].next = h
      /\ \A x \in DOMAIN H : M[x].size = H[x].size /\ M[x].type = H[x].type
  <2>1. \A x \in DOMAIN H : H[x] \in Header
    BY DEF Mem
  <2>2. QED
    <3>1. CASE p = NULL
      <4>1. M[h].size = H[h].size /\ M[h].type = H[h].type /\ M[h].next = l
        BY <2>1, <1>1, <1>5 DEF Header
      <4>2. \A x \in DOMAIN H : x # p
        BY <3>1 DEF Mem, Addr, NULL
      <4>3. QED
        BY <3>1, <4>1, <4>2, <1>5
    <3>2. CASE p # NULL
      <4>1. M[h].size = H[h].size /\ M[h].type = H[h].type /\ M[h].next = l
        BY <2>1, <1>1, <1>5 DEF Header
      <4>2. M[p].size = H[p].size /\ M[p].type = H[p].type /\ M[p].next = h
        BY <3>2, <2>1, <1>1, <1>5 DEF Header
      <4>3. QED
        BY <4>1, <4>2, <1>5
    <3>3. QED
      BY <3>1, <3>2
<1>7. Mem(M)
  <2>1. l \in Addr \cup {NULL}
    BY <1>1, <1>3
  <2>2. ASSUME NEW x \in DOMAIN H PROVE M[x] \in Header
    <3>1. H[x] \in Header
      BY DEF Mem
    <3>2. QED
      <4>1. CASE x = h
        BY <4>1, <3>1, <2>1, <1>5 DEF Header
      <4>2. CASE x = p /\ p # NULL
        BY <4>2, <3>1, <1>1, <1>5 DEF Header
      <4>3. CASE x \notin {h, p}
        BY <4>3, <3>1, <1>5
      <4>4. QED
        BY <4>1, <4>2, <4>3, <1>1 DEF Mem, Addr, NULL
  <2>3. M = [x \in DOMAIN M |-> M[x]]
    BY DEF Linked, SetNext, Mem
  <2>4. QED
    BY <2>2, <2>3, <1>5 DEF Mem
<1>8. Listed(M, K, F \cup {h})
  <2>1. K # NULL => K \in F \cup {h}
    BY DEF list_insert_ordered_head, Listed
  <2>2. ASSUME NEW x \in F \cup {h}
        PROVE  K # NULL /\ K <= x
    <3>1. CASE p = NULL
      BY <3>1, <1>1, <1>3, <1>4 DEF list_insert_ordered_head, NULL
    <3>2. CASE p # NULL
      BY <3>2, <1>1, <1>2 DEF list_insert_ordered_head, Listed
    <3>3. QED
      BY <3>1, <3>2
  <2>3. ASSUME NEW x \in F \cup {h}
        PROVE  /\ M[x].next # NULL => M[x].next \in F \cup {h} /\ M[x].next > x
               /\ \A b \in F \cup {h} : b > x => M[x].next # NULL /\ M[x].next <= b
    <3>1. CASE x = h
      <4>1. \A b \in F \cup {h} : b > h => l # NULL /\ l <= b
        BY <1>1, <1>2, <1>4 DEF NULL
      <4>2. QED
        BY <3>1, <4>1, <1>3, <1>6
    <3>2. CASE x = p /\ p # NULL
      <4>1. \A b \in F \cup {h} : b > p => h <= b
        BY <3>2, <1>1, <1>3, <1>4
      <4>2. QED
        BY <3>2, <4>1, <1>1, <1>2, <1>6
    <3>3. CASE x # h /\ x # p
      <4>1. /\ M[x] = H[x] /\ x \in F
            /\ H[x].next # NULL => H[x].next \in F /\ H[x].next > x
            /\ \A b \in F : b > x => H[x].next # NULL /\ H[x].next <= b
        BY <3>3, <1>1, <1>5 DEF Listed
      <4>2. h > x => H[x].next # NULL /\ H[x].next <= h
        <5>1. SUFFICES ASSUME h > x PROVE H[x].next # NULL /\ H[x].next <= h
          OBVIOUS
        <5>2. x <= p
          BY <5>1, <4>1, <1>1, <1>3, <1>4
        <5>3. p # NULL /\ p > x /\ p \in F
          BY <5>2, <3>3, <4>1, <1>1 DEF NULL
        <5>4. H[x].next # NULL /\ H[x].next <= p /\ H[x].next \in F
          BY <5>3, <4>1
        <5>5. QED
          BY <5>3, <5>4, <1>1, <1>2
      <4>3. QED
        BY <4>1, <4>2
    <3>4. QED
      BY <3>1, <3>2, <3>3, <1>1
  <2>4. F \cup {h} \subseteq DOMAIN M
    BY <1>1, <1>5
  <2>5. QED
    BY <2>1, <2>2, <2>3, <2>4 DEF Listed
<1>9. QED
  BY <1>2, <1>3, <1>4, <1>5, <1>6, <1>7, <1>8 DEF LinkResult
\* What list_insert_ordered does with a block h that is not on a coalesced list.
InsertResult(H, F, h, p, K, R) ==
  LET G == (F \cup {h}) \cap DOMAIN R
  IN  /\ Mem(R) /\ Tiled(R) /\ Listed(R, K, G) /\ Apart(R, G) /\ AllFree(R, G)
      /\ DOMAIN R \subseteq DOMAIN H
      /\ \A x \in DOMAIN H : x \notin F \cup {h} => x \in DOMAIN R /\ R[x] = H[x]
      /\ IF p # NULL /\ p + H[p].size = h THEN p \in DOMAIN R /\ h \notin DOMAIN R
                                          ELSE h \in DOMAIN R

LEMMA InsertOrdered ==
  ASSUME NEW H, NEW L, NEW F, Mem(H), Tiled(H), Listed(H, L, F), Apart(H, F),
         L \in Addr \cup {NULL},
         NEW h \in DOMAIN H \ F, AllFree(H, F \cup {h}),
         NEW p \in F \cup {NULL}, IsInsertPoint(H, L, h, p),
         NEW K, K = list_insert_ordered_head(L, h, p),
         NEW R, R = list_insert_ordered(H, L, h, p)
  PROVE  InsertResult(H, F, h, p, K, R)
<1> DEFINE l == After(H, L, p)
           M == Linked(H, L, h, p)
           N == list_merge(M, h)
           F2 == F \cup {h}
           F1 == F2 \cap DOMAIN N
<1>0. /\ F \subseteq DOMAIN H /\ F2 \subseteq DOMAIN H
      /\ \A x \in DOMAIN H : x \in Nat /\ x # NULL /\ H[x].size \in Nat /\ H[x].size > 0
      /\ h \in DOMAIN H /\ h \notin F
      /\ p # NULL => p \in F
  BY DEF Listed, Mem, Addr, NULL, Header
<1>1. LinkResult(H, L, F, h, p, K, l, M)
  <2> HIDE DEF l, M
  <2>1. l = After(H, L, p) /\ M = Linked(H, L, h, p)
    BY DEF l, M
  <2>2. QED
    BY <2>1, LinkAfter
<1> HIDE DEF l, M
<1>2. /\ Mem(M) /\ DOMAIN M = DOMAIN H /\ Listed(M, K, F2)
      /\ M[h].next = l
      /\ p # NULL => p < h /\ M[p].next = h
      /\ l # NULL => l \in F /\ h < l
      /\ \A b \in F : b <= p \/ (l # NULL /\ l <= b)
      /\ \A x \in DOMAIN H : M[x].size = H[x].size /\ M[x].type = H[x].type
      /\ \A x \in DOMAIN H : x \notin {h, p} => M[x] = H[x]
  BY <1>1 DEF LinkResult
<1>3. Tiled(M)
  BY <1>2 DEF Tiled
<1>4. MergeResult(M, K, F2, h, N)
  <2> HIDE DEF N, F2
  <2>1. h \in F2 /\ N = list_merge(M, h)
    BY DEF F2, N
  <2>2. QED
    BY <2>1, <1>2, <1>3, MergeAny
<1>5. /\ Mem(N) /\ Tiled(N) /\ Listed(N, K, F1)
      /\ h \in DOMAIN N
      /\ N[h].type = M[h].type
      /\ \A x \in DOMAIN N : x # h => N[x] = M[x]
      /\ Adjacent(M, h) => /\ DOMAIN N = DOMAIN M \ {l}
                           /\ h + N[h].size = l + M[l].size
      /\ ~ Adjacent(M, h) => N = M
  <2> HIDE DEF N
  <2>1. QED
    BY <1>2, <1>4 DEF MergeResult
<1> HIDE DEF N
<1>6. R = IF p = NULL THEN N ELSE list_merge(N, p)
  <2>1. CASE p = NULL
    BY <2>1 DEF list_insert_ordered, Linked, After, N, M
  <2>2. CASE p # NULL /\ l # NULL
    BY <2>2 DEF list_insert_ordered, Linked, N, M, l
  <2>3. CASE p # NULL /\ l = NULL
    <3>1. N = M
      BY <2>3, <1>2, <1>5 DEF Adjacent
    <3>2. R = list_merge(M, p)
      BY <2>3 DEF list_insert_ordered, Linked, M, l
    <3>3. QED
      BY <2>3, <3>1, <3>2
  <2>4. QED
    BY <2>1, <2>2, <2>3
\* Behind h there is no free block now, and before it none but p.
<1>7. h + N[h].size \notin F1
  <2>1. CASE Adjacent(M, h)
    <3>1. l \in F /\ h < l /\ h + N[h].size = l + H[l].size
      BY <2>1, <1>2, <1>5, <1>0 DEF Adjacent
    <3>2. l + H[l].size \notin F
      BY <3>1 DEF Apart
    <3>3. l + H[l].size # h
      BY <3>1, <1>0
    <3>4. QED
      BY <3>1, <3>2, <3>3
  <2>2. CASE ~ Adjacent(M, h)
    <3>1. N[h].size = H[h].size
      BY <2>2, <1>0, <1>2, <1>5
    <3>2. ASSUME h + H[h].size \in F PROVE FALSE
      <4>1. h + H[h].size > h /\ (p # NULL => p < h)
        BY <1>0, <1>2
      <4>2. l # NULL /\ l <= h + H[h].size /\ l \in F /\ h < l
        <5>1. ~ (h + H[h].size <= p)
          BY <4>1, <1>0 DEF NULL
        <5>2. QED
          BY <5>1, <3>2, <1>2
      <4>3. l >= h + H[h].size
        BY <4>2, <1>0 DEF Tiled
      <4>4. l = h + H[h].size
        BY <4>2, <4>3, <1>0
      <4>5. QED
        BY <4>2, <4>4, <2>2, <1>0, <1>2 DEF Adjacent
    <3>3. QED
      BY <3>1, <3>2, <1>0
  <2>3. QED
    BY <2>1, <2>2
<1>8. ASSUME NEW x \in F1, x # p, x # h
      PROVE  x + N[x].size \notin F1
  <2>1. x \in F /\ x \in DOMAIN N /\ N[x].size = H[x].size
    BY <1>8, <1>0, <1>2, <1>5
  <2>2. x + H[x].size \notin F
    BY <2>1 DEF Apart
  <2>3. ASSUME x + H[x].size = h PROVE FALSE
    <3>1. x < h /\ x <= p
      BY <2>1, <2>3, <1>0, <1>2
    <3>2. p # NULL /\ p > x /\ p \in DOMAIN H /\ p < h
      BY <3>1, <2>1, <1>8, <1>0, <1>2 DEF NULL
    <3>3. p >= x + H[x].size
      BY <3>2, <2>1, <1>0 DEF Tiled
    <3>4. QED
      BY <3>2, <3>3, <2>3, <1>0
  <2>4. QED
    BY <2>1, <2>2, <2>3
<1>9. AllFree(N, F1)
  BY <1>0, <1>2, <1>5 DEF AllFree
<1>10. \A x \in DOMAIN H : x \notin F2 => x \in DOMAIN N /\ x # p /\ N[x] = H[x]
  <2>1. ASSUME NEW x \in DOMAIN H, x \notin F2
        PROVE  x \in DOMAIN N /\ x # p /\ N[x] = H[x]
    <3>1. x # h /\ x \notin F /\ x # p
      BY <2>1, <1>0
    <3>2. x \in DOMAIN N
      BY <3>1, <1>2, <1>5 DEF Adjacent
    <3>3. QED
      BY <3>1, <3>2, <1>2, <1>5
  <2>2. QED
    BY <2>1
<1>11. CASE p = NULL
  <2>1. R = N
    BY <1>11, <1>6
  <2>2. Apart(N, F1)
    BY <1>11, <1>0, <1>7, <1>8 DEF Apart
  <2>3. DOMAIN N \subseteq DOMAIN H
    BY <1>2, <1>5
  <2>4. QED
    BY <1>11, <2>1, <2>2, <2>3, <1>5, <1>9, <1>10 DEF InsertResult
<1>12. CASE p # NULL
  <2> DEFINE G == F1 \cap DOMAIN R
  <2>1. p \in F /\ p \in DOMAIN H /\ p \in DOMAIN N /\ p \in F1 /\ p < h /\ p # h
    <3>1. p \in F /\ p \in DOMAIN H /\ p < h /\ p # h
      BY <1>12, <1>0, <1>2
    <3>2. p # l \/ l = NULL
      BY <3>1, <1>0, <1>2
    <3>3. QED
      BY <3>1, <3>2, <1>2, <1>5 DEF Adjacent
  <2>2. N[p].next = h /\ N[p].size = H[p].size
    BY <1>12, <2>1, <1>2, <1>5
  <2>3. MergeResult(N, K, F1, p, R)
    <3> HIDE DEF F1
    <3>1. R = list_merge(N, p)
      BY <1>12, <1>6
    <3>2. QED
      BY <2>1, <3>1, <1>5, MergeAny
  <2>4. /\ Mem(R) /\ Tiled(R) /\ Listed(R, K, G)
        /\ p \in DOMAIN R
        /\ R[p].type = N[p].type
        /\ \A x \in DOMAIN R : x # p => R[x] = N[x]
        /\ Adjacent(N, p) => /\ DOMAIN R = DOMAIN N \ {h}
                             /\ p + R[p].size = h + N[h].size
        /\ ~ Adjacent(N, p) => R = N
    BY <2>2, <2>3 DEF MergeResult
  <2>5. Adjacent(N, p) <=> p + H[p].size = h
    BY <2>2, <1>0 DEF Adjacent
  <2>6. G = F2 \cap DOMAIN R
    BY <2>4, <2>5
  <2>7. AllFree(R, G)
    BY <2>1, <2>4, <1>9 DEF AllFree
  <2>8. Apart(R, G)
    <3>1. CASE Adjacent(N, p)
      <4>1. G \subseteq F1 /\ h \notin G
        BY <3>1, <2>4
      <4>2. p + R[p].size \notin G
        BY <3>1, <2>4, <1>7
      <4>3. ASSUME NEW x \in G, x # p
            PROVE  x + R[x].size \notin G
        BY <4>1, <4>3, <2>4, <1>8
      <4>4. QED
        BY <4>2, <4>3 DEF Apart
    <3>2. CASE ~ Adjacent(N, p)
      <4>1. R = N
        BY <3>2, <2>4
      <4>2. p + N[p].size \notin F1
        BY <3>2, <2>1, <2>2, <2>5 DEF Apart
      <4>3. QED
        BY <4>1, <4>2, <1>7, <1>8 DEF Apart
    <3>3. QED
      BY <3>1, <3>2
  <2>9. /\ DOMAIN R \subseteq DOMAIN H
        /\ \A x \in DOMAIN H : x \notin F2 => x \in DOMAIN R /\ R[x] = H[x]
    <3>1. DOMAIN N \subseteq DOMAIN H /\ DOMAIN R \subseteq DOMAIN N
      BY <1>2, <1>5, <2>4
    <3>2. ASSUME NEW x \in DOMAIN H, x \notin F2
          PROVE  x \in DOMAIN R /\ R[x] = H[x]
      BY <3>2, <1>10, <2>4
    <3>3. QED
      BY <3>1, <3>2
  <2>10. IF p + H[p].size = h THEN h \notin DOMAIN R ELSE h \in DOMAIN R
    BY <2>4, <2>5, <1>5
  <2>11. QED
    BY <1>12, <2>4, <2>6, <2>7, <2>8, <2>9, <2>10 DEF InsertResult
<1>13. QED
  BY <1>11, <1>12
-----------------------------------------------------------------------------
(* heap_free                                                               *)

Sound == TypeOK /\ Tiling /\ FreeListExact /\ Coalesced

\* A header on the list is a free block, also while another block's header has
\* been given the type HT_FREE and is not on the list yet.
LEMMA OnListIsFree ==
  ASSUME Sound, NEW a, a \in DOMAIN hdr, OnList(hdr, free_list, a)
  PROVE  a \in FreeBlocks
<1>1. a # NULL
  BY DEF Sound, TypeOK, Addr, NULL
<1>2. CASE a = free_list
  BY <1>1, <1>2 DEF Sound, FreeListExact, FreeBlocks
<1>3. CASE \E x \in DOMAIN hdr : hdr[x].next = a
  BY <1>1, <1>3 DEF Sound, FreeListExact, FreeBlocks
<1>4. QED
  BY <1>2, <1>3 DEF OnList

LEMMA HeapFree ==
  ASSUME Sound, NEW h \in DOMAIN hdr, ~ is_type(h, HT_FREE), heap_free(h)
  PROVE  \E p \in FreeBlocks \cup {NULL} :
           /\ InsertResult(set_type(hdr, h, HT_FREE), FreeBlocks, h, p, free_list', hdr')
           /\ p # NULL => h > p
           /\ After(hdr, free_list, p) # NULL => h < After(hdr, free_list, p)
<1> DEFINE H == set_type(hdr, h, HT_FREE)
           F == FreeBlocks
<1>1. PICK p \in DOMAIN hdr \cup {NULL} :
        /\ IsInsertPoint(H, free_list, h, p)
        /\ hdr' = list_insert_ordered(H, free_list, h, p)
        /\ free_list' = list_insert_ordered_head(free_list, h, p)
  BY DEF heap_free
<1>2. /\ DOMAIN H = DOMAIN hdr
      /\ \A x \in DOMAIN hdr : x # h => H[x] = hdr[x]
      /\ H[h] = [hdr[h] EXCEPT !.type = HT_FREE]
  BY DEF set_type
<1>3. /\ Mem(hdr) /\ Tiled(hdr) /\ Listed(hdr, free_list, F)
      /\ Apart(hdr, F) /\ AllFree(hdr, F)
      /\ free_list \in Addr \cup {NULL}
  BY InvAsPredicates DEF Sound, TypeOK
<1>4. /\ hdr[h] \in Header
      /\ H[h].type = HT_FREE /\ H[h].next = hdr[h].next /\ H[h].size = hdr[h].size
      /\ h \notin F
  BY <1>2, <1>3 DEF Mem, Header, FreeBlocks
<1>5. Mem(H)
  <2>1. H[h] \in Header
    BY <1>2, <1>4 DEF Header
  <2>2. H = [x \in DOMAIN hdr |-> H[x]]
    BY DEF set_type
  <2>3. \A x \in DOMAIN hdr : H[x] \in Header
    BY <2>1, <1>2, <1>3 DEF Mem
  <2> HIDE DEF H
  <2>4. QED
    BY <2>2, <2>3, <1>2, <1>3 DEF Mem
<1> HIDE DEF H
<1>6. \A x \in DOMAIN hdr : H[x].next = hdr[x].next /\ H[x].size = hdr[x].size
  BY <1>2, <1>4
<1>7. Tiled(H)
  BY <1>2, <1>3, <1>6 DEF Tiled
<1>8. Listed(H, free_list, F) /\ Apart(H, F) /\ F \subseteq DOMAIN hdr
  BY <1>2, <1>3, <1>6 DEF Listed, Apart
<1>9. AllFree(H, F \cup {h})
  BY <1>2, <1>3, <1>4, <1>8 DEF AllFree
<1>10. p \in F \cup {NULL}
  <2>1. SUFFICES ASSUME p # NULL PROVE p \in F
    OBVIOUS
  <2>2. p \in DOMAIN hdr /\ OnList(hdr, free_list, p)
    BY <2>1, <1>1, <1>2, <1>6 DEF IsInsertPoint, OnList
  <2>3. QED
    BY <2>2, OnListIsFree
<1>11. InsertResult(H, F, h, p, free_list', hdr')
  <2> HIDE DEF F
  <2>1. h \in DOMAIN H \ F
    BY <1>2, <1>4
  <2>2. QED
    BY <1>1, <1>3, <1>5, <1>7, <1>8, <1>9, <1>10, <2>1, InsertOrdered
<1>12. After(H, free_list, p) = After(hdr, free_list, p)
  BY <1>6, <1>10, <1>8 DEF After
<1>13. QED
  BY <1>1, <1>10, <1>11, <1>12 DEF H, IsInsertPoint

\* After heap_free the heap is sound, and no other block in use has changed.
LEMMA HeapFreeSound ==
  ASSUME Sound, NEW h \in DOMAIN hdr, ~ is_type(h, HT_FREE), NEW p,
         InsertResult(set_type(hdr, h, HT_FREE), FreeBlocks, h, p, free_list', hdr')
  PROVE  /\ Tiling' /\ FreeListExact' /\ Coalesced'
         /\ Mem(hdr)' /\ free_list' \in Addr \cup {NULL}
         /\ \A x \in DOMAIN hdr : ~ is_type(x, HT_FREE) /\ x # h =>
              x \in DOMAIN hdr' /\ hdr'[x] = hdr[x]
         /\ FreeBlocks' = (FreeBlocks \cup {h}) \cap DOMAIN hdr'
         /\ DOMAIN hdr' \subseteq DOMAIN hdr
<1> DEFINE H == set_type(hdr, h, HT_FREE)
           G == (FreeBlocks \cup {h}) \cap DOMAIN hdr'
<1>1. /\ DOMAIN H = DOMAIN hdr
      /\ \A x \in DOMAIN hdr : x # h => H[x] = hdr[x]
  BY DEF set_type
<1>2. /\ Mem(hdr)' /\ Tiled(hdr)' /\ Listed(hdr', free_list', G)
      /\ Apart(hdr', G) /\ AllFree(hdr', G)
      /\ DOMAIN hdr' \subseteq DOMAIN hdr
      /\ \A x \in DOMAIN hdr : x \notin FreeBlocks \cup {h} =>
           x \in DOMAIN hdr' /\ hdr'[x] = H[x]
  <2> HIDE DEF H
  <2>1. InsertResult(H, FreeBlocks, h, p, free_list', hdr')
    BY DEF H
  <2>2. QED
    BY <2>1, <1>1 DEF InsertResult, Mem, Tiled
<1>3. \A x \in DOMAIN hdr : ~ is_type(x, HT_FREE) /\ x # h =>
        x \in DOMAIN hdr' /\ hdr'[x] = hdr[x]
  BY <1>1, <1>2 DEF FreeBlocks
<1>4. FreeBlocks' = G
  <2>1. G \subseteq FreeBlocks'
    BY <1>2 DEF FreeBlocks, AllFree, is_type
  <2>2. ASSUME NEW x \in FreeBlocks', x \notin G PROVE FALSE
    <3>1. x \in DOMAIN hdr /\ x \in DOMAIN hdr' /\ x # h /\ x \notin FreeBlocks
      BY <2>2, <1>2 DEF FreeBlocks
    <3>2. hdr'[x] = hdr[x]
      BY <3>1, <1>3 DEF FreeBlocks
    <3>3. QED
      BY <3>1, <3>2, <2>2 DEF FreeBlocks, is_type
  <2>3. QED
    BY <2>1, <2>2
<1>5. free_list' \in Addr \cup {NULL}
  BY <1>2 DEF Listed, Mem
<1>6. \A a \in DOMAIN hdr' : hdr'[a].type # HT_FREE => hdr'[a].next = NULL
  <2>1. SUFFICES ASSUME NEW a \in DOMAIN hdr', hdr'[a].type # HT_FREE
                 PROVE  hdr'[a].next = NULL
    OBVIOUS
  <2>2. a \in DOMAIN hdr /\ a \notin FreeBlocks \cup {h}
    BY <2>1, <1>2 DEF AllFree
  <2>3. hdr'[a] = hdr[a] /\ ~ is_type(a, HT_FREE)
    BY <2>2, <1>3 DEF FreeBlocks
  <2>4. QED
    BY <2>2, <2>3 DEF Sound, FreeListExact
<1>7. Tiling' /\ FreeListExact' /\ Coalesced'
  <2> HIDE DEF G
  <2>1. Listed(hdr, free_list, FreeBlocks)' /\ Apart(hdr, FreeBlocks)'
    BY <1>2, <1>4 DEF Listed, Apart
  <2>2. QED
    BY <2>1, <1>2, <1>5, <1>6, PredicatesAsInv
<1>8. QED
  BY <1>2, <1>3, <1>4, <1>5, <1>7
-----------------------------------------------------------------------------
(* heap_alloc                                                              *)

\* The heap after a call that changed it, as the action lemmas conclude it.
Outcome ==
  /\ Tiling' /\ FreeListExact' /\ Coalesced'
  /\ Mem(hdr)' /\ free_list' \in Addr \cup {NULL}

\* The heap after b was handed out with that size.
Takes(b, size) ==
  /\ Outcome
  /\ \A x \in DOMAIN hdr : ~ is_type(x, HT_FREE) =>
       x \in DOMAIN hdr' /\ hdr'[x] = hdr[x]
  /\ InUse' = InUse \cup {b} /\ hdr'[b].size = size

\* list_remove of block b, with prev the element before it.
LEMMA Remove ==
  ASSUME Sound, NEW prev \in FreeCells \cup {NULL},
         NEW b \in FreeCells, b = After(hdr, free_list, prev),
         NEW H, H = list_remove(hdr, free_list, prev, b),
         NEW K, K = list_remove_head(hdr, free_list, b)
  PROVE  /\ Mem(H) /\ DOMAIN H = DOMAIN hdr
         /\ Listed(H, K, FreeBlocks \ {b})
         /\ \A x \in DOMAIN hdr : H[x].size = hdr[x].size /\ H[x].type = hdr[x].type
         /\ \A x \in DOMAIN hdr : x \notin FreeBlocks \/ x = b => H[x] = hdr[x]
<1> DEFINE F == FreeBlocks
<1>1. /\ Mem(hdr) /\ Tiled(hdr) /\ Listed(hdr, free_list, F)
      /\ b \in F /\ b \in DOMAIN hdr
      /\ prev # NULL => prev \in F /\ prev \in DOMAIN hdr
      /\ F \subseteq DOMAIN hdr
      /\ \A x \in DOMAIN hdr : x \in Nat /\ x # NULL /\ x \in Addr
  BY InvAsPredicates, OnListIsFree DEF Sound, FreeCells, Mem, Addr, NULL, FreeBlocks
<1>2. CASE prev = NULL
  <2>1. b = free_list /\ H = hdr /\ K = hdr[b].next
    BY <1>2 DEF After, list_remove, list_remove_head
  <2>2. K # NULL => K \in F \ {b}
    BY <1>1, <2>1 DEF Listed
  <2>3. ASSUME NEW x \in F \ {b}
        PROVE  /\ K # NULL /\ K <= x
               /\ H[x].next # NULL => H[x].next \in F \ {b} /\ H[x].next > x
               /\ \A c \in F \ {b} : c > x => H[x].next # NULL /\ H[x].next <= c
    <3>1. x > b
      BY <1>1, <2>1 DEF Listed
    <3>2. K # NULL /\ K <= x
      BY <3>1, <1>1, <2>1 DEF Listed
    <3>3. H[x].next # NULL => H[x].next \in F /\ H[x].next > x
      BY <1>1, <2>1 DEF Listed
    <3>4. \A c \in F : c > x => H[x].next # NULL /\ H[x].next <= c
      BY <1>1, <2>1 DEF Listed
    <3>5. QED
      BY <3>1, <3>2, <3>3, <3>4, <1>1
  <2>4. Listed(H, K, F \ {b})
    BY <2>1, <2>2, <2>3, <1>1 DEF Listed
  <2>5. QED
    BY <2>1, <2>4, <1>1
<1>3. CASE prev # NULL
  <2>1. b = hdr[prev].next /\ prev < b /\ free_list <= prev /\ free_list \in F
    BY <1>1, <1>3 DEF After, Listed
  <2>2. free_list # b /\ K = free_list /\ H = SetNext(hdr, prev, hdr[b].next)
    <3>1. free_list # b
      BY <1>1, <1>3, <2>1
    <3>2. QED
      BY <3>1 DEF list_remove, list_remove_head
  <2>3. /\ DOMAIN H = DOMAIN hdr
        /\ H[prev] = [hdr[prev] EXCEPT !.next = hdr[b].next]
        /\ \A x \in DOMAIN hdr : x # prev => H[x] = hdr[x]
        /\ H = [x \in DOMAIN hdr |-> H[x]]
    BY <1>1, <1>3, <2>2 DEF SetNext
  <2>4. hdr[prev] \in Header /\ hdr[b].next \in Addr \cup {NULL}
    BY <1>1, <1>3 DEF Mem, Header
  <2>5. /\ H[prev].next = hdr[b].next /\ H[prev].size = hdr[prev].size
        /\ H[prev].type = hdr[prev].type
        /\ H[prev] \in Header
    BY <2>3, <2>4 DEF Header
  <2>6. Mem(H)
    <3>1. \A x \in DOMAIN hdr : H[x] \in Header
      BY <2>3, <2>5, <1>1 DEF Mem
    <3>2. QED
      BY <3>1, <2>3, <1>1 DEF Mem
  <2>7. ASSUME NEW x \in F \ {b}
        PROVE  /\ H[x].next # NULL => H[x].next \in F \ {b} /\ H[x].next > x
               /\ \A c \in F \ {b} : c > x => H[x].next # NULL /\ H[x].next <= c
    <3>1. CASE x = prev
      <4>1. hdr[b].next # NULL => hdr[b].next \in F /\ hdr[b].next > b
        BY <1>1 DEF Listed
      <4>2. ASSUME NEW c \in F \ {b}, c > prev
            PROVE  hdr[b].next # NULL /\ hdr[b].next <= c
        <5>1. b <= c
          BY <4>2, <1>1, <1>3, <2>1 DEF Listed
        <5>2. c > b
          BY <5>1, <4>2, <1>1
        <5>3. QED
          BY <5>2, <4>2, <1>1 DEF Listed
      <4>3. QED
        BY <3>1, <4>1, <4>2, <2>1, <2>5, <1>1, <1>3
    <3>2. CASE x # prev
      <4>1. /\ H[x] = hdr[x]
            /\ hdr[x].next # NULL => hdr[x].next \in F /\ hdr[x].next > x
            /\ \A c \in F : c > x => hdr[x].next # NULL /\ hdr[x].next <= c
        BY <3>2, <2>3, <1>1 DEF Listed
      <4>2. hdr[x].next # b
        <5>1. CASE x < prev
          BY <5>1, <4>1, <1>1, <1>3, <2>1
        <5>2. CASE x > prev
          <6>1. b <= x
            BY <5>2, <2>1, <1>1, <1>3 DEF Listed
          <6>2. QED
            BY <6>1, <4>1, <1>1
        <5>3. QED
          BY <5>1, <5>2, <3>2, <1>1, <1>3
      <4>3. QED
        BY <4>1, <4>2
    <3>3. QED
      BY <3>1, <3>2
  <2>8. \A x \in F : free_list # NULL /\ free_list <= x
    BY <1>1 DEF Listed
  <2>9. Listed(H, K, F \ {b})
    BY <1>1, <2>1, <2>2, <2>3, <2>7, <2>8 DEF Listed
  <2>10. QED
    BY <1>1, <1>3, <2>1, <2>3, <2>5, <2>6, <2>9
<1>4. QED
  BY <1>2, <1>3

\* A block in use behind the list operations carries no link.
LEMMA AllocWhole ==
  ASSUME Sound, NEW b \in FreeBlocks, NEW H, NEW K,
         Mem(H), DOMAIN H = DOMAIN hdr,
         Listed(H, K, FreeBlocks \ {b}),
         \A x \in DOMAIN hdr : H[x].size = hdr[x].size /\ H[x].type = hdr[x].type,
         \A x \in DOMAIN hdr : x \notin FreeBlocks => H[x] = hdr[x],
         hdr' = TakeWhole(b, H), free_list' = K
  PROVE  Takes(b, hdr[b].size)
<1> DEFINE F == FreeBlocks
<1>1. /\ Mem(hdr) /\ Tiled(hdr) /\ Apart(hdr, F) /\ F \subseteq DOMAIN hdr
      /\ b \in DOMAIN hdr
  BY InvAsPredicates DEF Sound, FreeBlocks
<1>2. /\ DOMAIN hdr' = DOMAIN hdr
      /\ hdr'[b] = init_element(hdr[b].size, HT_USED)
      /\ \A x \in DOMAIN hdr : x # b => hdr'[x] = H[x]
      /\ hdr' = [x \in DOMAIN hdr |-> hdr'[x]]
  BY <1>1 DEF TakeWhole
<1>3. /\ hdr'[b].size = hdr[b].size /\ hdr'[b].type = HT_USED /\ hdr'[b].next = NULL
      /\ hdr'[b] \in Header
  BY <1>1, <1>2 DEF init_element, Mem, Header, HT_USED
<1>4. Mem(hdr)'
  <2>1. \A x \in DOMAIN hdr : hdr'[x] \in Header
    BY <1>2, <1>3 DEF Mem
  <2>2. QED
    BY <2>1, <1>1, <1>2 DEF Mem
<1>5. \A x \in DOMAIN hdr : hdr'[x].size = hdr[x].size
  BY <1>2, <1>3
<1>6. Tiled(hdr)'
  BY <1>1, <1>2, <1>5 DEF Tiled
<1>7. FreeBlocks' = F \ {b}
  BY <1>1, <1>2, <1>3 DEF FreeBlocks, is_type, HT_USED, HT_FREE
<1>8. Listed(hdr, free_list, FreeBlocks)'
  <2>1. \A x \in F \ {b} : hdr'[x] = H[x]
    BY <1>1, <1>2
  <2>2. Listed(hdr', free_list', F \ {b})
    BY <2>1, <1>1, <1>2 DEF Listed
  <2> HIDE DEF F
  <2>3. QED
    BY <2>2, <1>7 DEF Listed
<1>9. Apart(hdr, FreeBlocks)'
  BY <1>1, <1>5, <1>7 DEF Apart
<1>10. free_list' \in Addr \cup {NULL}
  BY <1>1 DEF Listed, Mem
<1>11. \A x \in DOMAIN hdr : ~ is_type(x, HT_FREE) => hdr'[x] = hdr[x]
  BY <1>2 DEF FreeBlocks
<1>12. \A a \in DOMAIN hdr' : hdr'[a].type # HT_FREE => hdr'[a].next = NULL
  <2>1. SUFFICES ASSUME NEW a \in DOMAIN hdr, hdr'[a].type # HT_FREE, a # b
                 PROVE  hdr'[a].next = NULL
    BY <1>2, <1>3
  <2>2. ~ is_type(a, HT_FREE)
    BY <2>1, <1>2 DEF is_type
  <2>3. QED
    BY <2>1, <2>2, <1>11 DEF Sound, FreeListExact
<1>13. InUse' = InUse \cup {b}
  BY <1>1, <1>2, <1>7 DEF InUse
<1>14. QED
  BY <1>2, <1>3, <1>4, <1>6, <1>8, <1>9, <1>10, <1>11, <1>12, <1>13, PredicatesAsInv
  DEF Outcome, Takes

\* The rest of a split goes back to the list without meeting a neighbour: behind
\* it and before it there is a block in use.
LEMMA AllocSplit ==
  ASSUME Sound, NEW b \in FreeBlocks, NEW H, NEW K, NEW size \in Nat,
         Mem(H), DOMAIN H = DOMAIN hdr,
         Listed(H, K, FreeBlocks \ {b}), K \in Addr \cup {NULL},
         \A x \in DOMAIN hdr : H[x].size = hdr[x].size /\ H[x].type = hdr[x].type,
         \A x \in DOMAIN hdr : x \notin FreeBlocks \/ x = b => H[x] = hdr[x],
         size > 0, hdr[b].size - size > HEAP_HEADER_SIZE,
         NEW r, r = b + size, NEW S, S = SplitOff(size, b, H),
         NEW p \in DOMAIN S \cup {NULL}, IsInsertPoint(S, K, r, p),
         hdr' = [list_insert_ordered(S, K, r, p)
                   EXCEPT ![b] = init_element(size, HT_USED)],
         free_list' = list_insert_ordered_head(K, r, p)
  PROVE  Takes(b, size)
<1> DEFINE F == FreeBlocks
           F1 == F \ {b}
           l == After(S, K, p)
           M == Linked(S, K, r, p)
<1>1. /\ Mem(hdr) /\ Tiled(hdr) /\ Apart(hdr, F) /\ F \subseteq DOMAIN hdr
      /\ b \in DOMAIN hdr /\ b \in F
      /\ \A x \in DOMAIN hdr : /\ x \in Nat /\ x # NULL /\ x \in Addr
                               /\ hdr[x] \in Header
                               /\ hdr[x].size \in Nat /\ hdr[x].size > 0
  BY InvAsPredicates DEF Sound, FreeBlocks, Mem, Addr, NULL, Header
<1>2. /\ r \in Nat /\ r > b /\ r < b + hdr[b].size
      /\ b + hdr[b].size <= HeapSize
      /\ r \in Addr /\ r \notin DOMAIN hdr /\ r # NULL
  <2>1. b + hdr[b].size <= HeapSize
    BY <1>1 DEF Tiled, Addr
  <2>2. r \in Nat /\ r > b /\ r < b + hdr[b].size
    BY <1>1
  <2>3. r \notin DOMAIN hdr
    BY <2>2, <1>1 DEF Tiled
  <2>4. QED
    BY <2>1, <2>2, <2>3, <1>1 DEF Addr, NULL
<1>3. /\ DOMAIN S = DOMAIN hdr \cup {r}
      /\ S[r] = init_element(hdr[b].size - size, HT_FREE)
      /\ \A x \in DOMAIN hdr : S[x] = H[x]
      /\ S = [x \in DOMAIN hdr \cup {r} |-> S[x]]
  BY <1>2 DEF SplitOff
<1>4. /\ S[r].size = hdr[b].size - size /\ S[r].type = HT_FREE /\ S[r].next = NULL
      /\ S[r] \in Header
  <2>1. hdr[b].size - size \in 1 .. HeapSize
    BY <1>1, <1>2
  <2>2. QED
    BY <2>1, <1>3 DEF init_element, Header, HT_FREE
<1>5. Mem(S)
  <2>1. \A x \in DOMAIN hdr \cup {r} : S[x] \in Header
    BY <1>3, <1>4 DEF Mem
  <2>2. QED
    BY <2>1, <1>1, <1>2, <1>3 DEF Mem
<1>6. Listed(S, K, F1) /\ F1 \subseteq DOMAIN S
  BY <1>1, <1>3 DEF Listed
<1>7. p \in F1 \cup {NULL}
  <2>1. SUFFICES ASSUME p # NULL PROVE p \in F1
    OBVIOUS
  <2>2. OnList(S, K, p)
    BY <2>1 DEF IsInsertPoint
  <2>3. CASE p = K
    BY <2>1, <2>3, <1>6 DEF Listed
  <2>4. ASSUME NEW x \in DOMAIN S, S[x].next = p
        PROVE  p \in F1
    <3>1. CASE x \in F1
      BY <3>1, <2>1, <2>4, <1>6 DEF Listed
    <3>2. CASE x = r
      BY <3>2, <2>1, <2>4, <1>4
    <3>3. CASE x = b
      <4>1. hdr[b].next = p
        BY <3>3, <2>4, <1>1, <1>3
      <4>2. p \in F /\ p > b
        BY <4>1, <2>1, <1>1, InvAsPredicates DEF Sound, Listed
      <4>3. QED
        BY <4>2, <1>1
    <3>4. CASE x \in DOMAIN hdr \ F
      <4>1. S[x] = hdr[x] /\ hdr[x].next = NULL
        BY <3>4, <1>1, <1>3 DEF Sound, FreeListExact, FreeBlocks
      <4>2. QED
        BY <4>1, <2>1, <2>4
    <3>5. QED
      BY <3>1, <3>2, <3>3, <3>4, <1>3
  <2>5. QED
    BY <2>2, <2>3, <2>4 DEF OnList
<1>8. LinkResult(S, K, F1, r, p, free_list', l, M)
  <2> HIDE DEF F1, l, M
  <2>1. r \in DOMAIN S \ F1
    BY <1>1, <1>2, <1>3 DEF F1
  <2>2. l = After(S, K, p) /\ M = Linked(S, K, r, p)
    BY DEF l, M
  <2>3. QED
    BY <2>1, <2>2, <1>5, <1>6, <1>7, LinkAfter
<1> HIDE DEF l, M
<1>9. /\ Mem(M) /\ DOMAIN M = DOMAIN S
      /\ Listed(M, free_list', F1 \cup {r})
      /\ M[r].next = l
      /\ p # NULL => p < r /\ M[p].next = r
      /\ l # NULL => l \in F1
      /\ \A x \in DOMAIN S : M[x].size = S[x].size /\ M[x].type = S[x].type
      /\ \A x \in DOMAIN S : x \notin {r, p} => M[x] = S[x]
  BY <1>8 DEF LinkResult
<1>10. b + hdr[b].size \notin F
  BY <1>1 DEF Apart
<1>11. ASSUME NEW x \in F1 PROVE x + hdr[x].size # r
  <2>1. CASE x > b
    BY <2>1, <1>1, <1>2 DEF Tiled
  <2>2. CASE x < b
    BY <2>2, <1>1, <1>2 DEF Tiled
  <2>3. QED
    BY <2>1, <2>2, <1>1
<1>12. list_insert_ordered(S, K, r, p) = M
  <2>1. ~ Adjacent(M, r)
    <3>1. r + M[r].size = b + hdr[b].size
      <4>1. M[r].size = hdr[b].size - size
        BY <1>3, <1>4, <1>9
      <4>2. QED
        BY <4>1, <1>1
    <3>2. QED
      BY <3>1, <1>9, <1>10 DEF Adjacent
  <2>2. p # NULL => ~ Adjacent(M, p)
    <3>1. SUFFICES ASSUME p # NULL PROVE ~ Adjacent(M, p)
      OBVIOUS
    <3>2. p \in F1 /\ p \in DOMAIN hdr /\ p \in DOMAIN S
      BY <3>1, <1>1, <1>3, <1>7
    <3>3. M[p].size = hdr[p].size /\ M[p].next = r
      <4>1. M[p].size = S[p].size /\ M[p].next = r
        BY <3>1, <3>2, <1>9
      <4>2. S[p] = H[p] /\ H[p].size = hdr[p].size
        BY <3>2, <1>3
      <4>3. QED
        BY <4>1, <4>2
    <3>4. QED
      BY <3>2, <3>3, <1>11 DEF Adjacent
  <2>3. list_merge(M, r) = M /\ (p # NULL => list_merge(M, p) = M)
    BY <2>1, <2>2, MergeApart
  <2>4. QED
    BY <2>3 DEF list_insert_ordered, Linked, After, M, l
<1>13. /\ DOMAIN hdr' = DOMAIN hdr \cup {r}
       /\ hdr'[b] = init_element(size, HT_USED)
       /\ \A x \in DOMAIN hdr \cup {r} : x # b => hdr'[x] = M[x]
       /\ hdr' = [x \in DOMAIN hdr \cup {r} |-> hdr'[x]]
  <2>1. hdr' = [M EXCEPT ![b] = init_element(size, HT_USED)]
    BY <1>12
  <2>2. M = [x \in DOMAIN hdr \cup {r} |-> M[x]]
    BY <1>3, <1>9 DEF Mem
  <2>3. QED
    BY <2>1, <2>2, <1>1
<1>14. /\ hdr'[b].size = size /\ hdr'[b].type = HT_USED /\ hdr'[b].next = NULL
       /\ hdr'[b] \in Header
  <2>1. size \in 1 .. HeapSize
    BY <1>1, <1>2
  <2>2. QED
    BY <2>1, <1>13 DEF init_element, Header, HT_USED
<1>15. Mem(hdr)'
  <2>1. \A x \in DOMAIN hdr \cup {r} : hdr'[x] \in Header
    BY <1>3, <1>9, <1>13, <1>14 DEF Mem
  <2>2. QED
    BY <2>1, <1>1, <1>2, <1>13 DEF Mem
<1>16. /\ \A x \in DOMAIN hdr : x # b => /\ hdr'[x].size = hdr[x].size
                                        /\ hdr'[x].type = hdr[x].type
       /\ hdr'[r].size = hdr[b].size - size
       /\ hdr'[r].type = HT_FREE
  <2>1. ASSUME NEW x \in DOMAIN hdr, x # b
        PROVE  hdr'[x].size = hdr[x].size /\ hdr'[x].type = hdr[x].type
    <3>1. hdr'[x] = M[x] /\ M[x].size = S[x].size /\ M[x].type = S[x].type
      BY <2>1, <1>3, <1>9, <1>13
    <3>2. S[x] = H[x]
      BY <1>3
    <3>3. QED
      BY <3>1, <3>2
  <2>2. hdr'[r] = M[r] /\ M[r].size = S[r].size /\ M[r].type = S[r].type
    <3>1. r # b /\ r \in DOMAIN S
      BY <1>1, <1>2, <1>3
    <3>2. M[r].size = S[r].size /\ M[r].type = S[r].type
      BY <3>1, <1>9
    <3>3. hdr'[r] = M[r]
      BY <3>1, <1>13
    <3>4. QED
      BY <3>2, <3>3
  <2>3. QED
    BY <2>1, <2>2, <1>4
<1>17. Tiled(hdr)'
  <2>1. 0 \in DOMAIN hdr'
    BY <1>1, <1>13 DEF Tiled
  <2>2. ASSUME NEW a \in DOMAIN hdr'
        PROVE  /\ a + hdr'[a].size \in DOMAIN hdr' \cup {HeapSize}
               /\ \A c \in DOMAIN hdr' : c > a => c >= a + hdr'[a].size
    <3>1. CASE a = b
      BY <3>1, <1>1, <1>2, <1>13, <1>14 DEF Tiled
    <3>2. CASE a = r
      <4>1. a + hdr'[a].size = b + hdr[b].size
        BY <3>2, <1>1, <1>2, <1>16
      <4>2. QED
        BY <3>2, <4>1, <1>1, <1>2, <1>13 DEF Tiled
    <3>3. CASE a \in DOMAIN hdr /\ a # b
      <4>1. hdr'[a].size = hdr[a].size
        BY <3>3, <1>16
      <4>2. r > a => r >= a + hdr[a].size
        <5>1. CASE a < b
          BY <5>1, <3>3, <1>1, <1>2 DEF Tiled
        <5>2. CASE a > b
          BY <5>2, <3>3, <1>1, <1>2 DEF Tiled
        <5>3. QED
          BY <5>1, <5>2, <3>3, <1>1
      <4>3. QED
        BY <3>3, <4>1, <4>2, <1>1, <1>13 DEF Tiled
    <3>4. QED
      BY <3>1, <3>2, <3>3, <1>13
  <2>3. QED
    BY <2>1, <2>2 DEF Tiled
<1>18. FreeBlocks' = F1 \cup {r}
  BY <1>1, <1>2, <1>13, <1>14, <1>16 DEF FreeBlocks, is_type, HT_USED, HT_FREE
<1>19. Listed(hdr, free_list, FreeBlocks)'
  <2>1. \A x \in F1 \cup {r} : hdr'[x] = M[x]
    BY <1>1, <1>2, <1>13
  <2>2. Listed(hdr', free_list', F1 \cup {r})
    BY <2>1, <1>1, <1>9, <1>13 DEF Listed
  <2> HIDE DEF F1
  <2>3. QED
    BY <2>2, <1>18 DEF Listed
<1>20. Apart(hdr, FreeBlocks)'
  <2>1. ASSUME NEW x \in F1 PROVE x + hdr'[x].size \notin F1 \cup {r}
    BY <2>1, <1>1, <1>11, <1>16 DEF Apart
  <2>2. r + hdr'[r].size \notin F1 \cup {r}
    <3>1. r + hdr'[r].size = b + hdr[b].size
      BY <1>1, <1>2, <1>16
    <3>2. QED
      BY <3>1, <1>2, <1>10, <1>1
  <2>3. QED
    BY <2>1, <2>2, <1>18 DEF Apart
<1>21. free_list' \in Addr \cup {NULL}
  BY <1>9, <1>1, <1>2 DEF Listed
<1>22. \A x \in DOMAIN hdr : ~ is_type(x, HT_FREE) => hdr'[x] = hdr[x]
  <2>1. SUFFICES ASSUME NEW x \in DOMAIN hdr, x \notin F PROVE hdr'[x] = hdr[x]
    BY DEF FreeBlocks
  <2>2. x # b /\ x # r /\ x # p
    BY <2>1, <1>1, <1>2, <1>7
  <2>3. QED
    <3>1. hdr'[x] = M[x] /\ M[x] = S[x]
      BY <2>2, <1>3, <1>9, <1>13
    <3>2. S[x] = H[x] /\ H[x] = hdr[x]
      BY <2>1, <1>3
    <3>3. QED
      BY <3>1, <3>2
<1>23. \A a \in DOMAIN hdr' : hdr'[a].type # HT_FREE => hdr'[a].next = NULL
  <2>1. SUFFICES ASSUME NEW a \in DOMAIN hdr, a # b, hdr'[a].type # HT_FREE
                 PROVE  hdr'[a].next = NULL
    BY <1>13, <1>14, <1>16
  <2>2. ~ is_type(a, HT_FREE)
    BY <2>1, <1>16 DEF is_type
  <2>3. QED
    BY <2>1, <2>2, <1>22 DEF Sound, FreeListExact
<1>24. InUse' = InUse \cup {b}
  BY <1>1, <1>2, <1>13, <1>18 DEF InUse
<1>25. QED
  BY <1>13, <1>14, <1>15, <1>17, <1>19, <1>20, <1>21, <1>22, <1>23, <1>24, PredicatesAsInv
  DEF Outcome, Takes

\* The answer to a request for n units: one block that was free, large enough,
\* and with no more beside the payload than a header's room.
HandsOut(n) ==
  \E b \in FreeBlocks :
    /\ InUse' = InUse \cup {b}
    /\ hdr'[b].size \in n + HEAP_HEADER_SIZE .. n + 2 * HEAP_HEADER_SIZE
    /\ hdr'[b].size <= hdr[b].size
    /\ last' = AllocCall(n, b)

\* heap_alloc leaves the heap sound and no block that was in use changed.
LEMMA HeapAlloc ==
  ASSUME Sound, NEW n \in Nat, heap_alloc(n)
  PROVE  /\ Outcome
         /\ \A x \in DOMAIN hdr : ~ is_type(x, HT_FREE) =>
              x \in DOMAIN hdr' /\ hdr'[x] = hdr[x]
         /\ HandsOut(n)
<1> DEFINE size == n + HEAP_HEADER_SIZE
<1>1. PICK b \in FreeCells, prev \in FreeCells \cup {NULL} :
        /\ IsBestFit(size, b, prev)
        /\ LET H == list_remove(hdr, free_list, prev, b)
               L == list_remove_head(hdr, free_list, b)
           IN  IF Splits(hdr[b].size - size)
                 THEN LET r == b + size
                          S == SplitOff(size, b, H)
                      IN  \E p \in DOMAIN S \cup {NULL} :
                            /\ IsInsertPoint(S, L, r, p)
                            /\ hdr' = [list_insert_ordered(S, L, r, p)
                                         EXCEPT ![b] = init_element(size, HT_USED)]
                            /\ free_list' = list_insert_ordered_head(L, r, p)
                 ELSE /\ hdr' = TakeWhole(b, H)
                      /\ free_list' = L
        /\ last' = AllocCall(n, b)
  BY DEF heap_alloc
<1> DEFINE H == list_remove(hdr, free_list, prev, b)
           L == list_remove_head(hdr, free_list, b)
<1>2. b = After(hdr, free_list, prev)
  BY <1>1 DEF IsBestFit
<1>3. /\ b \in FreeBlocks /\ b \in Addr
      /\ hdr[b].size \in Nat /\ hdr[b].size >= size
  <2>1. b \in FreeBlocks /\ b \in Addr
    BY OnListIsFree DEF FreeCells, Sound, TypeOK
  <2>2. QED
    BY <2>1, <1>1 DEF IsBestFit, FreeBlocks, Sound, TypeOK, Header
<1>4. /\ Mem(H) /\ DOMAIN H = DOMAIN hdr
      /\ Listed(H, L, FreeBlocks \ {b})
      /\ \A x \in DOMAIN hdr : H[x].size = hdr[x].size /\ H[x].type = hdr[x].type
      /\ \A x \in DOMAIN hdr : x \notin FreeBlocks \/ x = b => H[x] = hdr[x]
  <2> HIDE DEF H, L
  <2>1. H = list_remove(hdr, free_list, prev, b) /\ L = list_remove_head(hdr, free_list, b)
    BY DEF H, L
  <2>2. QED
    BY <2>1, <1>2, Remove
<1>5. L \in Addr \cup {NULL}
  <2> HIDE DEF H, L
  <2>1. QED
    BY <1>4 DEF Listed, Mem
<1>6. CASE Splits(hdr[b].size - size)
  <2> DEFINE r == b + size
             S == SplitOff(size, b, H)
  <2>1. PICK p \in DOMAIN S \cup {NULL} :
          /\ IsInsertPoint(S, L, r, p)
          /\ hdr' = [list_insert_ordered(S, L, r, p)
                       EXCEPT ![b] = init_element(size, HT_USED)]
          /\ free_list' = list_insert_ordered_head(L, r, p)
    BY <1>1, <1>6
  <2>2. size \in Nat /\ size > 0
    OBVIOUS
  <2>3. r = b + size /\ S = SplitOff(size, b, H)
    OBVIOUS
  <2> HIDE DEF H, L, S, r, size
  <2>4. Takes(b, size)
    <3>1. hdr[b].size - size > HEAP_HEADER_SIZE
      BY <1>6 DEF Splits
    <3>2. QED
      BY <1>3, <1>4, <1>5, <2>1, <2>2, <2>3, <3>1, AllocSplit
  <2>5. HandsOut(n)
    BY <2>4, <1>1, <1>3 DEF HandsOut, Takes, size
  <2>6. QED
    BY <2>4, <2>5 DEF Takes
<1>7. CASE ~ Splits(hdr[b].size - size)
  <2>1. hdr' = TakeWhole(b, H) /\ free_list' = L
    BY <1>1, <1>7
  <2> HIDE DEF H, L, size
  <2>2. Takes(b, hdr[b].size)
    BY <1>3, <1>4, <2>1, AllocWhole
  <2>3. HandsOut(n)
    BY <2>2, <1>1, <1>3, <1>7 DEF HandsOut, Takes, Splits, size
  <2>4. QED
    BY <2>2, <2>3 DEF Takes
<1>8. QED
  BY <1>6, <1>7
-----------------------------------------------------------------------------
(* The invariant, one lemma per action                                     *)

\* No block in use other than those in X changes.
Untouched(X) ==
  \A x \in DOMAIN hdr : ~ is_type(x, HT_FREE) /\ x \notin X =>
    x \in DOMAIN hdr' /\ hdr'[x] = hdr[x]

LEMMA InitIInv == Init => IInv
<1>1. SUFFICES ASSUME Init PROVE IInv
  OBVIOUS
<1> USE DEF Init, heap_init, init_element, NULL, HT_FREE, is_type
<1>2. TypeOK
  BY <1>1 DEF TypeOK, Addr, Header, NoCall
<1>3. Tiling /\ FreeListExact /\ Coalesced
  BY <1>1 DEF Tiling, FreeListExact, Coalesced
<1>4. SweepOnTrack /\ SweptClean
  BY <1>1 DEF SweepOnTrack, SweptClean
<1>5. QED
  BY <1>2, <1>3, <1>4 DEF IInv

\* While no sweep runs its two invariants say nothing.
LEMMA IdleInv ==
  ASSUME Outcome, TypeOK, Idle,
         last' \in [op : {"alloc", "other"}, n : Nat, ret : Addr \cup {NULL}]
  PROVE  IInv'
<1>1. pc' = "idle"
  BY DEF Idle
<1>2. TypeOK'
  BY DEF Outcome, Mem, TypeOK, Idle
<1>3. QED
  BY <1>1, <1>2 DEF Outcome, IInv, SweepOnTrack, SweptClean

LEMMA AllocInv ==
  ASSUME IInv, NEW n \in Requests, Alloc(n)
  PROVE  IInv' /\ Untouched({}) /\ HandsOut(n)
<1>1. Idle /\ heap_alloc(n) /\ Sound /\ n \in Nat
  BY DEF Alloc, IInv, Sound
<1>2. /\ Outcome
      /\ \A x \in DOMAIN hdr : ~ is_type(x, HT_FREE) =>
           x \in DOMAIN hdr' /\ hdr'[x] = hdr[x]
      /\ HandsOut(n)
  BY <1>1, HeapAlloc
<1>3. last' \in [op : {"alloc", "other"}, n : Nat, ret : Addr \cup {NULL}]
  BY <1>1, <1>2 DEF HandsOut, FreeBlocks, Sound, TypeOK, AllocCall
<1>4. QED
  BY <1>1, <1>2, <1>3, IdleInv DEF IInv, Untouched

LEMMA AllocFailsInv ==
  ASSUME IInv, NEW n \in Requests, AllocFails(n)
  PROVE  IInv' /\ Untouched({})
<1> USE DEF AllocFails, heap_alloc_fails, Idle
<1>1. TypeOK'
  BY DEF IInv, TypeOK, AllocCall
<1>2. Tiling' /\ FreeListExact' /\ Coalesced'
  BY DEF IInv, Tiling, FreeListExact, Coalesced, is_type
<1>3. SweepOnTrack' /\ SweptClean'
  BY DEF IInv, SweepOnTrack, SweptClean
<1>4. QED
  BY <1>1, <1>2, <1>3 DEF IInv, Untouched

LEMMA FreeInv ==
  ASSUME IInv, NEW h \in DOMAIN hdr, Free(h)
  PROVE  IInv' /\ Untouched({h})
<1>1. Idle /\ ~ is_type(h, HT_FREE) /\ heap_free(h) /\ last' = NoCall /\ Sound
  BY DEF Free, IInv, Sound
<1>2. PICK p \in FreeBlocks \cup {NULL} :
        InsertResult(set_type(hdr, h, HT_FREE), FreeBlocks, h, p, free_list', hdr')
  BY <1>1, HeapFree
<1>3. /\ Outcome
      /\ \A x \in DOMAIN hdr : ~ is_type(x, HT_FREE) /\ x # h =>
           x \in DOMAIN hdr' /\ hdr'[x] = hdr[x]
  BY <1>1, <1>2, HeapFreeSound DEF Outcome
<1>4. last' \in [op : {"alloc", "other"}, n : Nat, ret : Addr \cup {NULL}]
  BY <1>1 DEF NoCall
<1>5. QED
  BY <1>1, <1>3, <1>4, IdleInv DEF IInv, Untouched

\* Writing a mark or a type that is not free changes no link and no size.
LEMMA WriteInv ==
  ASSUME IInv, Idle, NEW h \in DOMAIN hdr, ~ is_type(h, HT_FREE),
         DOMAIN hdr' = DOMAIN hdr,
         hdr' = [x \in DOMAIN hdr |-> hdr'[x]],
         \A x \in DOMAIN hdr : x # h => hdr'[x] = hdr[x],
         hdr'[h] \in Header, hdr'[h].type # HT_FREE,
         hdr'[h].next = hdr[h].next, hdr'[h].size = hdr[h].size,
         UNCHANGED <<free_list, last>>
  PROVE  IInv' /\ Untouched({h})
<1>1. /\ Mem(hdr) /\ Tiled(hdr) /\ Listed(hdr, free_list, FreeBlocks)
      /\ Apart(hdr, FreeBlocks) /\ free_list \in Addr \cup {NULL}
  BY InvAsPredicates DEF IInv, TypeOK
<1>2. \A x \in DOMAIN hdr : hdr'[x].size = hdr[x].size /\ hdr'[x].next = hdr[x].next
  OBVIOUS
<1>3. Mem(hdr)'
  BY <1>1 DEF Mem
<1>4. Tiled(hdr)'
  BY <1>1, <1>2 DEF Tiled
<1>5. FreeBlocks' = FreeBlocks
  BY DEF FreeBlocks, is_type
<1>6. Listed(hdr, free_list, FreeBlocks)'
  BY <1>1, <1>2, <1>5 DEF Listed
<1>7. Apart(hdr, FreeBlocks)'
  <2>1. FreeBlocks \subseteq DOMAIN hdr
    BY DEF FreeBlocks
  <2>2. QED
    BY <1>1, <1>2, <1>5, <2>1 DEF Apart
<1>8. \A a \in DOMAIN hdr' : hdr'[a].type # HT_FREE => hdr'[a].next = NULL
  BY <1>2 DEF IInv, FreeListExact, is_type
<1>9. Outcome
  BY <1>1, <1>3, <1>4, <1>6, <1>7, <1>8, PredicatesAsInv DEF Outcome
<1>10. last' \in [op : {"alloc", "other"}, n : Nat, ret : Addr \cup {NULL}]
  BY DEF IInv, TypeOK
<1>11. QED
  BY <1>9, <1>10, IdleInv DEF IInv, Untouched

LEMMA MarkInv ==
  ASSUME IInv, NEW h \in DOMAIN hdr, NEW m \in Marks, Mark(h, m)
  PROVE  IInv' /\ Untouched({h})
<1>1. Idle /\ ~ is_type(h, HT_FREE) /\ hdr' = [hdr EXCEPT ![h].mark = m]
      /\ UNCHANGED <<free_list, last>>
  BY DEF Mark
<1>2. hdr[h] \in Header /\ hdr \in [DOMAIN hdr -> Header]
  BY DEF IInv, TypeOK
<1>3. /\ DOMAIN hdr' = DOMAIN hdr
      /\ hdr' = [x \in DOMAIN hdr |-> hdr'[x]]
      /\ \A x \in DOMAIN hdr : x # h => hdr'[x] = hdr[x]
      /\ hdr'[h] = [hdr[h] EXCEPT !.mark = m]
  BY <1>1, <1>2
<1>4. /\ hdr'[h] \in Header /\ hdr'[h].type # HT_FREE
      /\ hdr'[h].next = hdr[h].next /\ hdr'[h].size = hdr[h].size
  BY <1>1, <1>2, <1>3 DEF Header, is_type
<1>5. QED
  BY <1>1, <1>3, <1>4, WriteInv

LEMMA ProtectInv ==
  ASSUME IInv, NEW h \in DOMAIN hdr, NEW protected \in BOOLEAN,
         heapProtect(h, protected)
  PROVE  IInv' /\ Untouched({h})
<1> DEFINE t == IF protected THEN HT_PROTECTED ELSE HT_USED
<1>1. Idle /\ ~ is_type(h, HT_FREE) /\ hdr' = [hdr EXCEPT ![h].type = t]
      /\ UNCHANGED <<free_list, last>>
  BY DEF heapProtect, set_type
<1>2. hdr[h] \in Header /\ hdr \in [DOMAIN hdr -> Header]
  BY DEF IInv, TypeOK
<1>3. t \in {HT_PROTECTED, HT_USED} /\ t # HT_FREE
  BY DEF HT_PROTECTED, HT_USED, HT_FREE
<1> HIDE DEF t
<1>4. /\ DOMAIN hdr' = DOMAIN hdr
      /\ hdr' = [x \in DOMAIN hdr |-> hdr'[x]]
      /\ \A x \in DOMAIN hdr : x # h => hdr'[x] = hdr[x]
      /\ hdr'[h] = [hdr[h] EXCEPT !.type = t]
  BY <1>1, <1>2
<1>5. /\ hdr'[h] \in Header /\ hdr'[h].type # HT_FREE
      /\ hdr'[h].next = hdr[h].next /\ hdr'[h].size = hdr[h].size
  BY <1>2, <1>3, <1>4 DEF Header
<1>6. QED
  BY <1>1, <1>4, <1>5, WriteInv
LEMMA SweepStartInv ==
  ASSUME IInv, NEW m \in Marks, SweepStart(m)
  PROVE  IInv' /\ Untouched({})
<1> USE DEF SweepStart
<1>1. TypeOK'
  BY DEF IInv, TypeOK, NULL
<1>2. Tiling' /\ FreeListExact' /\ Coalesced'
  BY DEF IInv, Tiling, FreeListExact, Coalesced, is_type
<1>3. SweepOnTrack' /\ SweptClean'
  <2>1. \A a \in DOMAIN hdr : a \in Nat /\ hdr[a].size \in Nat /\ hdr[a].size > 0
    BY DEF IInv, TypeOK, Addr, Header
  <2>2. QED
    BY <2>1 DEF IInv, SweepOnTrack, SweptClean, Tiling, NULL
<1>4. QED
  BY <1>1, <1>2, <1>3 DEF IInv, Untouched

\* What the three steps of the loop share: where the visited block ends.
LEMMA BlockAtOffset ==
  ASSUME IInv, Sweeping
  PROVE  /\ offset \in DOMAIN hdr /\ offset \in Nat
         /\ \A a \in DOMAIN hdr : /\ a \in Nat /\ a # NULL /\ a \in Addr
                                  /\ hdr[a].size \in Nat /\ hdr[a].size > 0
         /\ offset + hdr[offset].size \in DOMAIN hdr \cup {HeapSize}
         /\ \A a \in DOMAIN hdr : a < offset + hdr[offset].size => a <= offset
         /\ offset + hdr[offset].size \in 0 .. HeapSize
<1>1. offset \in DOMAIN hdr
  BY DEF IInv, TypeOK, Sweeping, SweepOnTrack
<1>2. \A a \in DOMAIN hdr : /\ a \in Nat /\ a # NULL /\ a \in Addr
                            /\ hdr[a].size \in Nat /\ hdr[a].size > 0
  BY DEF IInv, TypeOK, Addr, Header, NULL
<1>3. /\ offset + hdr[offset].size \in DOMAIN hdr \cup {HeapSize}
      /\ \A a \in DOMAIN hdr : a < offset + hdr[offset].size => a <= offset
  BY <1>1, <1>2 DEF IInv, Tiling
<1>4. QED
  BY <1>1, <1>2, <1>3 DEF Addr

LEMMA SweepFreeInv ==
  ASSUME IInv, SweepFree
  PROVE  IInv' /\ Untouched({})
<1> USE DEF SweepFree
<1>1. Sweeping
  OBVIOUS
<1>2. TypeOK'
  BY <1>1, BlockAtOffset DEF IInv, TypeOK, Sweeping
<1>3. Tiling' /\ FreeListExact' /\ Coalesced'
  BY DEF IInv, Tiling, FreeListExact, Coalesced, is_type
<1>4. SweepOnTrack'
  BY <1>1, BlockAtOffset DEF SweepOnTrack, is_type
<1>5. SweptClean'
  <2>1. SUFFICES ASSUME NEW a \in DOMAIN hdr, is_type(a, HT_USED), a < offset'
                 PROVE  hdr[a].mark = markValue
    BY DEF SweptClean, Sweeping, is_type
  <2>2. a <= offset /\ a # offset
    BY <1>1, <2>1, BlockAtOffset DEF is_type, HT_USED, HT_FREE
  <2>3. a < offset /\ pc = "sweep"
    BY <1>1, <2>2, BlockAtOffset DEF Sweeping
  <2>4. QED
    BY <2>1, <2>3 DEF IInv, SweptClean
<1>6. QED
  BY <1>2, <1>3, <1>4, <1>5 DEF IInv, Untouched

LEMMA SweepKeepInv ==
  ASSUME IInv, SweepKeep
  PROVE  IInv' /\ Untouched({})
<1> USE DEF SweepKeep
<1>1. Sweeping
  OBVIOUS
<1>2. TypeOK'
  BY <1>1, BlockAtOffset DEF IInv, TypeOK, Sweeping
<1>3. Tiling' /\ FreeListExact' /\ Coalesced'
  BY DEF IInv, Tiling, FreeListExact, Coalesced, is_type
<1>4. SweepOnTrack'
  <2>1. offset' \in DOMAIN hdr \cup {HeapSize}
    BY <1>1, BlockAtOffset
  <2>2. ASSUME NEW a \in DOMAIN hdr, is_type(a, HT_FREE), a + hdr[a].size = offset'
        PROVE  FALSE
    <3>1. a < offset'
      BY <2>2, <1>1, BlockAtOffset
    <3>2. a <= offset /\ a # offset
      BY <2>2, <3>1, <1>1, BlockAtOffset DEF is_type, HT_USED, HT_FREE, HT_PROTECTED
    <3>3. offset >= a + hdr[a].size
      BY <3>2, <1>1, BlockAtOffset DEF IInv, Tiling
    <3>4. QED
      BY <3>3, <2>2, <1>1, BlockAtOffset
  <2>3. QED
    BY <2>1, <2>2 DEF SweepOnTrack, is_type, NULL
<1>5. SweptClean'
  <2>1. SUFFICES ASSUME NEW a \in DOMAIN hdr, is_type(a, HT_USED), a < offset'
                 PROVE  hdr[a].mark = markValue
    BY DEF SweptClean, Sweeping, is_type
  <2>2. a <= offset
    BY <1>1, <2>1, BlockAtOffset
  <2>3. CASE a = offset
    BY <2>1, <2>3 DEF is_type, HT_USED, HT_PROTECTED
  <2>4. CASE a # offset
    <3>1. a < offset /\ pc = "sweep"
      BY <1>1, <2>2, <2>4, BlockAtOffset DEF Sweeping
    <3>2. QED
      BY <2>1, <3>1 DEF IInv, SweptClean
  <2>5. QED
    BY <2>3, <2>4
<1>6. QED
  BY <1>2, <1>3, <1>4, <1>5 DEF IInv, Untouched

\* The block collected ends up at the end of previous, or heads a free block of
\* its own; in both cases the sweep goes on behind the merged block.
LEMMA SweepCollectInv ==
  ASSUME IInv, SweepCollect
  PROVE  IInv' /\ Untouched({offset})
<1>1. /\ Sweeping /\ Sound
      /\ is_type(offset, HT_USED) /\ ~ is_type(offset, HT_FREE)
      /\ heap_free(offset) /\ last' = NoCall
  BY DEF SweepCollect, IInv, Sound, is_type, HT_USED, HT_FREE
<1>2. /\ offset \in DOMAIN hdr /\ offset \in Nat
      /\ \A a \in DOMAIN hdr : /\ a \in Nat /\ a # NULL /\ a \in Addr
                               /\ hdr[a].size \in Nat /\ hdr[a].size > 0
  BY <1>1, BlockAtOffset
<1>3. PICK p \in FreeBlocks \cup {NULL} :
        /\ InsertResult(set_type(hdr, offset, HT_FREE), FreeBlocks, offset, p,
                        free_list', hdr')
        /\ p # NULL => offset > p
        /\ After(hdr, free_list, p) # NULL => offset < After(hdr, free_list, p)
  BY <1>1, <1>2, HeapFree
<1>4. /\ Tiling' /\ FreeListExact' /\ Coalesced'
      /\ Mem(hdr)' /\ free_list' \in Addr \cup {NULL}
      /\ \A x \in DOMAIN hdr : ~ is_type(x, HT_FREE) /\ x # offset =>
           x \in DOMAIN hdr' /\ hdr'[x] = hdr[x]
      /\ FreeBlocks' = (FreeBlocks \cup {offset}) \cap DOMAIN hdr'
      /\ DOMAIN hdr' \subseteq DOMAIN hdr
  BY <1>1, <1>2, <1>3, HeapFreeSound
<1>5. Listed(hdr, free_list, FreeBlocks)
  BY <1>1, InvAsPredicates DEF Sound
<1>6. \A x \in FreeBlocks : x # offset /\ set_type(hdr, offset, HT_FREE)[x] = hdr[x]
  BY <1>1 DEF FreeBlocks, set_type
<1>7. IF p # NULL /\ p + hdr[p].size = offset
        THEN p \in DOMAIN hdr' ELSE offset \in DOMAIN hdr'
  BY <1>3, <1>6 DEF InsertResult
<1>8. pc = "sweep" /\ pc' = "sweep" /\ markValue' = markValue
  BY <1>1 DEF Sweeping
<1> DEFINE X == IF previous # NULL THEN previous ELSE offset
<1>9. /\ X \in DOMAIN hdr' /\ X \in FreeBlocks'
      /\ previous' = X /\ offset' = X + hdr'[X].size /\ X <= offset
  <2>1. CASE previous # NULL
    <3>1. /\ previous \in FreeBlocks /\ previous \in DOMAIN hdr
          /\ previous + hdr[previous].size = offset /\ previous < offset
      BY <2>1, <1>2, <1>8 DEF IInv, SweepOnTrack, FreeBlocks
    <3>2. p = previous
      <4>1. CASE p = NULL
        BY <4>1, <3>1, <1>2, <1>3, <1>5 DEF Listed, After
      <4>2. CASE p # NULL /\ p < previous
        <5>1. p \in FreeBlocks /\ hdr[p].next # NULL /\ hdr[p].next <= previous
          BY <4>2, <3>1, <1>5 DEF Listed
        <5>2. hdr[p].next \in Nat /\ offset < hdr[p].next
          BY <4>2, <5>1, <1>2, <1>3, <1>5 DEF Listed, After
        <5>3. QED
          BY <5>1, <5>2, <3>1, <1>2
      <4>3. CASE p # NULL /\ p > previous
        <5>1. p \in DOMAIN hdr
          BY <4>3 DEF FreeBlocks
        <5>2. p >= offset
          BY <5>1, <4>3, <3>1 DEF IInv, Tiling
        <5>3. QED
          BY <5>1, <5>2, <4>3, <1>2, <1>3
      <4>4. p = NULL \/ p \in Nat
        BY <1>2 DEF FreeBlocks
      <4>5. QED
        BY <4>1, <4>2, <4>3, <4>4, <3>1, <1>2
    <3>3. previous \in DOMAIN hdr'
      BY <2>1, <3>1, <3>2, <1>7
    <3>4. hdr'[previous].size \in Nat
      BY <3>3, <1>4 DEF Mem, Header
    <3>5. offset' = offset + (hdr'[previous].size - hdr[previous].size)
          /\ previous' = previous
      BY <2>1 DEF SweepCollect
    <3>6. offset' = previous + hdr'[previous].size
      BY <3>1, <3>4, <3>5, <1>2
    <3>7. QED
      BY <2>1, <3>1, <3>3, <3>5, <3>6, <1>2, <1>4
  <2>2. CASE previous = NULL
    <3>1. p # NULL => p + hdr[p].size # offset
      BY <2>2, <1>8 DEF IInv, SweepOnTrack, FreeBlocks
    <3>2. offset \in DOMAIN hdr'
      BY <3>1, <1>7
    <3>3. QED
      BY <2>2, <3>2, <1>2, <1>4 DEF SweepCollect
  <2>3. QED
    BY <2>1, <2>2
<1> HIDE DEF X
<1>10. /\ X \in Nat /\ X # NULL /\ X \in Addr
       /\ X + hdr'[X].size \in DOMAIN hdr' \cup {HeapSize}
       /\ \A b \in DOMAIN hdr' : b > X => b >= X + hdr'[X].size
       /\ X + hdr'[X].size \in 0 .. HeapSize
  <2>1. X \in Nat /\ X # NULL /\ X \in Addr
    BY <1>2, <1>4, <1>9
  <2>2. X + hdr'[X].size \in DOMAIN hdr' \cup {HeapSize}
        /\ \A b \in DOMAIN hdr' : b > X => b >= X + hdr'[X].size
    BY <1>4, <1>9 DEF Tiling
  <2>3. QED
    BY <2>1, <2>2, <1>4 DEF Mem, Addr
<1>11. TypeOK'
  BY <1>1, <1>4, <1>8, <1>9, <1>10 DEF IInv, TypeOK, Mem, NoCall
<1>12. SweepOnTrack'
  BY <1>9, <1>10 DEF SweepOnTrack, FreeBlocks
<1>13. SweptClean'
  <2>1. SUFFICES ASSUME NEW a \in DOMAIN hdr', hdr'[a].type = HT_USED, a < offset'
                 PROVE  hdr'[a].mark = markValue
    BY <1>8 DEF SweptClean, is_type
  <2>2. a \notin FreeBlocks'
    BY <2>1 DEF FreeBlocks, is_type, HT_USED, HT_FREE
  <2>3. a \in DOMAIN hdr /\ a \notin FreeBlocks /\ a # offset
    BY <2>1, <2>2, <1>4
  <2>4. hdr'[a] = hdr[a]
    BY <2>3, <1>4 DEF FreeBlocks
  <2>5. a <= X /\ a # X
    BY <2>1, <2>2, <2>3, <1>2, <1>9, <1>10
  <2>6. a < offset
    BY <2>3, <2>5, <1>2, <1>9, <1>10
  <2>7. QED
    BY <2>1, <2>3, <2>4, <2>6, <1>8 DEF IInv, SweptClean, is_type
<1>14. QED
  BY <1>4, <1>11, <1>12, <1>13 DEF IInv, Untouched

LEMMA SweepEndInv ==
  ASSUME IInv, SweepEnd
  PROVE  IInv' /\ Untouched({})
<1> USE DEF SweepEnd
<1>1. TypeOK'
  BY DEF IInv, TypeOK, NULL
<1>2. Tiling' /\ FreeListExact' /\ Coalesced'
  BY DEF IInv, Tiling, FreeListExact, Coalesced, is_type
<1>3. SweepOnTrack' /\ SweptClean'
  BY DEF SweepOnTrack, SweptClean
<1>4. QED
  BY <1>1, <1>2, <1>3 DEF IInv, Untouched

LEMMA StutterInv ==
  ASSUME IInv, UNCHANGED vars
  PROVE  IInv' /\ Untouched({})
BY DEF vars, IInv, TypeOK, Tiling, FreeListExact, Coalesced, SweepOnTrack,
       SweptClean, is_type, Untouched, Mem

LEMMA StepInv == ASSUME IInv, [Next]_vars PROVE IInv'
<1>1. CASE UNCHANGED vars
  BY <1>1, StutterInv
<1>2. CASE \E n \in Requests : Alloc(n) \/ AllocFails(n)
  BY <1>2, AllocInv, AllocFailsInv
<1>3. CASE \E h \in DOMAIN hdr : \/ Free(h)
                                 \/ \E m \in Marks : Mark(h, m)
                                 \/ \E protected \in BOOLEAN : heapProtect(h, protected)
  BY <1>3, FreeInv, MarkInv, ProtectInv
<1>4. CASE \E m \in Marks : SweepStart(m)
  BY <1>4, SweepStartInv
<1>5. CASE SweepStep
  BY <1>5, SweepFreeInv, SweepCollectInv, SweepKeepInv, SweepEndInv DEF SweepStep
<1>6. QED
  BY <1>1, <1>2, <1>3, <1>4, <1>5 DEF Next

-----------------------------------------------------------------------------
\* The heap's inductive invariant holds for every heap size, header size and
\* set of requests and marks.
THEOREM Invariance == Spec => []IInv
BY InitIInv, StepInv, PTL DEF Spec

\* heaplist.c:84-142, what heap_validate tests: the headers tile the heap.
THEOREM HeapIsTiled == Spec => []Tiling
<1>1. IInv => Tiling
  BY DEF IInv
<1>2. QED
  BY <1>1, Invariance, PTL

\* The free list is exactly the free blocks, in order, and holds no two
\* neighbours (list_insert_ordered, list_merge, list_remove).
THEOREM FreeListIsExact == Spec => [](FreeListExact /\ Coalesced)
<1>1. IInv => FreeListExact /\ Coalesced
  BY DEF IInv
<1>2. QED
  BY <1>1, Invariance, PTL

\* heap_sweep visits headers only and leaves no unmarked block behind it.
THEOREM SweepIsOnTrack == Spec => [](SweepOnTrack /\ SweptClean)
<1>1. IInv => SweepOnTrack /\ SweptClean
  BY DEF IInv
<1>2. QED
  BY <1>1, Invariance, PTL

\* Every variable keeps its type.
THEOREM TypeCorrect == Spec => []TypeOK
<1>1. IInv => TypeOK
  BY DEF IInv
<1>2. QED
  BY <1>1, Invariance, PTL

LEMMA UntouchedKept ==
  ASSUME Untouched({}) PROVE InUseKept
BY DEF Untouched, InUseKept

LEMMA UntouchedByOthers ==
  ASSUME NEW h, Untouched({h}),
         \/ Free(h) \/ (\E m \in Marks : Mark(h, m))
         \/ (\E protected \in BOOLEAN : heapProtect(h, protected))
  PROVE  InUseKept
<1> HIDE DEF Free, Mark, heapProtect
<1>1. QED
  BY DEF Untouched, InUseKept

LEMMA StepKeepsInUse == ASSUME IInv, [Next]_vars PROVE InUseKept
<1>1. CASE UNCHANGED vars
  BY <1>1, StutterInv, UntouchedKept
<1>2. CASE \E n \in Requests : Alloc(n) \/ AllocFails(n)
  BY <1>2, AllocInv, AllocFailsInv, UntouchedKept
<1>3. ASSUME NEW h \in DOMAIN hdr, Free(h) PROVE InUseKept
  BY <1>3, FreeInv, UntouchedByOthers
<1>4. ASSUME NEW h \in DOMAIN hdr, NEW m \in Marks, Mark(h, m) PROVE InUseKept
  BY <1>4, MarkInv, UntouchedByOthers
<1>5. ASSUME NEW h \in DOMAIN hdr, NEW protected \in BOOLEAN, heapProtect(h, protected)
      PROVE  InUseKept
  BY <1>5, ProtectInv, UntouchedByOthers
<1>6. CASE \E m \in Marks : SweepStart(m)
  BY <1>6, SweepStartInv, UntouchedKept
<1>7. CASE SweepFree \/ SweepKeep \/ SweepEnd
  BY <1>7, SweepFreeInv, SweepKeepInv, SweepEndInv, UntouchedKept
<1>8. CASE SweepCollect
  <2>1. /\ pc = "sweep" /\ is_type(offset, HT_USED) /\ hdr[offset].mark # markValue
        /\ ~ is_type(offset, HT_PROTECTED)
    BY <1>8 DEF SweepCollect, Sweeping, is_type, HT_USED, HT_PROTECTED
  <2>2. Untouched({offset})
    BY <1>8, SweepCollectInv
  <2>3. QED
    BY <2>1, <2>2 DEF Untouched, InUseKept
<1>9. QED
  BY <1>1, <1>2, <1>3, <1>4, <1>5, <1>6, <1>7, <1>8 DEF Next, SweepStep

\* Whatever is allocated, freed, merged, split or swept beside it, a block in use
\* keeps its header, and a sweep frees no marked and no protected block.
THEOREM InUseStaysPut == Spec => InUseUndisturbed
<1>1. IInv /\ [Next]_vars => [InUseKept]_vars
  BY StepKeepsInUse
<1>2. QED
  BY <1>1, Invariance, PTL DEF Spec, InUseUndisturbed

-----------------------------------------------------------------------------
(* The refinement: the blocks in use are an Allocator's                    *)

\* A nonempty set of natural numbers has a least element.
LEMMA Least ==
  ASSUME NEW T \in SUBSET Nat, T # {}
  PROVE  \E x \in T : \A y \in T : x <= y
<1> DEFINE R == {ss \in Nat \X Nat : ss[1] < ss[2]}
<1>1. IsWellFoundedOn(R, Nat)
  BY NatLessThanWellFounded DEF OpToRel
<1>2. \A x, y \in T : <<y, x>> \in R <=> y < x
  OBVIOUS
<1> HIDE DEF R
<1>3. PICK x \in T : \A y \in T : ~ (<<y, x>> \in R)
  BY <1>1, WFMin
<1>4. \A y \in T : ~ (y < x)
  BY <1>2, <1>3
<1>5. \A y \in T : x <= y
  BY <1>4
<1>6. QED
  BY <1>5

\* Among the addresses in S up to u there is a last one.
LEMMA LastUpTo ==
  ASSUME NEW S \in SUBSET Nat, NEW u \in Nat, \E e \in S : e <= u
  PROVE  \E x \in S : x <= u /\ \A y \in S : y <= u => y <= x
<1> DEFINE T == {k \in 0 .. u : u - k \in S}
<1>1. PICK e \in S : e <= u
  OBVIOUS
<1>2. T \in SUBSET Nat /\ u - e \in T
  BY <1>1
<1>3. PICK k \in T : \A j \in T : k <= j
  <2> HIDE DEF T
  <2>1. QED
    BY <1>2, Least
<1>4. u - k \in S /\ u - k <= u
  OBVIOUS
<1>5. ASSUME NEW y \in S, y <= u PROVE y <= u - k
  <2>1. y \in Nat /\ u - (u - y) = y /\ u - y \in 0 .. u
    BY <1>5
  <2>2. u - y \in T
    BY <2>1
  <2>3. k <= u - y
    BY <2>2, <1>3
  <2>4. QED
    BY <2>1, <2>3
<1>6. QED
  BY <1>4, <1>5

\* What Sound says of sizes and neighbours, in one place.
LEMMA Blocks ==
  ASSUME Sound
  PROVE  /\ DOMAIN hdr \subseteq Nat /\ 0 \in DOMAIN hdr
         /\ \A a \in DOMAIN hdr :
              /\ a # NULL /\ a < HeapSize
              /\ hdr[a].size \in Nat /\ hdr[a].size > 0
              /\ a + hdr[a].size \in DOMAIN hdr \cup {HeapSize}
              /\ a + hdr[a].size <= HeapSize
              /\ \A b \in DOMAIN hdr : b > a => b >= a + hdr[a].size
<1>1. /\ DOMAIN hdr \subseteq Nat
      /\ \A a \in DOMAIN hdr : /\ a # NULL /\ a < HeapSize
                               /\ hdr[a].size \in Nat /\ hdr[a].size > 0
  BY DEF Sound, TypeOK, Addr, Header, NULL
<1>2. QED
  BY <1>1 DEF Sound, Tiling

\* Every unit of the heap lies in a block.
LEMMA BlockAround ==
  ASSUME Sound, NEW u \in Nat, u < HeapSize
  PROVE  \E x \in DOMAIN hdr : x <= u /\ u < x + hdr[x].size
<1>1. PICK x \in DOMAIN hdr : x <= u /\ \A y \in DOMAIN hdr : y <= u => y <= x
  <2>1. DOMAIN hdr \in SUBSET Nat /\ 0 \in DOMAIN hdr /\ 0 <= u
    BY Blocks
  <2>2. QED
    BY <2>1, LastUpTo
<1>2. x + hdr[x].size # HeapSize => ~ (x + hdr[x].size <= u)
  BY <1>1, Blocks
<1>3. QED
  BY <1>1, <1>2, Blocks

\* heap_alloc's scan meets every free block.
LEMMA FreeIsOnList ==
  ASSUME Sound
  PROVE  FreeBlocks \subseteq FreeCells
<1> SUFFICES ASSUME NEW x \in FreeBlocks, x # free_list
             PROVE  \E p \in DOMAIN hdr : hdr[p].next = x
  BY DEF FreeCells, OnList, FreeBlocks
<1>1. /\ FreeBlocks \subseteq DOMAIN hdr /\ FreeBlocks \subseteq Nat
      /\ Listed(hdr, free_list, FreeBlocks)
  BY Blocks, InvAsPredicates DEF Sound, FreeBlocks
<1>2. free_list \in FreeBlocks /\ free_list < x
  BY <1>1 DEF Listed
<1> DEFINE S == {y \in FreeBlocks : y < x}
<1>3. S \in SUBSET Nat /\ free_list \in S /\ \A y \in S : y <= x
  BY <1>1, <1>2
<1>4. PICK p \in S : \A y \in S : y <= p
  <2> HIDE DEF S
  <2>1. QED
    BY <1>1, <1>3, LastUpTo
<1>5. hdr[p].next # NULL /\ hdr[p].next <= x /\ hdr[p].next \in FreeBlocks
      /\ hdr[p].next > p
  BY <1>1 DEF Listed
<1>6. hdr[p].next = x
  <2>1. hdr[p].next \notin S
    BY <1>1, <1>4, <1>5
  <2>2. QED
    BY <2>1, <1>1, <1>5
<1>7. QED
  BY <1>1, <1>6

\* A gap between the blocks in use lies in one free block: no two free blocks
\* are neighbours.
LEMMA GapInOneBlock ==
  ASSUME Sound, NEW a \in Nat, NEW n \in Nat, n > 0, a + n <= HeapSize,
         \A b \in InUse : a + n <= b \/ b + hdr[b].size <= a
  PROVE  \E x \in FreeBlocks : hdr[x].size >= n
<1>1. PICK x \in DOMAIN hdr : x <= a /\ a < x + hdr[x].size
  BY BlockAround
<1>2. x \in FreeBlocks
  BY <1>1, Blocks DEF InUse
<1>3. CASE a + n <= x + hdr[x].size
  BY <1>1, <1>2, <1>3, Blocks
<1>4. CASE a + n > x + hdr[x].size
  <2> DEFINE y == x + hdr[x].size
  <2>1. y # HeapSize /\ y \in DOMAIN hdr
    BY <1>1, <1>4, Blocks
  <2>2. y \in InUse
    BY <1>2, <2>1 DEF Sound, Coalesced, FreeBlocks, InUse
  <2>3. FALSE
    BY <2>1, <2>2, <1>1, <1>4, Blocks
  <2>4. QED
    BY <2>3
<1>5. QED
  BY <1>1, <1>3, <1>4, Blocks

LEMMA LiveIsInUse ==
  /\ DOMAIN live = InUse /\ live = [a \in InUse |-> hdr[a].size]
  /\ DOMAIN live' = InUse' /\ live' = [a \in InUse' |-> hdr'[a].size]
BY DEF live, InUse, FreeBlocks

LEMMA InitMaps == Init => A!Init
BY DEF Init, heap_init, init_element, live, is_type, NoCall, A!Init, NULL, A!NULL

LEMMA AllocMaps ==
  ASSUME IInv, NEW n \in Requests, Alloc(n)
  PROVE  A!Alloc(n)
<1>1. Sound /\ n \in Nat /\ Untouched({}) /\ HandsOut(n)
  BY AllocInv DEF IInv, Sound
<1>2. PICK b \in FreeBlocks :
        /\ InUse' = InUse \cup {b}
        /\ hdr'[b].size \in n + HEAP_HEADER_SIZE .. n + 2 * HEAP_HEADER_SIZE
        /\ hdr'[b].size <= hdr[b].size
        /\ last' = AllocCall(n, b)
  BY <1>1 DEF HandsOut
<1> DEFINE size == hdr'[b].size
           slack == size - n - HEAP_HEADER_SIZE
<1>3. /\ slack \in 0 .. HEAP_HEADER_SIZE /\ size = n + HEAP_HEADER_SIZE + slack
      /\ size \in Nat
  BY <1>1, <1>2
<1>4. b \in DOMAIN hdr /\ b \in 0 .. HeapSize /\ b + hdr[b].size <= HeapSize
  BY <1>1, Blocks DEF FreeBlocks
<1>5. ASSUME NEW x \in InUse PROVE b + size <= x \/ x + hdr[x].size <= b
  <2>1. x \in DOMAIN hdr /\ x # b
    BY DEF InUse
  <2>2. QED
    BY <2>1, <1>1, <1>2, <1>3, <1>4, Blocks
<1>6. A!Gap(b, size)
  BY <1>1, <1>2, <1>3, <1>4, <1>5, Blocks, LiveIsInUse DEF A!Gap
<1>7. \A x \in InUse : x # b /\ hdr'[x] = hdr[x]
  BY <1>1 DEF Untouched, InUse, FreeBlocks
<1>8. live' = [x \in DOMAIN live \cup {b} |-> IF x = b THEN size ELSE live[x]]
  BY <1>2, <1>7, LiveIsInUse
<1> HIDE DEF size, slack
<1>9. QED
  BY <1>2, <1>3, <1>4, <1>6, <1>8 DEF A!Alloc, AllocCall

LEMMA AllocFailsMaps ==
  ASSUME IInv, NEW n \in Requests, AllocFails(n)
  PROVE  A!AllocFails(n)
<1>1. Sound /\ n \in Nat
  BY DEF IInv, Sound
<1>2. \A x \in FreeBlocks : ~ (hdr[x].size >= n + HEAP_HEADER_SIZE)
  BY <1>1, FreeIsOnList, Blocks DEF AllocFails, heap_alloc_fails, FreeBlocks
<1>3. ASSUME NEW a \in 0 .. HeapSize PROVE ~ A!Gap(a, n + HEAP_HEADER_SIZE)
  <2>1. SUFFICES ASSUME A!Gap(a, n + HEAP_HEADER_SIZE) PROVE FALSE
    OBVIOUS
  <2>2. /\ a + (n + HEAP_HEADER_SIZE) <= HeapSize
        /\ \A b \in InUse : a + (n + HEAP_HEADER_SIZE) <= b \/ b + hdr[b].size <= a
    BY <2>1, LiveIsInUse DEF A!Gap
  <2>3. n + HEAP_HEADER_SIZE \in Nat /\ n + HEAP_HEADER_SIZE > 0 /\ a \in Nat
    BY <1>1
  <2>4. QED
    BY <2>2, <2>3, <1>1, <1>2, GapInOneBlock
<1>4. live' = live
  BY DEF AllocFails, heap_alloc_fails, live, is_type
<1>5. QED
  BY <1>3, <1>4 DEF AllocFails, heap_alloc_fails, AllocCall, A!AllocFails, NULL, A!NULL

\* heap_free, called by itself or by the sweep, releases the block.
LEMMA FreeMaps ==
  ASSUME Sound, NEW h \in DOMAIN hdr, ~ is_type(h, HT_FREE), heap_free(h), last' = NoCall
  PROVE  h \in DOMAIN live /\ A!Release(h)
<1>1. PICK p \in FreeBlocks \cup {NULL} :
        InsertResult(set_type(hdr, h, HT_FREE), FreeBlocks, h, p, free_list', hdr')
  BY HeapFree
<1>2. /\ \A x \in DOMAIN hdr : ~ is_type(x, HT_FREE) /\ x # h =>
            x \in DOMAIN hdr' /\ hdr'[x] = hdr[x]
      /\ FreeBlocks' = (FreeBlocks \cup {h}) \cap DOMAIN hdr'
      /\ DOMAIN hdr' \subseteq DOMAIN hdr
  BY <1>1, HeapFreeSound
<1>3. h \in InUse
  BY DEF InUse, FreeBlocks
<1>4. \A x \in InUse \ {h} : x \in DOMAIN hdr' /\ hdr'[x] = hdr[x]
  BY <1>2 DEF InUse, FreeBlocks
<1>5. InUse' = InUse \ {h}
  BY <1>2, <1>3, <1>4 DEF InUse
<1>6. live' = [x \in DOMAIN live \ {h} |-> live[x]]
  BY <1>4, <1>5, LiveIsInUse
<1>7. QED
  BY <1>3, <1>6, LiveIsInUse DEF A!Release, NoCall, NULL, A!NULL

\* A mark and the protection are not the allocator's.
LEMMA WriteMaps ==
  ASSUME IInv, NEW h \in DOMAIN hdr,
         \/ \E m \in Marks : Mark(h, m)
         \/ \E protected \in BOOLEAN : heapProtect(h, protected)
  PROVE  UNCHANGED <<live, last>>
<1>1. \A x \in DOMAIN hdr : hdr[x] \in Header
  BY DEF IInv, TypeOK
<1>2. DOMAIN hdr' = DOMAIN hdr /\ UNCHANGED last
  BY DEF Mark, heapProtect, set_type
<1>3. ASSUME NEW x \in DOMAIN hdr
      PROVE  hdr'[x].size = hdr[x].size /\ (is_type(x, HT_FREE)' <=> is_type(x, HT_FREE))
  BY <1>1 DEF Mark, heapProtect, set_type, is_type, Header, HT_FREE, HT_USED, HT_PROTECTED
<1>4. FreeBlocks' = FreeBlocks
  BY <1>2, <1>3 DEF FreeBlocks
<1>5. InUse' = InUse
  BY <1>2, <1>4 DEF InUse
<1>6. live' = live
  <2>1. \A x \in InUse : hdr'[x].size = hdr[x].size
    BY <1>3 DEF InUse
  <2>2. QED
    BY <2>1, <1>5, LiveIsInUse
<1>7. QED
  BY <1>2, <1>6

LEMMA StepMaps == ASSUME IInv, [Next]_vars PROVE [A!Next]_(A!vars)
<1>1. CASE UNCHANGED vars
  BY <1>1 DEF vars, live, is_type, A!vars
<1>2. ASSUME NEW n \in Requests, Alloc(n) \/ AllocFails(n)
      PROVE  A!Next
  BY <1>2, AllocMaps, AllocFailsMaps DEF A!Next
<1>3. ASSUME NEW h \in DOMAIN hdr, Free(h)
      PROVE  A!Next
  BY <1>3, FreeMaps DEF Free, IInv, Sound, A!Next
<1>4. ASSUME NEW h \in DOMAIN hdr,
             \/ \E m \in Marks : Mark(h, m)
             \/ \E protected \in BOOLEAN : heapProtect(h, protected)
      PROVE  UNCHANGED A!vars
  BY <1>4, WriteMaps DEF A!vars
<1>5. CASE (\E m \in Marks : SweepStart(m)) \/ SweepFree \/ SweepKeep \/ SweepEnd
  BY <1>5 DEF SweepStart, SweepFree, SweepKeep, SweepEnd, live, is_type, A!vars
<1>6. CASE SweepCollect
  <2>1. /\ Sweeping /\ Sound /\ ~ is_type(offset, HT_FREE)
        /\ heap_free(offset) /\ last' = NoCall
    BY <1>6 DEF SweepCollect, IInv, Sound, is_type, HT_USED, HT_FREE
  <2>2. offset \in DOMAIN hdr
    BY <2>1, BlockAtOffset
  <2>3. QED
    BY <2>1, <2>2, FreeMaps DEF A!Next
<1>7. QED
  BY <1>1, <1>2, <1>3, <1>4, <1>5, <1>6 DEF Next, SweepStep

\* heaplist.c is an allocator: blocks that never overlap, a NULL only when no gap
\* between the blocks in use has room, whatever was merged, split or swept.
THEOREM HeapIsAllocator == Spec => ImplementsAllocator
<1>1. IInv /\ [Next]_vars => [A!Next]_(A!vars)
  BY StepMaps
<1>2. QED
  BY <1>1, InitMaps, Invariance, PTL DEF Spec, ImplementsAllocator, A!Spec

-----------------------------------------------------------------------------
(* The loops of heaplist.c and list.c                                      *)

\* The states a loop passes from s on, and those among them where it ends.
Closed(U, go, body) == \A k \in U : k \in go => body[k] \in U
Passes(S, go, body, s) == {d \in S : \A U \in SUBSET S : Closed(U, go, body) /\ s \in U => d \in U}
Ends(S, go, body, s) == {d \in Passes(S, go, body, s) : d \notin go}

LEMMA EndsStep ==
  ASSUME NEW S, NEW go, NEW body, \A k \in go : body[k] \in S, NEW s \in S
  PROVE  /\ s \in go => Ends(S, go, body, s) = Ends(S, go, body, body[s])
         /\ s \notin go => Ends(S, go, body, s) = {s}
<1> DEFINE P(k) == Passes(S, go, body, k)
<1>1. CASE s \in go
  <2> DEFINE e == body[s]
             V == {s} \cup P(e)
  <2>1. e \in S /\ V \in SUBSET S
    BY <1>1 DEF Passes
  <2>2. e \in P(e)
    BY <2>1 DEF Passes
  <2>3. Closed(V, go, body)
    <3>1. SUFFICES ASSUME NEW k \in V, k \in go PROVE body[k] \in P(e)
      BY DEF Closed
    <3>2. CASE k = s
      BY <2>2, <3>2
    <3>3. CASE k \in P(e)
      <4>1. body[k] \in S
        BY <3>1
      <4>2. QED  BY <3>1, <3>3, <4>1 DEF Passes, Closed
    <3>4. QED  BY <3>2, <3>3
  <2>4. P(s) \subseteq V
    BY <2>1, <2>3 DEF Passes
  <2>5. P(e) \subseteq P(s)
    BY <1>1 DEF Passes, Closed
  <2>6. QED  BY <1>1, <2>4, <2>5 DEF Ends
<1>2. CASE s \notin go
  <2>1. {s} \in SUBSET S /\ Closed({s}, go, body)
    BY <1>2 DEF Closed
  <2>2. P(s) = {s}
    BY <2>1 DEF Passes
  <2>3. QED  BY <1>2, <2>2 DEF Ends
<1>3. QED  BY <1>1, <1>2

\* A loop is its body and then the loop, or nothing.
LEMMA WhileStep ==
  ASSUME NEW S, NEW go, NEW body, \A k \in go : body[k] \in S, NEW s \in S
  PROVE  While(S, go, body)[s] = IF s \in go THEN While(S, go, body)[body[s]] ELSE s
<1> DEFINE F == [k \in S |-> CHOOSE d : d \in Ends(S, go, body, k)]
           run == CHOOSE f : f = [k \in S |-> IF k \in go THEN f[body[k]] ELSE k]
<1>1. ASSUME NEW k \in S
      PROVE  F[k] = IF k \in go THEN F[body[k]] ELSE k
  <2>1. CASE k \in go
    BY <2>1, EndsStep
  <2>2. CASE k \notin go
    BY <2>2, EndsStep
  <2>3. QED  BY <2>1, <2>2
<1>2. F = [k \in S |-> IF k \in go THEN F[body[k]] ELSE k]
  <2>1. F = [k \in S |-> F[k]]
    OBVIOUS
  <2> HIDE DEF F
  <2>2. QED  BY <1>1, <2>1
<1> HIDE DEF F
<1>3. run = [k \in S |-> IF k \in go THEN run[body[k]] ELSE k]
  BY <1>2
<1>4. While(S, go, body) = run
  BY DEF While
<1> HIDE DEF run
<1>5. QED  BY <1>3, <1>4

\* A loop that keeps I, and whose variant falls, ends in I.
LEMMA WhileEnds ==
  ASSUME NEW S, NEW go, NEW body, \A k \in go : body[k] \in S,
         NEW I \in SUBSET S, NEW rank, \A k \in I : rank[k] \in Nat,
         \A k \in I : k \in go => body[k] \in I /\ rank[body[k]] < rank[k]
  PROVE  \A s \in I : While(S, go, body)[s] \in I /\ While(S, go, body)[s] \notin go
<1> DEFINE W == While(S, go, body)
           bad == {s \in I : ~ (W[s] \in I /\ W[s] \notin go)}
           T == {rank[s] : s \in bad}
<1>1. \A s \in S : W[s] = IF s \in go THEN W[body[s]] ELSE s
  BY WhileStep
<1> HIDE DEF W
<1>2. SUFFICES ASSUME bad # {} PROVE FALSE
  BY DEF W
<1>3. T \in SUBSET Nat /\ T # {}
  BY <1>2
<1> HIDE DEF T
<1>4. PICK x \in T : \A y \in T : x <= y
  BY <1>3, Least
<1>5. PICK s \in bad : x = rank[s]
  BY DEF T
<1>6. s \in I /\ s \in go /\ W[s] = W[body[s]]
  BY <1>1, <1>5
<1>7. body[s] \in bad /\ rank[body[s]] < rank[s]
  BY <1>5, <1>6
<1>8. rank[body[s]] \in T /\ rank[body[s]] \in Nat /\ rank[s] \in Nat
  BY <1>7 DEF T
<1>9. QED  BY <1>4, <1>5, <1>7, <1>8


\* The free list once more: it is the free blocks, in order, and then NULL.
LEMMA FreeListFacts ==
  ASSUME Sound
  PROVE  /\ FreeCells = FreeBlocks /\ FreeBlocks \subseteq DOMAIN hdr /\ FreeBlocks \subseteq Nat
         /\ NULL \notin FreeBlocks /\ NULL \notin DOMAIN hdr
         /\ free_list \in FreeBlocks \cup {NULL}
         /\ \A a \in DOMAIN hdr : hdr[a].next \in FreeBlocks \cup {NULL} /\ hdr[a].size \in Nat
         /\ \A a \in FreeBlocks :
              /\ a < HeapSize /\ free_list # NULL /\ free_list <= a
              /\ hdr[a].next # NULL => hdr[a].next > a
              /\ \A b \in FreeBlocks : b > a => hdr[a].next # NULL /\ hdr[a].next <= b
<1>1. FreeCells = FreeBlocks
  <2>1. FreeCells \subseteq FreeBlocks
    BY OnListIsFree DEF FreeCells
  <2>2. QED  BY <2>1, FreeIsOnList
<1>2. FreeBlocks \subseteq DOMAIN hdr /\ DOMAIN hdr \subseteq Nat /\ NULL \notin DOMAIN hdr
  BY Blocks DEF FreeBlocks, NULL
<1>3. Listed(hdr, free_list, FreeBlocks)
  BY InvAsPredicates DEF Sound
<1>4. free_list \in FreeBlocks \cup {NULL}
  BY <1>3 DEF Listed
<1>5. ASSUME NEW a \in DOMAIN hdr
      PROVE  hdr[a].next \in FreeBlocks \cup {NULL} /\ hdr[a].size \in Nat
  <2>1. CASE a \in FreeBlocks
    BY <1>3, <1>5, <2>1, Blocks DEF Listed
  <2>2. CASE a \notin FreeBlocks
    BY <1>5, <2>2, Blocks DEF Sound, FreeListExact, FreeBlocks
  <2>3. QED  BY <2>1, <2>2
<1>6. \A a \in FreeBlocks :
        /\ a < HeapSize /\ free_list # NULL /\ free_list <= a
        /\ hdr[a].next # NULL => hdr[a].next > a
        /\ \A b \in FreeBlocks : b > a => hdr[a].next # NULL /\ hdr[a].next <= b
  BY <1>2, <1>3, Blocks DEF Listed
<1>7. QED  BY <1>1, <1>2, <1>4, <1>5, <1>6

\* How far a place on the list is from its end.
Left(p) == IF p = NULL THEN 0 ELSE HeapSize - p

LEMMA LeftFalls ==
  ASSUME Sound, NEW p \in FreeBlocks
  PROVE  /\ Left(p) \in Nat /\ Left(hdr[p].next) \in Nat
         /\ Left(hdr[p].next) < Left(p)
<1>1. p \in Nat /\ p < HeapSize /\ p # NULL /\ p \in DOMAIN hdr /\ HeapSize \in Nat
  BY FreeListFacts
<1>2. hdr[p].next = NULL \/ (hdr[p].next \in FreeBlocks /\ hdr[p].next > p)
  BY <1>1, FreeListFacts
<1>3. CASE hdr[p].next = NULL
  BY <1>1, <1>3 DEF Left
<1>4. CASE hdr[p].next \in FreeBlocks /\ hdr[p].next > p
  <2>1. hdr[p].next \in Nat /\ hdr[p].next < HeapSize /\ hdr[p].next # NULL
    BY <1>4, FreeListFacts
  <2>2. QED  BY <1>1, <1>4, <2>1 DEF Left
<1>5. QED  BY <1>2, <1>3, <1>4

\* Two places in the list with the same element after them are one.
LEMMA AfterInjective ==
  ASSUME Sound, NEW p \in FreeBlocks \cup {NULL}, NEW q \in FreeBlocks \cup {NULL},
         After(hdr, free_list, p) = After(hdr, free_list, q),
         After(hdr, free_list, p) # NULL
  PROVE  p = q
<1>1. ASSUME NEW x \in FreeBlocks \cup {NULL}, NEW y \in FreeBlocks,
             x = NULL \/ x < y,
             After(hdr, free_list, x) = After(hdr, free_list, y),
             After(hdr, free_list, x) # NULL
      PROVE  FALSE
  <2> DEFINE n == After(hdr, free_list, x)
  <2>1. y \in Nat /\ y # NULL /\ n = hdr[y].next /\ y \in DOMAIN hdr
    BY <1>1, FreeListFacts DEF After
  <2>2. n \in FreeBlocks /\ n > y /\ n \in Nat
    BY <1>1, <2>1, FreeListFacts
  <2>3. n <= y
    <3>1. CASE x = NULL
      BY <3>1, FreeListFacts DEF After
    <3>2. CASE x # NULL
      <4>1. x \in FreeBlocks /\ x < y /\ n = hdr[x].next
        BY <1>1, <3>2 DEF After
      <4>2. QED  BY <4>1, FreeListFacts
    <3>3. QED  BY <3>1, <3>2
  <2>4. QED  BY <2>1, <2>2, <2>3
<1>2. FreeBlocks \subseteq Nat /\ NULL \notin FreeBlocks
  BY FreeListFacts
<1>3. CASE p = NULL /\ q # NULL
  BY <1>1, <1>3
<1>4. CASE p # NULL /\ q = NULL
  BY <1>1, <1>4
<1>5. CASE p # NULL /\ q # NULL
  <2>1. p < q \/ q < p \/ p = q
    BY <1>2, <1>5
  <2>2. QED  BY <1>1, <1>5, <2>1
<1>6. QED  BY <1>3, <1>4, <1>5

\* The loop of list_insert_ordered stops at an insert position.
LEMMA InsertLoopStops ==
  ASSUME Sound, NEW h \in DOMAIN hdr \ FreeBlocks
  PROVE  InsertLoop(h) \in FreeBlocks \cup {NULL} /\ IsInsertPoint(hdr, free_list, h, InsertLoop(h))
<1> DEFINE S == [prev : Place, l : Place]
           go == {s \in S : s.l # NULL /\ h > s.l}
           body == [s \in go |-> [prev |-> s.l, l |-> hdr[s.l].next]]
           first == [prev |-> NULL, l |-> free_list]
           I == {s \in S : /\ s.l \in FreeBlocks \cup {NULL} /\ s.prev \in FreeBlocks \cup {NULL}
                           /\ s.l = After(hdr, free_list, s.prev)
                           /\ s.prev # NULL => s.prev < h}
           rank == [s \in I |-> Left(s.l)]
           end == While(S, go, body)[first]
<1>1. \A s \in go : body[s] \in S
  BY FreeListFacts DEF Place
<1>2. I \in SUBSET S
  OBVIOUS
<1>3. \A s \in I : rank[s] \in Nat
  <2>1. SUFFICES ASSUME NEW s \in I PROVE Left(s.l) \in Nat
    OBVIOUS
  <2>2. s.l = NULL \/ s.l \in FreeBlocks
    OBVIOUS
  <2>3. QED  BY <2>2, LeftFalls DEF Left
<1>4. \A s \in I : s \in go => body[s] \in I /\ rank[body[s]] < rank[s]
  <2>1. SUFFICES ASSUME NEW s \in I, s \in go PROVE body[s] \in I /\ rank[body[s]] < rank[s]
    OBVIOUS
  <2>2. /\ s.l \in FreeBlocks /\ s.l # NULL /\ h > s.l /\ s.l \in DOMAIN hdr
        /\ body[s] = [prev |-> s.l, l |-> hdr[s.l].next] /\ body[s] \in S
    BY <1>1, <2>1, FreeListFacts
  <2>3. body[s] \in I
    BY <2>2, FreeListFacts DEF After
  <2>4. rank[body[s]] = Left(hdr[s.l].next) /\ rank[s] = Left(s.l)
    BY <2>2, <2>3
  <2>5. QED  BY <2>2, <2>3, <2>4, LeftFalls
<1>5. first \in I
  BY FreeListFacts DEF Place, After
<1>6. end \in I /\ end \notin go
  <2> HIDE DEF S, go, body, I, rank, first
  <2>1. QED  BY <1>1, <1>2, <1>3, <1>4, <1>5, WhileEnds
<1>7. InsertLoop(h) = end.prev
  BY DEF InsertLoop
<1> HIDE DEF end
<1>8. /\ end.prev \in FreeBlocks \cup {NULL} /\ end.l = After(hdr, free_list, end.prev)
      /\ end.prev # NULL => end.prev < h
      /\ end.l # NULL => end.l \in FreeBlocks /\ ~ (h > end.l)
  BY <1>6
<1>9. ASSUME end.l # NULL
      PROVE  h < end.l
  <2>1. h \in Nat /\ h \notin FreeBlocks /\ FreeBlocks \subseteq Nat
    BY FreeListFacts, Blocks
  <2>2. end.l \in Nat /\ end.l # h /\ ~ (h > end.l)
    BY <1>8, <1>9, <2>1
  <2>3. QED  BY <2>1, <2>2
<1>10. end.prev # NULL => end.prev \in DOMAIN hdr /\ OnList(hdr, free_list, end.prev)
  BY <1>8, FreeListFacts DEF FreeCells
<1>11. QED  BY <1>7, <1>8, <1>9, <1>10 DEF IsInsertPoint

\* There is only one.
LEMMA InsertPointUnique ==
  ASSUME Sound, NEW h \in DOMAIN hdr \ FreeBlocks, NEW p, NEW q,
         IsInsertPoint(hdr, free_list, h, p), IsInsertPoint(hdr, free_list, h, q)
  PROVE  p = q
<1>1. ASSUME NEW x \in FreeBlocks \cup {NULL}, NEW y \in FreeBlocks, x = NULL \/ x < y,
             IsInsertPoint(hdr, free_list, h, x), IsInsertPoint(hdr, free_list, h, y)
      PROVE  FALSE
  <2> DEFINE n == After(hdr, free_list, x)
  <2>1. y \in Nat /\ y # NULL /\ h > y /\ h \in Nat
    BY <1>1, FreeListFacts, Blocks DEF IsInsertPoint
  <2>2. n # NULL /\ n <= y /\ n \in Nat
    <3>1. CASE x = NULL
      BY <3>1, FreeListFacts DEF After
    <3>2. CASE x # NULL
      <4>1. x \in FreeBlocks /\ x < y /\ n = hdr[x].next
        BY <1>1, <3>2 DEF After
      <4>2. QED  BY <4>1, FreeListFacts
    <3>3. QED  BY <3>1, <3>2
  <2>3. h < n
    BY <1>1, <2>2 DEF IsInsertPoint
  <2>4. QED  BY <2>1, <2>2, <2>3
<1>2. p \in FreeBlocks \cup {NULL} /\ q \in FreeBlocks \cup {NULL}
  BY OnListIsFree DEF IsInsertPoint
<1>3. FreeBlocks \subseteq Nat
  BY FreeListFacts
<1>4. CASE p = NULL \/ q = NULL
  BY <1>1, <1>2, <1>4
<1>5. CASE p # NULL /\ q # NULL
  <2>1. p < q \/ q < p \/ p = q
    BY <1>2, <1>3, <1>5
  <2>2. QED  BY <1>1, <1>2, <1>5, <2>1
<1>6. QED  BY <1>4, <1>5

LEMMA InsertLoopFromInvariant == Sound => InsertLoopAgrees
<1> SUFFICES ASSUME Sound, NEW h \in {a \in DOMAIN hdr : ~ is_type(a, HT_FREE)},
                    NEW p \in DOMAIN hdr \cup {NULL}
             PROVE  IsInsertPoint(hdr, free_list, h, p) <=> p = InsertLoop(h)
  BY DEF InsertLoopAgrees
<1>1. h \in DOMAIN hdr \ FreeBlocks
  BY DEF FreeBlocks
<1>2. QED  BY <1>1, InsertLoopStops, InsertPointUnique


\* What the loop of heap_alloc knows of the free blocks before h.
Before(c, h) == h = NULL \/ c < h

NoneFits(size, s) ==
  /\ s.best_fit = NULL /\ s.prev_best_fit = NULL
  /\ \A c \in FreeBlocks : Before(c, s.h) => hdr[c].size < size

FitsBest(size, s) ==
  /\ s.best_fit \in FreeBlocks /\ s.prev_best_fit \in FreeBlocks \cup {NULL}
  /\ s.best_fit = After(hdr, free_list, s.prev_best_fit)
  /\ hdr[s.best_fit].size >= size
  /\ \A c \in FreeBlocks :
       Before(c, s.h) /\ hdr[c].size >= size =>
         \/ hdr[c].size > hdr[s.best_fit].size
         \/ hdr[c].size = hdr[s.best_fit].size /\ c >= s.best_fit
  /\ Before(s.best_fit, s.h)

Scanned(size, s) ==
  /\ s.h \in FreeBlocks \cup {NULL} /\ s.prev \in FreeBlocks \cup {NULL}
  /\ s.h = After(hdr, free_list, s.prev)
  /\ NoneFits(size, s) \/ FitsBest(size, s)

\* One iteration: the blocks before the next one are those before h, and h.
LEMMA ScanStep ==
  ASSUME Sound, NEW size \in Nat, NEW s, Scanned(size, s), s.h # NULL, NEW better \in BOOLEAN,
         better <=> /\ hdr[s.h].size >= size
                    /\ s.best_fit # NULL => hdr[s.h].size < hdr[s.best_fit].size,
         NEW e, e = Keep(better, s)
  PROVE  Scanned(size, e)
<1> DEFINE n == hdr[s.h].next
<1>1. /\ s.h \in FreeBlocks /\ s.h \in Nat /\ s.h \in DOMAIN hdr /\ hdr[s.h].size \in Nat
      /\ n \in FreeBlocks \cup {NULL} /\ (n # NULL => n > s.h)
  BY FreeListFacts DEF Scanned
<1>2. /\ e.h = n /\ e.prev = s.h
      /\ e.best_fit = (IF better THEN s.h ELSE s.best_fit)
      /\ e.prev_best_fit = (IF better THEN s.prev ELSE s.prev_best_fit)
  BY DEF Keep
<1>3. e.h \in FreeBlocks \cup {NULL} /\ e.prev \in FreeBlocks /\ e.h = After(hdr, free_list, e.prev)
  BY <1>1, <1>2, FreeListFacts DEF After
<1>4. FreeBlocks \subseteq Nat /\ \A c \in FreeBlocks : hdr[c].size \in Nat
  BY FreeListFacts
<1>5. ASSUME NEW c \in FreeBlocks, Before(c, n)
      PROVE  Before(c, s.h) \/ c = s.h
  <2>1. CASE c > s.h
    <3>1. n # NULL /\ n <= c
      BY <1>1, <2>1, FreeListFacts
    <3> HIDE DEF n
    <3>2. n \in Nat /\ c \in Nat /\ c < n
      BY <1>1, <1>4, <1>5, <3>1 DEF Before
    <3>3. QED  BY <3>1, <3>2
  <2>2. CASE c = s.h
    BY <2>2
  <2>3. CASE c < s.h
    BY <2>3 DEF Before
  <2>4. QED  BY <1>1, <1>4, <2>1, <2>2, <2>3
<1> HIDE DEF n
<1>6. ASSUME NEW c \in FreeBlocks, Before(c, s.h) \/ c = s.h
      PROVE  Before(c, n)
  <2>1. SUFFICES ASSUME n # NULL PROVE c < n
    BY DEF Before
  <2>2. n \in Nat /\ n > s.h /\ s.h \in Nat /\ c \in Nat
    BY <1>1, <1>4, <2>1
  <2>3. c = s.h \/ c < s.h
    BY <1>1, <1>3, <1>6, FreeListFacts DEF Before
  <2>4. QED  BY <2>2, <2>3
<1>7. CASE better
  <2>1. /\ e.best_fit = s.h /\ e.prev_best_fit = s.prev /\ hdr[s.h].size >= size
        /\ e.best_fit = After(hdr, free_list, e.prev_best_fit)
        /\ e.prev_best_fit \in FreeBlocks \cup {NULL} /\ Before(e.best_fit, e.h)
    BY <1>1, <1>2, <1>6, <1>7 DEF Scanned
  <2>2. ASSUME NEW c \in FreeBlocks, Before(c, n), hdr[c].size >= size
        PROVE  hdr[c].size > hdr[s.h].size \/ (hdr[c].size = hdr[s.h].size /\ c >= s.h)
    <3>1. CASE c = s.h
      BY <1>1, <3>1
    <3>2. CASE Before(c, s.h) /\ NoneFits(size, s)
      <4>1. hdr[c].size < size
        BY <3>2 DEF NoneFits
      <4>2. QED  BY <1>4, <2>2, <4>1
    <3>3. CASE Before(c, s.h) /\ FitsBest(size, s)
      <4>1. /\ s.best_fit \in FreeBlocks
            /\ hdr[c].size > hdr[s.best_fit].size \/ hdr[c].size = hdr[s.best_fit].size
        BY <2>2, <3>3 DEF FitsBest
      <4>2. hdr[s.h].size < hdr[s.best_fit].size
        BY <1>7, <4>1, FreeListFacts
      <4>3. hdr[c].size \in Nat /\ hdr[s.h].size \in Nat /\ hdr[s.best_fit].size \in Nat
        BY <1>1, <1>4, <4>1
      <4>4. QED  BY <4>1, <4>2, <4>3
    <3>4. QED  BY <1>5, <2>2, <3>1, <3>2, <3>3 DEF Scanned
  <2>3. FitsBest(size, e)
    BY <1>1, <1>2, <2>1, <2>2 DEF FitsBest
  <2>4. QED  BY <1>3, <2>3 DEF Scanned
<1>8. CASE ~ better /\ NoneFits(size, s)
  <2>1. hdr[s.h].size < size
    BY <1>1, <1>8 DEF NoneFits
  <2>2. \A c \in FreeBlocks : Before(c, n) => hdr[c].size < size
    BY <1>5, <1>8, <2>1 DEF NoneFits
  <2>3. NoneFits(size, e)
    BY <1>2, <1>8, <2>2 DEF NoneFits
  <2>4. QED  BY <1>3, <2>3 DEF Scanned
<1>9. CASE ~ better /\ FitsBest(size, s)
  <2> DEFINE b == s.best_fit
  <2>1. /\ b \in FreeBlocks /\ b \in Nat /\ b # NULL /\ hdr[b].size \in Nat
        /\ hdr[b].size >= size /\ e.best_fit = b /\ e.prev_best_fit = s.prev_best_fit
        /\ Before(b, s.h)
    BY <1>2, <1>4, <1>9, FreeListFacts DEF FitsBest
  <2>2. hdr[s.h].size >= size => hdr[s.h].size >= hdr[b].size
    BY <1>1, <1>9, <2>1
  <2>3. s.h >= b
    BY <1>1, <2>1, FreeListFacts DEF Before
  <2>4. ASSUME NEW c \in FreeBlocks, Before(c, n), hdr[c].size >= size
        PROVE  hdr[c].size > hdr[b].size \/ (hdr[c].size = hdr[b].size /\ c >= b)
    <3>1. CASE c = s.h
      BY <1>1, <2>1, <2>2, <2>3, <2>4, <3>1
    <3>2. CASE Before(c, s.h)
      BY <1>9, <2>4, <3>2 DEF FitsBest
    <3>3. QED  BY <1>5, <2>4, <3>1, <3>2
  <2>5. FitsBest(size, e)
    <3>1. Before(b, n)
      BY <1>6, <2>1
    <3>2. /\ s.prev_best_fit \in FreeBlocks \cup {NULL}
          /\ b = After(hdr, free_list, s.prev_best_fit)
      BY <1>9 DEF FitsBest
    <3> HIDE DEF b
    <3>3. QED  BY <1>2, <2>1, <2>4, <3>1, <3>2 DEF FitsBest
  <2>6. QED  BY <1>3, <2>5 DEF Scanned
<1>10. QED  BY <1>7, <1>8, <1>9 DEF Scanned

LEMMA BestFitLoopEnds ==
  ASSUME Sound, NEW size \in Nat
  PROVE  LET end == BestFitLoop(size)
         IN  Scanned(size, end) /\ end.h = NULL
<1> DEFINE S == [h : Place, prev : Place, best_fit : Place, prev_best_fit : Place]
           go == {s \in S : s.h # NULL}
           better(s) == /\ hdr[s.h].size >= size
                        /\ s.best_fit # NULL => hdr[s.h].size < hdr[s.best_fit].size
           body == [s \in go |-> Keep(better(s), s)]
           first == [h |-> free_list, prev |-> NULL, best_fit |-> NULL, prev_best_fit |-> NULL]
           I == {s \in S : Scanned(size, s)}
           rank == [s \in I |-> Left(s.h)]
           end == While(S, go, body)[first]
<1>1. \A s \in go : body[s] \in S
  <2>1. SUFFICES ASSUME NEW s \in go PROVE Keep(better(s), s) \in S
    OBVIOUS
  <2>2. s.h \in DOMAIN hdr /\ s.h \in Place /\ s.prev \in Place /\ s.best_fit \in Place
        /\ s.prev_best_fit \in Place
    BY DEF Place
  <2>3. hdr[s.h].next \in Place
    BY <2>2, FreeListFacts DEF Place
  <2> HIDE DEF better
  <2>4. QED  BY <2>2, <2>3 DEF Keep
<1>2. I \in SUBSET S
  OBVIOUS
<1>3. \A s \in I : rank[s] \in Nat
  <2>1. SUFFICES ASSUME NEW s \in I PROVE Left(s.h) \in Nat
    OBVIOUS
  <2>2. s.h = NULL \/ s.h \in FreeBlocks
    BY DEF Scanned
  <2>3. QED  BY <2>2, LeftFalls DEF Left
<1>4. \A s \in I : s \in go => body[s] \in I /\ rank[body[s]] < rank[s]
  <2>1. SUFFICES ASSUME NEW s \in I, s \in go PROVE body[s] \in I /\ rank[body[s]] < rank[s]
    OBVIOUS
  <2>2. Scanned(size, s) /\ s.h # NULL /\ s.h \in FreeBlocks
    BY <2>1 DEF Scanned
  <2>3. body[s] = Keep(better(s), s) /\ body[s] \in S
    BY <1>1, <2>1
  <2>4. better(s) \in BOOLEAN
    OBVIOUS
  <2>5. Scanned(size, body[s])
    BY <2>2, <2>3, <2>4, ScanStep
  <2>6. body[s].h = hdr[s.h].next
    BY <2>3 DEF Keep
  <2>7. rank[body[s]] = Left(hdr[s.h].next) /\ rank[s] = Left(s.h)
    <3> HIDE DEF body, go, better
    <3>1. body[s] \in I
      BY <2>3, <2>5
    <3> HIDE DEF I
    <3>2. rank[body[s]] = Left(body[s].h) /\ rank[s] = Left(s.h)
      BY <2>1, <3>1
    <3>3. QED  BY <2>6, <3>2
  <2>8. QED  BY <2>2, <2>3, <2>5, <2>7, LeftFalls
<1>5. first \in I
  <2>1. first \in S
    BY FreeListFacts DEF Place
  <2>2. \A c \in FreeBlocks : ~ Before(c, free_list)
    BY FreeListFacts DEF Before
  <2>3. Scanned(size, first)
    BY <2>2, FreeListFacts DEF Scanned, NoneFits, After
  <2>4. QED  BY <2>1, <2>3
<1>6. end \in I /\ end \notin go
  <2> HIDE DEF S, go, body, I, rank, first
  <2>1. QED  BY <1>1, <1>2, <1>3, <1>4, <1>5, WhileEnds
<1>7. BestFitLoop(size) = end
  BY DEF BestFitLoop
<1> HIDE DEF end
<1>8. QED  BY <1>6, <1>7

LEMMA BestFitLoopFromInvariant == Sound => BestFitLoopAgrees
<1> SUFFICES ASSUME Sound, NEW n \in Requests
             PROVE  {fit \in FreeCells \X (FreeCells \cup {NULL}) :
                        IsBestFit(n + HEAP_HEADER_SIZE, fit[1], fit[2])}
                      = {<<BestFitLoop(n + HEAP_HEADER_SIZE).best_fit,
                           BestFitLoop(n + HEAP_HEADER_SIZE).prev_best_fit>>} \ {<<NULL, NULL>>}
  BY DEF BestFitLoopAgrees
<1> DEFINE size == n + HEAP_HEADER_SIZE
           e == BestFitLoop(size)
<1>1. size \in Nat
  OBVIOUS
<1> HIDE DEF size
<1>2. Scanned(size, e) /\ e.h = NULL
  BY <1>1, BestFitLoopEnds
<1> HIDE DEF e
<1>3. FreeCells = FreeBlocks /\ FreeBlocks \subseteq Nat /\ NULL \notin FreeBlocks
      /\ \A c \in FreeBlocks : hdr[c].size \in Nat
  BY FreeListFacts
<1>4. CASE NoneFits(size, e)
  <2>1. \A b \in FreeCells : ~ (hdr[b].size >= size)
    BY <1>1, <1>2, <1>3, <1>4 DEF NoneFits, Before
  <2>2. \A fit \in FreeCells \X (FreeCells \cup {NULL}) : ~ IsBestFit(size, fit[1], fit[2])
    BY <2>1 DEF IsBestFit
  <2>3. e.best_fit = NULL /\ e.prev_best_fit = NULL
    BY <1>4 DEF NoneFits
  <2>4. QED  BY <2>2, <2>3 DEF size, e
<1>5. CASE FitsBest(size, e)
  <2> DEFINE b == e.best_fit
             p == e.prev_best_fit
  <2>1. /\ b \in FreeBlocks /\ p \in FreeBlocks \cup {NULL} /\ b = After(hdr, free_list, p)
        /\ hdr[b].size >= size
        /\ \A c \in FreeBlocks :
             hdr[c].size >= size => \/ hdr[c].size > hdr[b].size
                                    \/ hdr[c].size = hdr[b].size /\ c >= b
    BY <1>2, <1>5 DEF FitsBest, Before
  <2> HIDE DEF b, p
  <2>2. IsBestFit(size, b, p)
    BY <1>3, <2>1 DEF IsBestFit
  <2>3. ASSUME NEW c \in FreeBlocks, NEW q \in FreeBlocks \cup {NULL}, IsBestFit(size, c, q)
        PROVE  c = b /\ q = p
    <3>1. /\ c = After(hdr, free_list, q) /\ hdr[c].size >= size
          /\ hdr[b].size > hdr[c].size \/ (hdr[b].size = hdr[c].size /\ b >= c)
      BY <1>3, <2>1, <2>3 DEF IsBestFit
    <3>2. hdr[c].size > hdr[b].size \/ (hdr[c].size = hdr[b].size /\ c >= b)
      BY <2>1, <3>1
    <3>3. c = b
      <4>1. hdr[c].size \in Nat /\ hdr[b].size \in Nat /\ c \in Nat /\ b \in Nat
        BY <1>3, <2>1
      <4>2. QED  BY <3>1, <3>2, <4>1
    <3>4. After(hdr, free_list, p) # NULL
      BY <1>3, <2>1
    <3>5. QED  BY <2>1, <3>1, <3>3, <3>4, AfterInjective
  <2>4. <<b, p>> # <<NULL, NULL>>
    BY <1>3, <2>1
  <2>5. {fit \in FreeCells \X (FreeCells \cup {NULL}) : IsBestFit(size, fit[1], fit[2])} = {<<b, p>>}
    <3>1. <<b, p>> \in FreeBlocks \X (FreeBlocks \cup {NULL})
      BY <2>1
    <3>2. \A fit \in FreeBlocks \X (FreeBlocks \cup {NULL}) :
            IsBestFit(size, fit[1], fit[2]) => fit = <<b, p>>
      BY <2>3
    <3>3. QED  BY <1>3, <2>2, <3>1, <3>2
  <2>6. QED  BY <2>4, <2>5 DEF size, e, b, p
<1>6. QED  BY <1>2, <1>4, <1>5 DEF Scanned


\* The loop over the memory, with names for its parts.
StatStates == [offset : Nat, used : Nat, free : Nat]
StatGo == {s \in StatStates : s.offset < HeapSize /\ s.offset \in DOMAIN hdr}
StatBody ==
  [s \in StatGo |->
    LET size == hdr[s.offset].size
        free == is_type(s.offset, HT_FREE)
    IN  [offset |-> s.offset + size,
         used |-> IF free THEN s.used ELSE s.used + size,
         free |-> IF free THEN s.free + size ELSE s.free]]
StatFirst == [offset |-> 0, used |-> 0, free |-> 0]
StatRun == While(StatStates, StatGo, StatBody)

\* It is at a header or at the end, and has summed all it passed.
StatInv == {s \in StatStates : s.offset \in DOMAIN hdr \cup {HeapSize} /\ s.used + s.free = s.offset}

LEMMA StatStep ==
  ASSUME Sound, NEW s \in StatInv, s.offset \in DOMAIN hdr
  PROVE  LET size == hdr[s.offset].size
             e == StatBody[s]
         IN  /\ s \in StatGo /\ size \in Nat /\ size > 0 /\ e \in StatInv
             /\ e.offset = s.offset + size
             /\ e.free = IF s.offset \in FreeBlocks THEN s.free + size ELSE s.free
<1> DEFINE size == hdr[s.offset].size
           e == StatBody[s]
<1>1. /\ s \in StatGo /\ size \in Nat /\ size > 0 /\ s.offset + size \in DOMAIN hdr \cup {HeapSize}
      /\ DOMAIN hdr \subseteq Nat /\ s.offset \in Nat /\ s.used \in Nat /\ s.free \in Nat
      /\ s.used + s.free = s.offset
  BY Blocks DEF StatInv, StatGo, StatStates
<1>2. is_type(s.offset, HT_FREE) <=> s.offset \in FreeBlocks
  BY DEF FreeBlocks
<1>3. e = [offset |-> s.offset + size,
           used |-> IF s.offset \in FreeBlocks THEN s.used ELSE s.used + size,
           free |-> IF s.offset \in FreeBlocks THEN s.free + size ELSE s.free]
  BY <1>1, <1>2 DEF StatBody
<1> HIDE DEF e, size
<1>4. /\ e.offset = s.offset + size
      /\ e.used = IF s.offset \in FreeBlocks THEN s.used ELSE s.used + size
      /\ e.free = IF s.offset \in FreeBlocks THEN s.free + size ELSE s.free
  BY <1>3
<1>5. e \in StatStates
  BY <1>1, <1>3 DEF StatStates
<1>6. e.used + e.free = e.offset
  BY <1>1, <1>4
<1>7. e \in StatInv
  BY <1>1, <1>4, <1>5, <1>6 DEF StatInv
<1>8. QED  BY <1>1, <1>4, <1>7 DEF e, size

LEMMA StatUnfolds ==
  ASSUME Sound, NEW s \in StatStates
  PROVE  StatRun[s] = IF s \in StatGo THEN StatRun[StatBody[s]] ELSE s
<1>1. ASSUME NEW k \in StatGo
      PROVE  StatBody[k] \in StatStates
  <2>1. /\ k.offset \in Nat /\ k.used \in Nat /\ k.free \in Nat /\ hdr[k.offset].size \in Nat
    BY Blocks DEF StatGo, StatStates
  <2>2. QED  BY <2>1 DEF StatBody, StatStates
<1>2. QED  BY <1>1, WhileStep DEF StatRun

LEMMA StatLoopEnds ==
  ASSUME Sound
  PROVE  /\ StatLoop = StatRun[StatFirst] /\ StatFirst \in StatInv
         /\ StatLoop.offset = HeapSize /\ StatLoop.used + StatLoop.free = HeapSize
<1> DEFINE rank == [s \in StatInv |-> HeapSize - s.offset]
<1>1. \A k \in StatGo : StatBody[k] \in StatStates
  <2>1. SUFFICES ASSUME NEW k \in StatGo PROVE StatBody[k] \in StatStates
    OBVIOUS
  <2>2. /\ k.offset \in Nat /\ k.used \in Nat /\ k.free \in Nat /\ hdr[k.offset].size \in Nat
    BY Blocks DEF StatGo, StatStates
  <2>3. QED  BY <2>2 DEF StatBody, StatStates
<1>2. StatInv \in SUBSET StatStates
  BY DEF StatInv
<1>3. \A s \in StatInv : rank[s] \in Nat /\ s.offset \in Nat /\ s.offset <= HeapSize
  <2>1. SUFFICES ASSUME NEW s \in StatInv
                 PROVE  HeapSize - s.offset \in Nat /\ s.offset \in Nat /\ s.offset <= HeapSize
    OBVIOUS
  <2>2. s.offset \in DOMAIN hdr \cup {HeapSize}
    BY DEF StatInv
  <2> HIDE DEF rank
  <2>3. HeapSize \in Nat
    OBVIOUS
  <2>4. s.offset \in Nat /\ s.offset <= HeapSize
    BY <2>2, <2>3, Blocks
  <2>5. QED  BY <2>3, <2>4
<1>4. \A s \in StatInv : s \in StatGo => StatBody[s] \in StatInv /\ rank[StatBody[s]] < rank[s]
  <2>1. SUFFICES ASSUME NEW s \in StatInv, s \in StatGo
                 PROVE  StatBody[s] \in StatInv /\ rank[StatBody[s]] < rank[s]
    OBVIOUS
  <2> DEFINE e == StatBody[s]
  <2>2. /\ s.offset \in DOMAIN hdr /\ hdr[s.offset].size \in Nat /\ hdr[s.offset].size > 0
        /\ e \in StatInv /\ e.offset = s.offset + hdr[s.offset].size
    BY <2>1, StatStep DEF StatGo
  <2> HIDE DEF e
  <2>3. rank[e] = HeapSize - e.offset /\ rank[s] = HeapSize - s.offset
    BY <2>2
  <2>4. s.offset \in Nat /\ e.offset \in Nat
    BY <1>3, <2>2
  <2> HIDE DEF rank
  <2>5. rank[e] < rank[s]
    BY <2>2, <2>3, <2>4
  <2>6. QED  BY <2>2, <2>5 DEF e
<1>5. StatFirst \in StatInv
  BY Blocks DEF StatFirst, StatInv, StatStates
<1>6. StatRun[StatFirst] \in StatInv /\ StatRun[StatFirst] \notin StatGo
  <2> HIDE DEF rank
  <2>1. QED  BY <1>1, <1>2, <1>3, <1>4, <1>5, WhileEnds DEF StatRun
<1>7. StatLoop = StatRun[StatFirst]
  BY DEF StatLoop, StatRun, StatFirst, StatStates, StatGo, StatBody
<1> DEFINE end == StatLoop
<1> HIDE DEF end
<1>8. end \in StatInv /\ end \notin StatGo
  BY <1>6, <1>7 DEF end
<1>9. end.offset = HeapSize
  BY <1>8, Blocks DEF StatInv, StatGo
<1>10. QED  BY <1>5, <1>7, <1>8, <1>9 DEF StatInv, end

\* Over blocks in use the sum of the free ones stands still.
LEMMA WalkOver ==
  ASSUME Sound, NEW s \in StatInv, NEW t \in DOMAIN hdr \cup {HeapSize}, s.offset <= t,
         \A a \in FreeBlocks : ~ (s.offset <= a /\ a < t)
  PROVE  \E e \in StatInv : StatRun[e] = StatRun[s] /\ e.offset = t /\ e.free = s.free
<1> DEFINE At(e, o) == StatRun[e] = StatRun[s] /\ e.offset = o /\ e.free = s.free
           T == {o \in Nat : o <= t /\ \E e \in StatInv : At(e, o)}
<1>1. /\ t \in Nat /\ t <= HeapSize /\ DOMAIN hdr \subseteq Nat /\ HeapSize \in Nat
      /\ \A e \in StatInv : e.offset \in Nat /\ e.offset \in DOMAIN hdr \cup {HeapSize}
                            /\ e \in StatStates
  BY Blocks DEF StatInv, StatStates
<1>2. T \in SUBSET Nat /\ s.offset \in T
  BY <1>1
<1>3. PICK x \in T : x <= t /\ \A y \in T : y <= t => y <= x
  <2> HIDE DEF T
  <2>1. QED  BY <1>1, <1>2, LastUpTo
<1>4. PICK e \in StatInv : At(e, x)
  OBVIOUS
<1>5. CASE x = t
  BY <1>4, <1>5
<1>6. CASE x # t
  <2> DEFINE n == StatBody[e]
             size == hdr[x].size
  <2>1. x < t /\ x \in DOMAIN hdr /\ e.offset = x /\ s.offset <= x
    BY <1>1, <1>2, <1>3, <1>4, <1>6
  <2>2. x \notin FreeBlocks
    BY <2>1
  <2>3. /\ e \in StatGo /\ size \in Nat /\ size > 0 /\ n \in StatInv /\ n.offset = x + size
        /\ n.free = e.free
    BY <2>1, <2>2, StatStep
  <2>4. StatRun[n] = StatRun[e]
    BY <1>1, <2>3, StatUnfolds
  <2>5. x + size <= t
    BY <2>1, Blocks
  <2> HIDE DEF n, size
  <2>6. At(n, x + size)
    BY <1>4, <2>3, <2>4
  <2>7. x + size \in T
    BY <2>3, <2>5, <2>6
  <2>8. x + size <= x
    BY <1>3, <2>5, <2>7
  <2>9. QED  BY <2>3, <2>8
<1>7. QED  BY <1>5, <1>6

\* The place p of the free list, as an offset: NULL is the end of the heap.
AsOffset(p) == IF p = NULL THEN HeapSize ELSE p

\* What the loop over the free list has summed when it is at p, the loop over the
\* memory has summed when it is there.
SummedAt(p, sum) ==
  \E e \in StatInv : StatRun[e] = StatRun[StatFirst] /\ e.offset = AsOffset(p) /\ e.free = sum

LEMMA SummedFirst ==
  ASSUME Sound
  PROVE  SummedAt(free_list, 0)
<1> DEFINE t == AsOffset(free_list)
<1>1. t \in DOMAIN hdr \cup {HeapSize} /\ 0 <= t
  BY FreeListFacts DEF AsOffset
<1>2. \A a \in FreeBlocks : ~ (0 <= a /\ a < t)
  BY FreeListFacts DEF AsOffset
<1>3. StatFirst \in StatInv /\ StatFirst.offset = 0 /\ StatFirst.free = 0
  BY StatLoopEnds DEF StatFirst
<1> HIDE DEF t
<1>4. \E e \in StatInv : StatRun[e] = StatRun[StatFirst] /\ e.offset = t /\ e.free = 0
  BY <1>1, <1>2, <1>3, WalkOver
<1>5. QED  BY <1>4 DEF SummedAt, t

LEMMA SummedNext ==
  ASSUME Sound, NEW p \in FreeBlocks, NEW sum, SummedAt(p, sum)
  PROVE  SummedAt(hdr[p].next, sum + hdr[p].size)
<1> DEFINE t == AsOffset(hdr[p].next)
           size == hdr[p].size
<1>1. PICK e \in StatInv : StatRun[e] = StatRun[StatFirst] /\ e.offset = p /\ e.free = sum
  BY FreeListFacts DEF SummedAt, AsOffset
<1> DEFINE n == StatBody[e]
<1>2. /\ p \in DOMAIN hdr /\ p \in Nat /\ p # NULL /\ HeapSize \in Nat
      /\ hdr[p].next \in FreeBlocks \cup {NULL} /\ (hdr[p].next # NULL => hdr[p].next > p)
  BY FreeListFacts
<1>3. /\ e \in StatGo /\ size \in Nat /\ size > 0 /\ n \in StatInv /\ n.offset = p + size
      /\ n.free = sum + size
  BY <1>1, <1>2, StatStep
<1>4. StatRun[n] = StatRun[StatFirst]
  BY <1>1, <1>3, StatUnfolds DEF StatInv
<1>5. t \in DOMAIN hdr \cup {HeapSize} /\ p + size <= t
  BY <1>2, FreeListFacts, Blocks DEF AsOffset
<1>6. ASSUME NEW a \in FreeBlocks, p + size <= a, a < t
      PROVE  FALSE
  <2>1. a \in Nat /\ a > p
    BY <1>2, <1>3, <1>6, FreeListFacts
  <2>2. hdr[p].next # NULL /\ hdr[p].next <= a
    BY <2>1, FreeListFacts
  <2>3. t <= a
    BY <2>2 DEF AsOffset
  <2>4. t \in Nat
    BY <1>5, Blocks
  <2> HIDE DEF t
  <2>5. QED  BY <1>6, <2>1, <2>3, <2>4
<1> HIDE DEF t, n, size
<1>7. \E d \in StatInv : StatRun[d] = StatRun[n] /\ d.offset = t /\ d.free = n.free
  <2>1. n.offset <= t /\ \A a \in FreeBlocks : ~ (n.offset <= a /\ a < t)
    BY <1>3, <1>5, <1>6
  <2>2. QED  BY <1>3, <1>5, <2>1, WalkOver
<1>8. QED  BY <1>3, <1>4, <1>7 DEF SummedAt, t, size

LEMMA ValidateLoopEnds ==
  ASSUME Sound
  PROVE  LET end == ValidateLoop
         IN  end.h = NULL /\ SummedAt(NULL, end.free_l)
<1> DEFINE S == [h : Place, prev : Place, free_l : Nat]
           go == {s \in S : /\ s.h # NULL /\ is_type(s.h, HT_FREE)
                            /\ s.prev # NULL => s.h >= s.prev}
           body == [s \in go |->
             [h |-> hdr[s.h].next, prev |-> s.h, free_l |-> s.free_l + hdr[s.h].size]]
           first == [h |-> free_list, prev |-> NULL, free_l |-> 0]
           I == {s \in S : /\ s.h \in FreeBlocks \cup {NULL} /\ s.prev \in FreeBlocks \cup {NULL}
                           /\ s.prev # NULL /\ s.h # NULL => s.h > s.prev
                           /\ SummedAt(s.h, s.free_l)}
           rank == [s \in I |-> Left(s.h)]
           end == While(S, go, body)[first]
<1>1. \A s \in go : body[s] \in S
  <2>1. SUFFICES ASSUME NEW s \in go
                 PROVE  [h |-> hdr[s.h].next, prev |-> s.h, free_l |-> s.free_l + hdr[s.h].size] \in S
    OBVIOUS
  <2>2. s.h \in DOMAIN hdr /\ s.h \in Place /\ s.free_l \in Nat
    BY DEF Place
  <2>3. hdr[s.h].next \in Place /\ hdr[s.h].size \in Nat
    BY <2>2, FreeListFacts DEF Place
  <2>4. QED  BY <2>2, <2>3
<1>2. I \in SUBSET S
  OBVIOUS
<1>3. \A s \in I : rank[s] \in Nat
  <2>1. SUFFICES ASSUME NEW s \in I PROVE Left(s.h) \in Nat
    OBVIOUS
  <2>2. s.h = NULL \/ s.h \in FreeBlocks
    OBVIOUS
  <2>3. QED  BY <2>2, LeftFalls DEF Left
<1>4. \A s \in I : s \in go => body[s] \in I /\ rank[body[s]] < rank[s]
  <2>1. SUFFICES ASSUME NEW s \in I, s \in go PROVE body[s] \in I /\ rank[body[s]] < rank[s]
    OBVIOUS
  <2>2. /\ s.h \in FreeBlocks /\ SummedAt(s.h, s.free_l) /\ body[s] \in S
        /\ body[s] = [h |-> hdr[s.h].next, prev |-> s.h, free_l |-> s.free_l + hdr[s.h].size]
    BY <1>1, <2>1
  <2>3. SummedAt(hdr[s.h].next, s.free_l + hdr[s.h].size)
    BY <2>2, SummedNext
  <2>4. hdr[s.h].next \in FreeBlocks \cup {NULL} /\ (hdr[s.h].next # NULL => hdr[s.h].next > s.h)
    BY <2>2, FreeListFacts
  <2>5. body[s] \in I
    <3> DEFINE e == body[s]
    <3>1. e.h = hdr[s.h].next /\ e.prev = s.h /\ e.free_l = s.free_l + hdr[s.h].size /\ e \in S
      BY <2>2
    <3> HIDE DEF e, body, go
    <3>2. e.h \in FreeBlocks \cup {NULL} /\ e.prev \in FreeBlocks \cup {NULL}
      BY <2>2, <2>4, <3>1
    <3>3. e.prev # NULL /\ e.h # NULL => e.h > e.prev
      BY <2>4, <3>1
    <3>4. SummedAt(e.h, e.free_l)
      BY <2>3, <3>1
    <3> HIDE DEF S
    <3>5. e \in I
      BY <3>1, <3>2, <3>3, <3>4
    <3>6. QED  BY <3>5 DEF e
  <2>6. rank[body[s]] = Left(hdr[s.h].next) /\ rank[s] = Left(s.h)
    <3>1. body[s].h = hdr[s.h].next
      BY <2>2
    <3> HIDE DEF I, body, go
    <3>2. rank[body[s]] = Left(body[s].h) /\ rank[s] = Left(s.h)
      BY <2>1, <2>5
    <3>3. QED  BY <3>1, <3>2
  <2>7. QED  BY <2>2, <2>5, <2>6, LeftFalls
<1>5. first \in I
  BY FreeListFacts, SummedFirst DEF Place
<1>6. end \in I /\ end \notin go
  <2> HIDE DEF S, go, body, I, rank, first
  <2>1. QED  BY <1>1, <1>2, <1>3, <1>4, <1>5, WhileEnds
<1>7. ValidateLoop = end
  BY DEF ValidateLoop
<1> HIDE DEF end
<1>8. end.h = NULL
  <2>1. SUFFICES ASSUME end.h \in FreeBlocks PROVE end \in go
    BY <1>6
  <2>2. end.h # NULL /\ is_type(end.h, HT_FREE) /\ end.h \in Nat
    BY <2>1, FreeListFacts DEF FreeBlocks
  <2>3. end.prev # NULL => end.h >= end.prev
    <3>1. end.prev # NULL => end.prev \in Nat /\ end.h > end.prev
      BY <1>6, <2>2, FreeListFacts
    <3>2. QED  BY <2>2, <3>1
  <2>4. QED  BY <1>6, <2>2, <2>3
<1>9. QED  BY <1>6, <1>7, <1>8

LEMMA ValidateFromInvariant == Sound => ValidatePasses
<1> SUFFICES ASSUME Sound PROVE ValidatePasses
  OBVIOUS
<1>1. /\ StatLoop = StatRun[StatFirst]
      /\ StatLoop.offset = HeapSize /\ StatLoop.used + StatLoop.free = HeapSize
  BY StatLoopEnds
<1>2. ValidateLoop.h = NULL /\ SummedAt(NULL, ValidateLoop.free_l)
  BY ValidateLoopEnds
<1>3. PICK e \in StatInv :
        StatRun[e] = StatRun[StatFirst] /\ e.offset = HeapSize /\ e.free = ValidateLoop.free_l
  BY <1>2 DEF SummedAt, AsOffset
<1>4. e \notin StatGo /\ e \in StatStates
  BY <1>3 DEF StatInv, StatGo
<1>5. StatRun[e] = e
  BY <1>4, StatUnfolds
<1>6. StatLoop.free = ValidateLoop.free_l
  BY <1>1, <1>3, <1>5
<1>7. QED  BY <1>1, <1>2, <1>6 DEF ValidatePasses

\* The loop of list_insert_ordered stops at the one place that keeps the list in
\* the order of addresses, for every header that is not on it.
THEOREM InsertLoopIsExact == Spec => []InsertLoopAgrees
<1>1. IInv => InsertLoopAgrees
  BY InsertLoopFromInvariant DEF IInv, Sound
<1>2. QED  BY Invariance, <1>1, PTL

\* The loop of heap_alloc finds the first of the smallest free blocks that have room.
THEOREM BestFitLoopIsExact == Spec => []BestFitLoopAgrees
<1>1. IInv => BestFitLoopAgrees
  BY BestFitLoopFromInvariant DEF IInv, Sound
<1>2. QED  BY Invariance, <1>1, PTL

\* heap_validate never exits: its loops reach their ends and its sums agree.
THEOREM HeapValidates == Spec => []ValidatePasses
<1>1. IInv => ValidatePasses
  BY ValidateFromInvariant DEF IInv, Sound
<1>2. QED  BY Invariance, <1>1, PTL
=============================================================================

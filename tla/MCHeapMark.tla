----------------------------- MODULE MCHeapMark -----------------------------
(***************************************************************************)
(* Two families of graphs.  Small: every graph of three objects with two   *)
(* slots each, below the root 1, or the roots 1 and 3.  Fan: five objects  *)
(* below the root 1, which refers to 2 and 3, 2 to 4, and the other slots  *)
(* are free.  Three levels are what it takes for the last element of the   *)
(* chain to be linked into the ring while it still waits in the chain,     *)
(* which then runs on into the ring.                                       *)
(***************************************************************************)
EXTENDS HeapMark

SmallOrNull == {1, 2, 3, NULL}
Alone == [s \in Slots |-> NULL]

Small ==
  /\ \E g \in [{1, 2, 3} -> [Slots -> SmallOrNull]] :
       refs = [o \in Object |-> IF o \in {1, 2, 3} THEN g[o] ELSE Alone]
  /\ memory \in {<<1, NULL>>, <<1, 3>>}

Fan ==
  /\ \E two, four, five \in ObjectOrNull, three \in [Slots -> ObjectOrNull] :
       refs = <<<<2, 3>>, <<4, two>>, three, <<four, NULL>>, <<five, NULL>>>>
  /\ memory = <<NULL, 1>>

MCInit == (Small \/ Fan) /\ InitMark

MCSpec == MCInit /\ [][Next]_vars /\ WF_vars(Next)
=============================================================================

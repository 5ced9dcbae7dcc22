----------------------------- MODULE MemoryDocs -----------------------------
(***************************************************************************)
(* Four statements the repository makes about arrays and static fields, in *)
(* jni.h, jarray.c and frame.c, against the memory as it is.  The history  *)
(* variable refuted holds the statements that were wrong so far.           *)
(***************************************************************************)
EXTENDS Memory

VARIABLE refuted

docvars == <<mvars, refuted>>

\* frame.c:212, "Clear static area:".
StaticAreaCleared == \A address \in DOMAIN staticMemory : staticMemory[address] = 0

\* jni.h:267 and 279, "\throws ArrayIndexOutOfBoundsException if start < 0 or
\* start+len > length of array".
RegionChecked ==
  LET insn == event'.insn
      array == event'.ref
  IN  insn[1] \in {"SetByteArrayRegion", "GetByteArrayRegion"} /\ array # 0 =>
        (event'.outcome.kind = "ArrayIndexOutOfBoundsException"
           <=> insn[2] < 0 \/ insn[2] + insn[3] > GetArrayLength(array))

\* jni.h:139, "This function returns the long element at position index from the
\* array": of an array that has room for it.
LongElementReturned ==
  LET insn == event'.insn
      array == event'.ref
  IN  /\ insn[1] = "load" /\ event'.outcome.kind = "result"
      /\ blocks[array].type = "long"
      /\ Element(array, insn[2] + 1) <= End(array) * ALIGN
      => event'.outcome.values = <<Number(ElementBytes(array, insn[2]))>>

\* jarray.c:42, "\return NULL, if an exception has been thrown; otherwise a valid
\* pointer is returned".
PointersValid == ArraysHaveRoom

Refuted(statement, holds) == IF holds THEN {} ELSE {statement}

DocsInit == Init /\ refuted = Refuted("frame.c:212", StaticAreaCleared)
DocsNext ==
  /\ Next
  /\ refuted' = refuted \cup Refuted("jni.h:267", RegionChecked)
                        \cup Refuted("jni.h:139", LongElementReturned)
                        \cup Refuted("jarray.c:42", PointersValid')

DocsSpec == DocsInit /\ [][DocsNext]_docvars

\* Of every execution one of the four statements at least is true, be it
\* frame.c:212 of the start, jni.h:267 of regions, jni.h:139 of longs or
\* jarray.c:42 of pointers.  An execution that violates this refutes all four.
SomeStatementHolds ==
  refuted # {"frame.c:212", "jni.h:267", "jni.h:139", "jarray.c:42"}
=============================================================================

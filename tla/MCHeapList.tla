----------------------------- MODULE MCHeapList -----------------------------
EXTENDS HeapListLoops

MCRequests == {0, 1, 2}
MCMarks == {0, 1}
=============================================================================

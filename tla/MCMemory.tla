------------------------------ MODULE MCMemory ------------------------------
EXTENDS Memory
MCInts == {7}
MCFieldInts == {0, -6}
MCLongs == {0, -6}
MCCounts == {-1, 1, 2}
MCIndexes == -1 .. 2
MCLengths == {1, 2}
MCBuffer == <<-1, 1, -2>>

\* The hypotheses of the theorems hold for this instance.
ASSUME SizesFit /\ ReferencesFit /\ RegionsNotEmpty /\ LongsFit
=============================================================================

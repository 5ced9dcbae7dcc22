---------------------------- MODULE MCMemoryDocs ----------------------------
EXTENDS MemoryDocs
MCInts == {7}
MCFieldInts == {0}
MCLongs == {100}
MCCounts == {1, 7}
MCIndexes == {0}
MCLengths == {0}
MCBuffer == <<7>>
=============================================================================

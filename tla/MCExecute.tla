----------------------------- MODULE MCExecute -----------------------------
EXTENDS Execute
=============================================================================

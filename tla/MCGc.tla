-------------------------------- MODULE MCGc --------------------------------
EXTENDS Gc, TLC

Symmetry == Permutations(Object)
=============================================================================

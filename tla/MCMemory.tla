------------------------------ MODULE MCMemory ------------------------------
\* Bounds for TLC: two pointers, and a third block for the moment in which resize holds
\* the old block and the new one; three bytes, so that a pattern of two leaves a rest.
EXTENDS Memory, TLC

CONSTANTS b1, b2, b3, x, y

MCBlock == {b1, b2, b3}
MCVar == {x, y}
MCValue == {-1, 0, 5}
Symm == Permutations(MCBlock) \cup Permutations(MCVar)
=============================================================================

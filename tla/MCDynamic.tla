------------------------------ MODULE MCDynamic ------------------------------
\* Bounds for TLC: three objects, so that a chain of moves can meet; two libraries, so that
\* an object can take another one than it had; as many handles on one as objects can hold.
EXTENDS Dynamic, TLC

CONSTANTS o1, o2, o3, l1, l2

MCObj == {o1, o2, o3}
MCLib == {l1, l2}
Symm == Permutations(MCObj) \cup Permutations(MCLib)
=============================================================================

---------------------------- MODULE MCEventQueue ----------------------------
\* Bounds for TLC: three slots, so that memmove has a middle slot to move; as many
\* payload blocks, so that every slot can own one and malloc can also fail.  The refinement is
\* a step property and treats blocks, identifiers and data alike, so symmetry is sound for it.
EXTENDS EventQueue, TLC

CONSTANTS b1, b2, b3, e1, e2, d1, d2

MCBlock == {b1, b2, b3}
MCId == {e1, e2}
MCData == {d1, d2}

Symm == Permutations(MCBlock) \cup Permutations(MCId) \cup Permutations(MCData)
=============================================================================

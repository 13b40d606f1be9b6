----------------------------- MODULE MCEventWait -----------------------------
\* Bounds for TLC: a clock of four ticks a second and two "milliseconds" a second, so
\* that a tick is less than the unit of timeout_ms as in the code.  Timeout 3 expires after
\* six ticks, 5 is still open at eight ticks, where the product overflows a clock_t of five
\* bits, and the uint32_t of three bits keeps only a part of the negative quotient.
EXTENDS EventWait

CONSTANTS e1, e2

MCId == {e1, e2}
MCTimeouts == {0, 3, 5}
=============================================================================

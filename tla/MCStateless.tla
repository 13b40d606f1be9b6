----------------------------- MODULE MCStateless -----------------------------
\* Bounds for TLC: tables of three flags over two bits, names of one and three characters,
\* texts of two pieces; /proc/cpuinfo with three lines; a clock of two steps a second, set
\* back before 1970 or not; all times of the day and all time zones in quarters of an hour.
EXTENDS Stateless

MCWidth == [n \in Name |-> IF n = "a" THEN 1 ELSE 3]
MCInstant == -3 .. 5
MCQuarter == 0 .. 95
MCZone == -48 .. 56
=============================================================================

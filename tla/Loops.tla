-------------------------------- MODULE Loops --------------------------------
(***************************************************************************)
(* Induction without operators as parameters.  A property of the naturals  *)
(* is a set here, and the body of a loop a function, so that the provers   *)
(* can be given both.  The modules that model a loop of the code as a      *)
(* recursive function prove with these what the loop computes for data of  *)
(* any size.                                                               *)
(***************************************************************************)
EXTENDS Integers, FiniteSetTheorems, TLAPS

\* Every set of naturals that is not empty has a least element: the intervals that begin
\* at 0 and end in the set are finite, and inclusion is well-founded on finite sets.
LEMMA Least ==
  ASSUME NEW S, S \subseteq Nat, S # {}
  PROVE  \E n \in S : \A m \in S : n <= m
  <1> DEFINE T == {0 .. n : n \in S}
             Smaller == StrictSubsetOrdering(Nat)
  <1>1. T \subseteq FiniteSubsetsOf(Nat)
    <2>1. ASSUME NEW n \in S PROVE 0 .. n \in SUBSET Nat /\ IsFiniteSet(0 .. n)
      <3>1. n \in Int /\ 0 \in Int
        OBVIOUS
      <3> QED
        BY <3>1, FS_Interval
    <2> QED
      BY <2>1 DEF FiniteSubsetsOf
  <1>2. T # {}
    OBVIOUS
  <1>3. PICK x \in T : \A y \in T : <<y, x>> \notin Smaller
    BY <1>1, <1>2, FS_StrictSubsetOrderingWellFounded, WFMin
  <1>4. PICK n \in S : x = 0 .. n
    OBVIOUS
  <1>5. ASSUME NEW m \in S, m < n PROVE FALSE
    <2>1. 0 .. m \subseteq 0 .. n /\ 0 .. m # 0 .. n
      BY <1>5
    <2>2. <<0 .. m, x>> \in Smaller
      BY <2>1, <1>4 DEF StrictSubsetOrdering
    <2> QED
      BY <2>2, <1>3
  <1> QED
    BY <1>4, <1>5

\* What holds before a loop of N rounds and is kept by each of them holds after any number.
LEMMA Induct ==
  ASSUME NEW N \in Nat, NEW S, 0 \in S, \A n \in 0 .. N - 1 : n \in S => n + 1 \in S
  PROVE  0 .. N \subseteq S
  <1> DEFINE B == {n \in 0 .. N : n \notin S}
  <1>1. SUFFICES ASSUME B # {} PROVE FALSE
    OBVIOUS
  <1>2. PICK n \in B : \A m \in B : n <= m
    <2>1. B \subseteq Nat
      OBVIOUS
    <2> QED
      BY <1>1, <2>1, Least, Zenon
  <1>3. n \in 1 .. N /\ n - 1 \in 0 .. N - 1 /\ n - 1 \notin B
    BY <1>2
  <1> QED
    BY <1>3

\* A set of positions that has an element has a first and, within bounds, a last one.
LEMMA FirstAndLast ==
  ASSUME NEW N \in Nat, NEW S, S \subseteq 1 .. N, S # {}
  PROVE  /\ \E n \in S : \A m \in S : n <= m
         /\ \E n \in S : \A m \in S : m <= n
  <1>1. \E n \in S : \A m \in S : n <= m
    <2>1. S \subseteq Nat
      OBVIOUS
    <2> QED
      BY <2>1, Least
  <1>2. \E n \in S : \A m \in S : m <= n
    <2> DEFINE T == {N - n : n \in S}
    <2>1. T \subseteq Nat /\ T # {}
      <3>1. \A n \in S : N - n \in Nat
        OBVIOUS
      <3> QED
        BY <3>1
    <2>2. PICK t \in T : \A u \in T : t <= u
      BY <2>1, Least, Zenon
    <2>3. PICK n \in S : t = N - n
      OBVIOUS
    <2>4. \A m \in S : N - n <= N - m
      BY <2>2, <2>3
    <2> QED
      BY <2>4
  <1> QED
    BY <1>1, <1>2

-----------------------------------------------------------------------------
\* Quotient and remainder, for any divisor.
LEMMA DivMod ==
  ASSUME NEW n \in Nat \ {0}, NEW t \in Nat
  PROVE  t \div n \in Nat /\ t % n \in 0 .. n - 1 /\ t = (t \div n) * n + (t % n)
  <1>1. t \div n \in Int /\ t % n \in 0 .. n - 1
    OBVIOUS
  <1>2. t = (t \div n) * n + (t % n)
    OBVIOUS
  <1>3. \A d \in Int : d < 0 => d * n <= -n
    OBVIOUS
  <1>4. t \div n \in Nat
    BY <1>1, <1>2, <1>3
  <1> QED
    BY <1>1, <1>2, <1>4

LEMMA ModOf ==
  ASSUME NEW n \in Nat \ {0}, NEW q \in Nat, NEW r \in 0 .. n - 1
  PROVE  (q * n + r) % n = r /\ (q * n + r) \div n = q
  OBVIOUS
-----------------------------------------------------------------------------
\* f is what a loop computes that starts with c, and whose k-th round is the function step[k].
IsRun(f, c, N, step) == f[0] = c /\ \A k \in 1 .. N : f[k] = step[k][f[k - 1]]

\* Every such loop computes something: f exists.
LEMMA Recursion ==
  ASSUME NEW N \in Nat, NEW S, NEW c \in S, NEW step \in [1 .. N -> [S -> S]]
  PROVE  \E f \in [0 .. N -> S] : IsRun(f, c, N, step)
  <1> DEFINE Good == {n \in 0 .. N : \E f \in [0 .. N -> S] : IsRun(f, c, n, step)}
  <1>1. 0 \in Good
    <2> DEFINE f == [k \in 0 .. N |-> c]
    <2>1. f \in [0 .. N -> S] /\ IsRun(f, c, 0, step)
      BY DEF IsRun
    <2> HIDE DEF f
    <2> QED
      BY <2>1
  <1>2. ASSUME NEW n \in 0 .. N - 1, n \in Good PROVE n + 1 \in Good
    <2>1. PICK f \in [0 .. N -> S] : IsRun(f, c, n, step)
      BY <1>2
    <2> DEFINE g == [f EXCEPT ![n + 1] = step[n + 1][f[n]]]
    <2>2. g \in [0 .. N -> S]
      BY <2>1
    <2>3. IsRun(g, c, n + 1, step)
      BY <2>1 DEF IsRun
    <2>4. n + 1 \in 0 .. N
      OBVIOUS
    <2> HIDE DEF g
    <2> QED
      BY <2>2, <2>3, <2>4
  <1>3. N \in Good
    <2> HIDE DEF Good
    <2>1. 0 .. N \subseteq Good
      BY <1>1, <1>2, Induct
    <2> QED
      BY <2>1
  <1>4. \E f \in [0 .. N -> S] : IsRun(f, c, N, step)
    BY <1>3
  <1> QED
    BY <1>4
=============================================================================

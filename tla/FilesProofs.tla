----------------------------- MODULE FilesProofs -----------------------------
(***************************************************************************)
(* Proofs about Files, for trees and links of any shape and any number of  *)
(* steps of the other program: what recursive deletion may reach, what it  *)
(* deletes, and what a listing holds.                                      *)
(***************************************************************************)
EXTENDS Files, Loops, SequenceTheorems

-----------------------------------------------------------------------------
(* The tree *)

\* Going up from a node: it, and what lies above its directory.
LEMMA UpWorks == \A m \in Node : Up[m] = {m} \cup (IF m = ROOT THEN {} ELSE Up[Parent[m]])
  <1> DEFINE Over(m, A) == m \in A /\ \A y \in A \ {ROOT} : Parent[y] \in A
             above(m) == {x \in Node : \A A \in SUBSET Node : Over(m, A) => x \in A}
             F(f) == f = [m \in Node |-> {m} \cup (IF m = ROOT THEN {} ELSE f[Parent[m]])]
             g == [m \in Node |-> above(m)]
  <1>1. ASSUME NEW m \in Node
        PROVE  above(m) = {m} \cup (IF m = ROOT THEN {} ELSE above(Parent[m]))
    <2>0. Parent[m] \in Node /\ ROOT \in Node /\ \A y \in Node : Parent[y] \in Node
      BY FilesAssumption
    <2>1. m \in above(m)
      OBVIOUS
    <2>2. ASSUME m # ROOT PROVE above(Parent[m]) \subseteq above(m)
      <3>1. ASSUME NEW A \in SUBSET Node, Over(m, A) PROVE Over(Parent[m], A)
        BY <2>2, <3>1
      <3> QED
        BY <3>1
    <2>3. ASSUME m = ROOT PROVE above(m) \subseteq {m}
      <3>1. {ROOT} \in SUBSET Node /\ Over(m, {ROOT})
        BY <2>0, <2>3
      <3> QED
        BY <2>3, <3>1
    <2>4. ASSUME m # ROOT, NEW x \in above(m), x # m PROVE x \in above(Parent[m])
      <3>1. x \in Node
        OBVIOUS
      <3>2. ASSUME NEW A \in SUBSET Node, Over(Parent[m], A) PROVE x \in A
        <4>1. A \cup {m} \in SUBSET Node /\ Over(m, A \cup {m})
          BY <3>2
        <4>2. x \in A \cup {m}
          BY <4>1
        <4> QED
          BY <2>4, <4>2
      <3> QED
        BY <3>1, <3>2
    <2> HIDE DEF above
    <2> QED
      BY <2>1, <2>2, <2>3, <2>4
  <1>2. F(g)
    <2> HIDE DEF above
    <2>1. \A m \in Node : Parent[m] \in Node
      BY FilesAssumption
    <2> QED
      BY <1>1, <2>1
  <1>3. Up = CHOOSE f : F(f)
    BY DEF Up
  <1>4. F(Up)
    <2> HIDE DEF g
    <2> QED
      BY <1>2, <1>3, Zenon
  <1> QED
    BY <1>4, Zenon

LEMMA UpSteps ==
  /\ \A n \in Node : n \in Up[n] /\ n \in Below(n)
  /\ \A n \in Node \ {ROOT} : Parent[n] \in Node /\ Up[n] = {n} \cup Up[Parent[n]]
  /\ Up[ROOT] = {ROOT}
  BY UpWorks, FilesAssumption DEF Below

\* A set of nodes that has their directories too is empty.
LEMMA Climb ==
  ASSUME NEW S, S \subseteq Node \ {ROOT}, \A n \in S : Parent[n] \in S
  PROVE  S = {}
  BY TreeAssumption

LEMMA UpTransitive ==
  ASSUME NEW n \in Node, NEW m \in Node, NEW x \in Node, n \in Up[m], m \in Up[x]
  PROVE  n \in Up[x]
  <1> DEFINE S == {y \in Node : m \in Up[y] /\ n \notin Up[y]}
  <1>1. S \subseteq Node \ {ROOT}
    BY UpSteps
  <1>2. ASSUME NEW y \in S PROVE Parent[y] \in S
    <2>1. y # m /\ y # ROOT /\ y \in Node /\ m \in Up[y] /\ n \notin Up[y]
      BY <1>1
    <2>2. Parent[y] \in Node /\ Up[y] = {y} \cup Up[Parent[y]]
      BY <2>1, UpSteps
    <2> QED
      BY <2>1, <2>2
  <1> HIDE DEF S
  <1>3. S = {}
    BY <1>1, <1>2, Climb
  <1> QED
    BY <1>3 DEF S

LEMMA BelowParts ==
  /\ \A n \in Node : \A m \in Below(n) : m \in Node /\ Below(m) \subseteq Below(n)
  /\ \A n \in Node \ {ROOT} : n \in Below(Parent[n])
  BY UpTransitive, UpSteps DEF Below

\* What exists lies in a directory, ...
What == {"none", "file", "dir", "link"}
Tree(k) == \A n \in Node \ {ROOT} : k[n] # "none" => k[Parent[n]] = "dir"

\* ... so nothing lies below what is none, ...
LEMMA NothingBelow ==
  ASSUME NEW k, Tree(k), NEW n \in Node, k[n] # "dir", NEW m \in Below(n), m # n
  PROVE  k[m] = "none"
  <1> DEFINE S == {y \in Below(n) : y # n /\ k[y] # "none"}
  <1>1. S \subseteq Node \ {ROOT}
    BY UpSteps DEF Below
  <1>2. ASSUME NEW y \in S PROVE Parent[y] \in S
    <2>1. y \in Node \ {ROOT} /\ n \in Up[y] /\ y # n /\ k[y] # "none"
      BY <1>1 DEF Below
    <2>2. Parent[y] \in Node /\ n \in Up[Parent[y]]
      BY <2>1, UpSteps
    <2>3. k[Parent[y]] = "dir"
      BY <2>1 DEF Tree
    <2> QED
      BY <2>2, <2>3 DEF Below
  <1> HIDE DEF S
  <1>3. S = {}
    BY <1>1, <1>2, Climb
  <1> QED
    BY <1>3 DEF S

\* ... and what lies below a directory is, or is below, one of its entries.
LEMMA EntryAbove ==
  ASSUME NEW k, Tree(k), NEW n \in Node, NEW m \in Below(n), m # n, k[m] # "none"
  PROVE  \E y \in EntriesOf(k, n) : m \in Below(y)
  <1> DEFINE S == {x \in Below(n) : x # n /\ k[x] # "none"
                                      /\ \A y \in EntriesOf(k, n) : x \notin Below(y)}
  <1>1. S \subseteq Node \ {ROOT}
    BY UpSteps DEF Below
  <1>2. ASSUME NEW x \in S PROVE Parent[x] \in S
    <2>1. x \in Node \ {ROOT} /\ n \in Up[x] /\ x # n /\ k[x] # "none"
      BY <1>1 DEF Below
    <2>2. Parent[x] \in Node /\ n \in Up[Parent[x]] /\ Up[Parent[x]] \subseteq Up[x]
      BY <2>1, UpSteps
    <2>3. k[Parent[x]] = "dir"
      BY <2>1 DEF Tree
    <2>4. Parent[x] # n
      <3>1. x \in Below(x)
        BY <2>1, UpSteps
      <3> QED
        BY <2>1, <3>1 DEF EntriesOf
    <2>5. ASSUME NEW y \in EntriesOf(k, n) PROVE Parent[x] \notin Below(y)
      BY <2>1, <2>2 DEF Below
    <2> QED
      BY <2>2, <2>3, <2>4, <2>5 DEF Below
  <1> HIDE DEF S
  <1>3. S = {}
    BY <1>1, <1>2, Climb
  <1> QED
    BY <1>3 DEF S

-----------------------------------------------------------------------------
(* Links *)

\* The nodes a path goes through.
PathRun(f, n) ==
  /\ f[0] = n
  /\ \A i \in 1 .. MAX_LINKS :
       f[i] = IF kind[f[i - 1]] = "link" THEN Target[f[i - 1]] ELSE f[i - 1]

LEMMA FollowRuns ==
  ASSUME NEW n \in Node
  PROVE  \E f \in [0 .. MAX_LINKS -> Node] :
           /\ PathRun(f, n)
           /\ Follow(n) = IF kind[f[MAX_LINKS]] = "link" THEN NULL ELSE f[MAX_LINKS]
  <1> DEFINE N == MAX_LINKS
             next(m) == IF kind[m] = "link" THEN Target[m] ELSE m
             step == [k \in 1 .. N |-> [m \in Node |-> next(m)]]
             F(f) == f = [i \in 0 .. N |-> IF i = 0 THEN n ELSE
                            IF kind[f[i - 1]] = "link" THEN Target[f[i - 1]] ELSE f[i - 1]]
             z == CHOOSE f : F(f)
  <1>1. Follow(n) = IF kind[z[N]] = "link" THEN NULL ELSE z[N]
    BY DEF Follow, z
  <1>2. N \in Nat /\ \A m \in Node : next(m) \in Node
    BY FilesAssumption
  <1>3. step \in [1 .. N -> [Node -> Node]]
    <2> HIDE DEF next
    <2> QED
      BY <1>2
  <1>4. PICK f \in [0 .. N -> Node] : IsRun(f, n, N, step)
    <2> HIDE DEF step, N
    <2> QED
      BY <1>2, <1>3, Recursion
  <1>5. \A i \in 1 .. N : f[i - 1] \in Node /\ f[i] = next(f[i - 1])
    <2> SUFFICES ASSUME NEW i \in 1 .. N PROVE f[i - 1] \in Node /\ f[i] = next(f[i - 1])
      OBVIOUS
    <2>1. i - 1 \in 0 .. N /\ f[i - 1] \in Node
      BY <1>2
    <2>2. f[i] = step[i][f[i - 1]]
      BY <1>4 DEF IsRun
    <2> QED
      BY <2>1, <2>2
  <1>6. F(f)
    <2>1. f[0] = n
      BY <1>4 DEF IsRun
    <2> HIDE DEF N, step
    <2>2. \A i \in 0 .. N : i = 0 \/ i \in 1 .. N
      BY <1>2
    <2> QED
      BY <1>2, <1>5, <2>1, <2>2
  <1>7. F(z)
    BY <1>6, Zenon
  <1> HIDE DEF z
  <1>8. \A i \in 0 .. N : z[i] = IF i = 0 THEN n ELSE next(z[i - 1])
    BY <1>7, Zenon
  <1>9. DOMAIN z = 0 .. N /\ z = [i \in 0 .. N |-> z[i]]
    <2> HIDE DEF N
    <2> QED
      BY <1>7
  <1>10. z[0] = n /\ \A i \in 1 .. N : z[i] = next(z[i - 1])
    <2> HIDE DEF next
    <2> QED
      BY <1>2, <1>8
  <1> DEFINE Right == {i \in 0 .. N : z[i] \in Node}
  <1>11. 0 \in Right
    BY <1>2, <1>10
  <1>12. ASSUME NEW i \in 0 .. N - 1, i \in Right PROVE i + 1 \in Right
    <2>1. i + 1 \in 1 .. N /\ i + 1 \in 0 .. N /\ i + 1 - 1 = i /\ z[i] \in Node
      BY <1>2, <1>12
    <2> HIDE DEF next
    <2> QED
      BY <1>2, <1>10, <2>1
  <1>13. 0 .. N \subseteq Right
    <2> HIDE DEF Right, N
    <2> QED
      BY <1>2, <1>11, <1>12, Induct
  <1>14. z \in [0 .. N -> Node]
    <2> HIDE DEF N
    <2> QED
      BY <1>9, <1>13
  <1> QED
    BY <1>1, <1>10, <1>14 DEF PathRun

\* A set of nodes that has all that lies below, or is met by way of links.
Closed(S, k) == \A n \in S : Below(n) \subseteq S /\ (k[n] = "link" => Target[n] \in S)

LEMMA Followed ==
  ASSUME NEW n \in Node
  PROVE  /\ Follow(n) \in Node \cup {NULL}
         /\ Follow(n) # NULL => kind[Follow(n)] # "link"
         /\ kind[n] # "link" => Follow(n) = n
         /\ \A S : n \in S /\ Closed(S, kind) /\ Follow(n) # NULL => Follow(n) \in S
  <1> DEFINE N == MAX_LINKS
  <1>1. PICK f \in [0 .. N -> Node] :
          PathRun(f, n) /\ Follow(n) = IF kind[f[N]] = "link" THEN NULL ELSE f[N]
    BY FollowRuns
  <1>2. N \in Nat /\ NULL \notin Node
    BY FilesAssumption
  <1>3. f[N] \in Node
    BY <1>2
  <1>4. kind[n] # "link" => f[N] = n
    <2> SUFFICES ASSUME kind[n] # "link" PROVE f[N] = n
      OBVIOUS
    <2> DEFINE Right == {i \in 0 .. N : f[i] = n}
    <2>1. 0 \in Right
      BY <1>1, <1>2 DEF PathRun
    <2>2. ASSUME NEW i \in 0 .. N - 1, i \in Right PROVE i + 1 \in Right
      <3>1. i + 1 \in 1 .. N /\ i + 1 \in 0 .. N /\ i + 1 - 1 = i /\ f[i] = n
        BY <1>2, <2>2
      <3> QED
        BY <1>1, <3>1 DEF PathRun
    <2>3. 0 .. N \subseteq Right
      <3> HIDE DEF Right, N
      <3> QED
        BY <1>2, <2>1, <2>2, Induct
    <2> QED
      BY <1>2, <2>3
  <1>5. ASSUME NEW S, n \in S, Closed(S, kind) PROVE f[N] \in S
    <2> DEFINE Right == {i \in 0 .. N : f[i] \in S}
    <2>1. 0 \in Right
      BY <1>1, <1>2, <1>5 DEF PathRun
    <2>2. ASSUME NEW i \in 0 .. N - 1, i \in Right PROVE i + 1 \in Right
      <3>1. i + 1 \in 1 .. N /\ i + 1 \in 0 .. N /\ i + 1 - 1 = i /\ f[i] \in S
        BY <1>2, <2>2
      <3> QED
        BY <1>1, <1>5, <3>1 DEF PathRun, Closed
    <2>3. 0 .. N \subseteq Right
      <3> HIDE DEF Right, N
      <3> QED
        BY <1>2, <2>1, <2>2, Induct
    <2> QED
      BY <1>2, <2>3
  <1> HIDE DEF N
  <1> QED
    BY <1>1, <1>2, <1>3, <1>4, <1>5

\* One round of Reached.
Further(A, k) ==
  LET b == UNION {Below(n) : n \in A}
  IN  b \cup {Target[l] : l \in {m \in b : k[m] = "link"}}

LEMMA FurtherGrows ==
  ASSUME NEW A \in SUBSET Node, NEW k
  PROVE  /\ A \subseteq Further(A, k) /\ Further(A, k) \in SUBSET Node
         /\ Further(A, k) = A <=> Closed(A, k)
  <1> DEFINE b == UNION {Below(n) : n \in A}
  <1>1. A \subseteq b /\ b \subseteq Node
    BY UpSteps DEF Below
  <1>2. \A m \in Node : Target[m] \in Node
    BY FilesAssumption
  <1>3. Further(A, k) = b \cup {Target[l] : l \in {m \in b : k[m] = "link"}}
    BY DEF Further
  <1>4. (\A n \in A : Below(n) \subseteq A) <=> b \subseteq A
    OBVIOUS
  <1> HIDE DEF b
  <1>5. Further(A, k) = A => Closed(A, k)
    BY <1>1, <1>3, <1>4 DEF Closed
  <1>6. Closed(A, k) => Further(A, k) = A
    BY <1>1, <1>3, <1>4 DEF Closed
  <1> QED
    BY <1>1, <1>2, <1>3, <1>5, <1>6

ReachRun(r, S, k) ==
  r[0] = S /\ \A i \in 1 .. Cardinality(Node) : r[i] = Further(r[i - 1], k)

LEMMA ReachedRuns ==
  ASSUME NEW S \in SUBSET Node, NEW k
  PROVE  \E r \in [0 .. Cardinality(Node) -> SUBSET Node] :
           ReachRun(r, S, k) /\ Reached(S, k) = r[Cardinality(Node)]
  <1> DEFINE N == Cardinality(Node)
             T == SUBSET Node
             step == [i \in 1 .. N |-> [A \in T |-> Further(A, k)]]
             F(f) == f = [i \in 0 .. N |->
                            IF i = 0 THEN S
                            ELSE LET b == UNION {Below(n) : n \in f[i - 1]}
                                 IN  b \cup {Target[l] : l \in {m \in b : k[m] = "link"}}]
             G(f) == f = [i \in 0 .. N |-> IF i = 0 THEN S ELSE Further(f[i - 1], k)]
             z == CHOOSE f : F(f)
  <1>1. Reached(S, k) = z[N]
    BY DEF Reached, z
  <1>2. N \in Nat
    BY TreeAssumption, FS_CardinalityType
  <1>3. \A f : F(f) <=> G(f)
    BY DEF Further
  <1>4. S \in T /\ \A A \in T : Further(A, k) \in T
    BY FurtherGrows
  <1> HIDE DEF T, N
  <1>5. PICK f \in [0 .. N -> T] : IsRun(f, S, N, step)
    <2>1. step \in [1 .. N -> [T -> T]]
      BY <1>4
    <2> HIDE DEF step
    <2> QED
      BY <1>2, <1>4, <2>1, Recursion
  <1>6. \A i \in 1 .. N : f[i] = Further(f[i - 1], k)
    <2> SUFFICES ASSUME NEW i \in 1 .. N PROVE f[i] = Further(f[i - 1], k)
      OBVIOUS
    <2>1. i - 1 \in 0 .. N /\ f[i - 1] \in T
      BY <1>2
    <2>2. f[i] = step[i][f[i - 1]]
      BY <1>5 DEF IsRun
    <2> QED
      BY <2>1, <2>2
  <1>7. F(f)
    <2>1. f[0] = S
      BY <1>5 DEF IsRun
    <2>2. \A i \in 0 .. N : i = 0 \/ i \in 1 .. N
      BY <1>2
    <2>3. G(f)
      BY <1>2, <1>6, <2>1, <2>2
    <2> QED
      BY <1>3, <2>3
  <1>8. G(z)
    <2>1. F(z)
      BY <1>7, Zenon
    <2> HIDE DEF z, F, G
    <2> QED
      BY <1>3, <2>1
  <1> HIDE DEF z
  <1>9. \A i \in 0 .. N : z[i] = IF i = 0 THEN S ELSE Further(z[i - 1], k)
    BY <1>8, Zenon
  <1>10. DOMAIN z = 0 .. N /\ z = [i \in 0 .. N |-> z[i]]
    BY <1>8
  <1>11. z[0] = S /\ \A i \in 1 .. N : z[i] = Further(z[i - 1], k)
    BY <1>2, <1>9
  <1> DEFINE Right == {i \in 0 .. N : z[i] \in T}
  <1>12. 0 \in Right
    BY <1>2, <1>4, <1>11
  <1>13. ASSUME NEW i \in 0 .. N - 1, i \in Right PROVE i + 1 \in Right
    <2>1. i + 1 \in 1 .. N /\ i + 1 \in 0 .. N /\ i + 1 - 1 = i /\ z[i] \in T
      BY <1>2, <1>13
    <2> QED
      BY <1>4, <1>11, <2>1
  <1>14. 0 .. N \subseteq Right
    <2> HIDE DEF Right
    <2> QED
      BY <1>2, <1>12, <1>13, Induct
  <1>15. z \in [0 .. N -> T]
    BY <1>10, <1>14
  <1> QED
    BY <1>1, <1>11, <1>15 DEF ReachRun, N, T

\* As many rounds as there are nodes are enough: each adds a node, or there is no more to add.
LEMMA ReachedClosed ==
  ASSUME NEW S \in SUBSET Node, NEW k
  PROVE  S \subseteq Reached(S, k) /\ Reached(S, k) \in SUBSET Node /\ Closed(Reached(S, k), k)
  <1> DEFINE N == Cardinality(Node)
  <1>1. PICK r \in [0 .. N -> SUBSET Node] :
          ReachRun(r, S, k) /\ Reached(S, k) = r[N]
    BY ReachedRuns
  <1>2. N \in Nat /\ IsFiniteSet(Node)
    BY TreeAssumption, FS_CardinalityType
  <1>3. \A A \in SUBSET Node : IsFiniteSet(A) /\ Cardinality(A) \in Nat
    BY <1>2, FS_Subset, FS_CardinalityType
  <1> DEFINE Right == {i \in 0 .. N : S \subseteq r[i]
                                        /\ (Closed(r[i], k) \/ Cardinality(r[i]) >= i)}
  <1>4. 0 \in Right
    BY <1>1, <1>2, <1>3 DEF ReachRun
  <1>5. ASSUME NEW i \in 0 .. N - 1, i \in Right PROVE i + 1 \in Right
    <2>1. /\ i + 1 \in 1 .. N /\ i + 1 \in 0 .. N /\ i + 1 - 1 = i /\ i \in 0 .. N
          /\ S \subseteq r[i] /\ (Closed(r[i], k) \/ Cardinality(r[i]) >= i)
      BY <1>2, <1>5
    <2>2. r[i] \in SUBSET Node /\ r[i + 1] \in SUBSET Node /\ r[i + 1] = Further(r[i], k)
      BY <1>1, <2>1 DEF ReachRun
    <2>3. r[i] \subseteq r[i + 1] /\ (r[i + 1] = r[i] <=> Closed(r[i], k))
      BY <2>2, FurtherGrows
    <2>4. CASE Closed(r[i], k)
      BY <2>1, <2>3, <2>4
    <2>5. CASE ~Closed(r[i], k)
      <3>1. Cardinality(r[i]) <= Cardinality(r[i + 1])
              /\ (Cardinality(r[i + 1]) = Cardinality(r[i]) => r[i + 1] = r[i])
        BY <1>3, <2>2, <2>3, FS_Subset
      <3>2. Cardinality(r[i]) \in Nat /\ Cardinality(r[i + 1]) \in Nat
        BY <1>3, <2>2
      <3>3. Cardinality(r[i + 1]) >= i + 1
        BY <2>1, <2>3, <2>5, <3>1, <3>2
      <3> QED
        BY <2>1, <2>3, <3>3
    <2> QED
      BY <2>4, <2>5
  <1>6. N \in Right
    <2> HIDE DEF Right, N
    <2>1. 0 .. N \subseteq Right
      BY <1>2, <1>4, <1>5, Induct
    <2> QED
      BY <1>2, <2>1
  <1>7. r[N] \in SUBSET Node
    BY <1>2
  <1>8. ASSUME Cardinality(r[N]) >= N PROVE r[N] = Node
    <2>1. Cardinality(r[N]) <= Cardinality(Node) /\ Cardinality(r[N]) \in Nat
      BY <1>2, <1>3, <1>7, FS_Subset
    <2>2. Cardinality(r[N]) = Cardinality(Node)
      BY <1>2, <1>8, <2>1
    <2> QED
      BY <1>2, <1>7, <2>2, FS_Subset
  <1>9. Closed(Node, k)
    BY FilesAssumption DEF Closed, Below
  <1> QED
    BY <1>1, <1>6, <1>7, <1>8, <1>9

-----------------------------------------------------------------------------
(* A listing *)



\* Each entry read has a slot with its name or a null pointer, and the array is large enough.
Names(slots) == {slots[i] : i \in DOMAIN slots} \ {NULL}
Nulls(slots) == {i \in DOMAIN slots : slots[i] = NULL}
Copied(l) ==
  /\ l \in Listing
  /\ l.dir.seen \subseteq l.dir.may /\ Names(l.slots) \subseteq l.dir.seen
  /\ Cardinality(l.dir.seen \ Names(l.slots)) = Cardinality(Nulls(l.slots))
  /\ Len(l.slots) = Cardinality(Names(l.slots)) + Cardinality(Nulls(l.slots))
  /\ Len(l.slots) <= l.capacity
ListingInv == listing # NULL => Copied(listing)

LEMMA NamesAppended ==
  ASSUME NEW slots \in Seq(Node \cup {NULL}), NEW copy \in Node \cup {NULL}
  PROVE  /\ Append(slots, copy) \in Seq(Node \cup {NULL})
         /\ Len(Append(slots, copy)) = Len(slots) + 1
         /\ copy # NULL => /\ Names(Append(slots, copy)) = Names(slots) \cup {copy}
                           /\ Nulls(Append(slots, copy)) = Nulls(slots)
         /\ copy = NULL => /\ Names(Append(slots, copy)) = Names(slots)
                           /\ Nulls(Append(slots, copy)) = Nulls(slots) \cup {Len(slots) + 1}
         /\ Len(slots) + 1 \notin Nulls(slots)
  <1> DEFINE new == Append(slots, copy)
             N == Len(slots)
  <1>1. /\ N \in Nat /\ DOMAIN slots = 1 .. N /\ DOMAIN new = 1 .. N + 1
        /\ new[N + 1] = copy /\ \A i \in 1 .. N : new[i] = slots[i]
        /\ new \in Seq(Node \cup {NULL}) /\ Len(new) = N + 1
    OBVIOUS
  <1>2. /\ \A i \in 1 .. N + 1 : i = N + 1 \/ i \in 1 .. N
        /\ \A i \in 1 .. N : i \in 1 .. N + 1
        /\ N + 1 \in 1 .. N + 1 /\ N + 1 \notin 1 .. N
    BY <1>1
  <1> HIDE DEF new, N
  <1>3. Names(new) = Names(slots) \cup ({copy} \ {NULL})
    BY <1>1, <1>2 DEF Names
  <1>4. copy # NULL => Nulls(new) = Nulls(slots)
    BY <1>1, <1>2 DEF Nulls
  <1>5. copy = NULL => Nulls(new) = Nulls(slots) \cup {N + 1}
    BY <1>1, <1>2 DEF Nulls
  <1>6. N + 1 \notin Nulls(slots)
    BY <1>1, <1>2 DEF Nulls
  <1> QED
    BY <1>1, <1>3, <1>4, <1>5, <1>6 DEF new, N

LEMMA NodesFinite ==
  ASSUME NEW S \in SUBSET Node PROVE IsFiniteSet(S) /\ Cardinality(S) \in Nat
  BY TreeAssumption, FS_Subset, FS_CardinalityType

LEMMA NullsFinite ==
  ASSUME NEW slots \in Seq(Node \cup {NULL})
  PROVE  IsFiniteSet(Nulls(slots)) /\ Cardinality(Nulls(slots)) \in Nat
  <1>1. Len(slots) \in Nat /\ Nulls(slots) \in SUBSET (1 .. Len(slots))
    BY DEF Nulls
  <1>2. IsFiniteSet(1 .. Len(slots))
    BY <1>1, FS_Interval
  <1> QED
    BY <1>1, <1>2, FS_Subset, FS_CardinalityType

\* One more entry is copied.
LEMMA CopiedOneMore ==
  ASSUME NEW l, Copied(l), NEW e \in l.dir.may \ l.dir.seen, NEW copy \in {e, NULL}
  PROVE  Copied([l EXCEPT !.dir = Seen(@, e), !.slots = Append(@, copy),
                          !.capacity = IF Full(l.slots, l.capacity) THEN 2 * @ ELSE @])
  <1> DEFINE slots == l.slots
             new == Append(slots, copy)
             seen == l.dir.seen
             c == l.capacity
             c2 == IF Full(slots, c) THEN 2 * c ELSE c
             d2 == Seen(l.dir, e)
             l2 == [l EXCEPT !.dir = Seen(@, e), !.slots = Append(@, copy),
                             !.capacity = IF Full(l.slots, l.capacity) THEN 2 * @ ELSE @]
  <1>1. /\ l \in Listing /\ slots \in Seq(Node \cup {NULL}) /\ c \in Nat \ {0}
        /\ l.dir \in Directory /\ seen \in SUBSET Node /\ l.dir.may \in SUBSET Node
    BY DEF Copied, Listing, Directory
  <1>2. /\ seen \subseteq l.dir.may /\ Names(slots) \subseteq seen
        /\ Cardinality(seen \ Names(slots)) = Cardinality(Nulls(slots))
        /\ Len(slots) = Cardinality(Names(slots)) + Cardinality(Nulls(slots))
        /\ Len(slots) <= c
    BY DEF Copied
  <1>3. e \in Node /\ e # NULL /\ e \notin seen /\ copy \in Node \cup {NULL}
    BY <1>1, FilesAssumption
  <1>4. /\ new \in Seq(Node \cup {NULL}) /\ Len(new) = Len(slots) + 1
        /\ copy # NULL => Names(new) = Names(slots) \cup {copy} /\ Nulls(new) = Nulls(slots)
        /\ copy = NULL => Names(new) = Names(slots)
                            /\ Nulls(new) = Nulls(slots) \cup {Len(slots) + 1}
        /\ Len(slots) + 1 \notin Nulls(slots)
    BY <1>1, <1>3, NamesAppended
  <1>5. d2 \in Directory /\ d2.seen = seen \cup {e} /\ d2.may = l.dir.may
    BY <1>1, <1>3 DEF Directory, Seen
  <1>6. c2 \in Nat \ {0} /\ Len(new) <= c2
    BY <1>1, <1>2, <1>4 DEF Full
  <1>7. l2.dir = d2 /\ l2.slots = new /\ l2.capacity = c2 /\ l2 \in Listing
    <2>1. Seen(l.dir, e) = d2 /\ Append(l.slots, copy) = new
            /\ (IF Full(l.slots, l.capacity) THEN 2 * l.capacity ELSE l.capacity) = c2
      OBVIOUS
    <2> HIDE DEF d2, new, c2
    <2> QED
      BY <1>1, <1>4, <1>5, <1>6, <2>1 DEF Listing
  <1> HIDE DEF new, slots, seen, c, c2, d2, l2
  <1>8. /\ IsFiniteSet(Names(slots)) /\ Cardinality(Names(slots)) \in Nat
        /\ IsFiniteSet(seen \ Names(slots)) /\ Cardinality(seen \ Names(slots)) \in Nat
        /\ IsFiniteSet(Nulls(slots)) /\ Cardinality(Nulls(slots)) \in Nat
    BY <1>1, <1>2, NodesFinite, NullsFinite
  <1>9. /\ Names(new) \subseteq seen \cup {e}
        /\ Cardinality((seen \cup {e}) \ Names(new)) = Cardinality(Nulls(new))
        /\ Len(new) = Cardinality(Names(new)) + Cardinality(Nulls(new))
    <2>1. CASE copy = e
      <3>1. Names(new) = Names(slots) \cup {e} /\ Nulls(new) = Nulls(slots)
        BY <1>3, <1>4, <2>1
      <3>2. Cardinality(Names(slots) \cup {e}) = Cardinality(Names(slots)) + 1
        BY <1>2, <1>3, <1>8, FS_AddElement
      <3>3. (seen \cup {e}) \ Names(new) = seen \ Names(slots)
        BY <1>2, <1>3, <3>1
      <3>4. Cardinality((seen \cup {e}) \ Names(new)) = Cardinality(seen \ Names(slots))
        BY <3>3, Zenon
      <3> QED
        BY <1>2, <1>4, <1>8, <3>1, <3>2, <3>4
    <2>2. CASE copy = NULL
      <3>1. Names(new) = Names(slots) /\ Nulls(new) = Nulls(slots) \cup {Len(slots) + 1}
        BY <1>4, <2>2
      <3>2. Cardinality(Nulls(new)) = Cardinality(Nulls(slots)) + 1
        BY <1>4, <1>8, <3>1, FS_AddElement
      <3>3. (seen \cup {e}) \ Names(new) = (seen \ Names(slots)) \cup {e}
        BY <1>2, <1>3, <3>1
      <3>4. Cardinality((seen \ Names(slots)) \cup {e}) = Cardinality(seen \ Names(slots)) + 1
        BY <1>3, <1>8, FS_AddElement
      <3>5. Cardinality((seen \cup {e}) \ Names(new)) = Cardinality(seen \ Names(slots)) + 1
        BY <3>3, <3>4, Zenon
      <3> QED
        BY <1>2, <1>4, <1>8, <3>1, <3>2, <3>5
    <2> QED
      BY <2>1, <2>2
  <1>10. d2.seen \subseteq d2.may
    BY <1>2, <1>5
  <1>11. Copied(l2)
    BY <1>5, <1>6, <1>9, <1>7, <1>10 DEF Copied
  <1> QED
    BY <1>11 DEF l2

-----------------------------------------------------------------------------
(* Types *)

TypeOK ==
  /\ kind \in [Node -> What] /\ cwd \in Node \cup {NULL}
  /\ stack \in Seq(Directory)
  /\ scope \in SUBSET Node /\ obstacles \in SUBSET Node
Inv == TypeOK /\ Tree(kind) /\ ListingInv

LEMMA EntriesType ==
  ASSUME NEW k, NEW d PROVE EntriesOf(k, d) \subseteq Node
  BY DEF EntriesOf

LEMMA OpenedType ==
  ASSUME NEW via \in Node, NEW at \in Node
  PROVE  /\ Opened(via, at) \in Directory
         /\ Opened(via, at).via = via /\ Opened(via, at).at = at /\ Opened(via, at).seen = {}
         /\ Opened(via, at).must = EntriesOf(kind, at) /\ Opened(via, at).may = EntriesOf(kind, at)
  BY EntriesType DEF Opened, Directory, Entries

LEMMA SyncType ==
  ASSUME NEW f \in Directory, NEW k
  PROVE  /\ Sync(f, k) \in Directory
         /\ Sync(f, k).via = f.via /\ Sync(f, k).at = f.at /\ Sync(f, k).seen = f.seen
         /\ Sync(f, k).must = f.must \cap EntriesOf(k, f.at)
         /\ Sync(f, k).may = f.may \cup EntriesOf(k, f.at)
  BY EntriesType DEF Sync, Directory

LEMMA SeenType ==
  ASSUME NEW f \in Directory, NEW e \in Node
  PROVE  /\ Seen(f, e) \in Directory
         /\ Seen(f, e).via = f.via /\ Seen(f, e).at = f.at /\ Seen(f, e).seen = f.seen \cup {e}
         /\ Seen(f, e).must = f.must /\ Seen(f, e).may = f.may
  BY DEF Seen, Directory

LEMMA SyncStackType ==
  ASSUME NEW s \in Seq(Directory), NEW k
  PROVE  /\ SyncStack(s, k) \in Seq(Directory) /\ Len(SyncStack(s, k)) = Len(s)
         /\ \A i \in 1 .. Len(s) : s[i] \in Directory /\ SyncStack(s, k)[i] = Sync(s[i], k)
  <1>1. DOMAIN s = 1 .. Len(s) /\ Len(s) \in Nat /\ \A i \in 1 .. Len(s) : s[i] \in Directory
    OBVIOUS
  <1>2. \A i \in 1 .. Len(s) : Sync(s[i], k) \in Directory
    BY <1>1, SyncType
  <1>3. SyncStack(s, k) = [i \in 1 .. Len(s) |-> Sync(s[i], k)]
    BY <1>1 DEF SyncStack
  <1>4. SyncStack(s, k) \in [1 .. Len(s) -> Directory]
    BY <1>2, <1>3
  <1> QED
    BY <1>1, <1>3, <1>4

\* The frame on top has seen an entry.
WithSeen(s, e) == [s EXCEPT ![1] = Seen(@, e)]

LEMMA WithSeenType ==
  ASSUME NEW s \in Seq(Directory), s # <<>>, NEW e \in Node
  PROVE  /\ WithSeen(s, e) \in Seq(Directory) /\ Len(WithSeen(s, e)) = Len(s)
         /\ 1 \in 1 .. Len(s) /\ s[1] \in Directory /\ WithSeen(s, e)[1] = Seen(s[1], e)
         /\ \A i \in 2 .. Len(s) : WithSeen(s, e)[i] = s[i]
  <1>1. DOMAIN s = 1 .. Len(s) /\ Len(s) \in Nat \ {0} /\ \A i \in 1 .. Len(s) : s[i] \in Directory
    OBVIOUS
  <1>2. 1 \in 1 .. Len(s) /\ Seen(s[1], e) \in Directory
    BY <1>1, SeenType
  <1>3. WithSeen(s, e) \in [1 .. Len(s) -> Directory]
    BY <1>1, <1>2 DEF WithSeen
  <1> QED
    BY <1>1, <1>2, <1>3 DEF WithSeen

LEMMA PushType ==
  ASSUME NEW s \in Seq(Directory), NEW f \in Directory
  PROVE  /\ <<f>> \o s \in Seq(Directory) /\ Len(<<f>> \o s) = Len(s) + 1
         /\ (<<f>> \o s)[1] = f /\ \A i \in 1 .. Len(s) : (<<f>> \o s)[i + 1] = s[i]
  OBVIOUS

LEMMA PopType ==
  ASSUME NEW s \in Seq(Directory), s # <<>>
  PROVE  /\ Tail(s) \in Seq(Directory) /\ Len(Tail(s)) = Len(s) - 1
         /\ \A i \in 1 .. Len(s) - 1 : Tail(s)[i] = s[i + 1]
         /\ Head(s) = s[1] /\ s[1] \in Directory /\ Len(s) >= 1
  OBVIOUS

\* A node changes: one that is no directory, where there is one for it, or an empty directory.
LEMMA KeptTree ==
  ASSUME NEW k \in [Node -> What], Tree(k), NEW n \in Node, NEW w \in What,
         \/ k[n] # "dir" /\ (w = "none" \/ k[Parent[n]] = "dir")
         \/ w = "none" /\ EntriesOf(k, n) = {}
  PROVE  [k EXCEPT ![n] = w] \in [Node -> What] /\ Tree([k EXCEPT ![n] = w])
  <1> DEFINE k2 == [k EXCEPT ![n] = w]
  <1>1. k2 \in [Node -> What] /\ k2[n] = w /\ \A m \in Node : m # n => k2[m] = k[m]
    OBVIOUS
  <1>2. \A m \in Node \ {ROOT} : Parent[m] \in Node
    BY UpSteps
  <1>3. ASSUME NEW m \in Node \ {ROOT}, k2[m] # "none" PROVE k2[Parent[m]] = "dir"
    <2>1. CASE m = n
      <3>1. k[n] # "dir" /\ k[Parent[n]] = "dir"
        BY <1>1, <1>3, <2>1
      <3> QED
        BY <1>1, <1>2, <2>1, <3>1
    <2>2. CASE m # n
      <3>1. k[m] # "none" /\ k[Parent[m]] = "dir"
        BY <1>1, <1>3, <2>2 DEF Tree
      <3>2. Parent[m] # n
        BY <3>1 DEF EntriesOf
      <3> QED
        BY <1>1, <1>2, <3>1, <3>2
    <2> QED
      BY <2>1, <2>2
  <1> QED
    BY <1>1, <1>3 DEF Tree

LEMMA ListingSynced ==
  ASSUME NEW l, Copied(l), NEW k
  PROVE  Copied([l EXCEPT !.dir = Sync(@, k)])
  <1> DEFINE l2 == [l EXCEPT !.dir = Sync(@, k)]
             d == Sync(l.dir, k)
  <1>1. l \in Listing /\ l.dir \in Directory
    BY DEF Copied, Listing
  <1>2. d \in Directory /\ d.seen = l.dir.seen /\ l.dir.may \subseteq d.may
    BY <1>1, SyncType
  <1>3. l2.dir = d /\ l2.slots = l.slots /\ l2.capacity = l.capacity /\ l2 \in Listing
    <2>1. Sync(l.dir, k) = d
      OBVIOUS
    <2> HIDE DEF d
    <2> QED
      BY <1>1, <1>2, <2>1 DEF Listing
  <1> HIDE DEF l2, d
  <1> QED
    BY <1>2, <1>3 DEF Copied, l2

LEMMA ListingOpened ==
  ASSUME NEW d \in Node, Follow(d) \in Node, NEW l,
         l = [dir |-> Opened(d, Follow(d)), slots |-> <<>>, capacity |-> FIRST_CAPACITY]
  PROVE  Copied(l)
  <1>1. /\ l.dir \in Directory /\ l.dir.seen = {} /\ l.slots = <<>>
        /\ l.capacity \in Nat \ {0} /\ l \in Listing
    BY OpenedType, FilesAssumption DEF Listing
  <1>2. Names(<<>>) = {} /\ Nulls(<<>>) = {}
    BY DEF Names, Nulls
  <1>3. Names(l.slots) = {} /\ Nulls(l.slots) = {} /\ Len(l.slots) = 0
    BY <1>1, <1>2
  <1>4. l.dir.seen \ Names(l.slots) = {}
    BY <1>1
  <1>5. Cardinality(l.dir.seen \ Names(l.slots)) = 0 /\ Cardinality(Names(l.slots)) = 0
          /\ Cardinality(Nulls(l.slots)) = 0
    BY <1>3, <1>4, FS_EmptySet, Zenon
  <1> QED
    BY <1>1, <1>3, <1>5 DEF Copied

LEMMA OtherInv == Inv /\ Other => Inv'
  <1> SUFFICES ASSUME Inv, Other PROVE Inv'
    OBVIOUS
  <1>1. PICK n \in Node \ {ROOT}, w \in What :
          /\ kind[n] # "dir" /\ kind[Parent[n]] = "dir"
          /\ Change(Kept(n, w))
          /\ stack' = SyncStack(stack, kind')
          /\ listing' = IF listing = NULL THEN NULL ELSE [listing EXCEPT !.dir = Sync(@, kind')]
          /\ scope' = IF stack # <<>> /\ w = "link" THEN Reached(scope, kind') ELSE scope
          /\ obstacles' = IF stack # <<>> /\ w # "none" THEN obstacles \cup {n} ELSE obstacles
    <2>1. \A n \in Node \ {ROOT} : (Kinds[n] \ {"dir"}) \cup {"none"} \subseteq What
      BY FilesAssumption DEF What
    <2> QED
      BY <2>1 DEF Other
  <1>2. kind' \in [Node -> What] /\ Tree(kind')
    BY <1>1, KeptTree DEF Inv, TypeOK, Change, Kept
  <1>3. cwd' \in Node \cup {NULL}
    BY <1>1 DEF Inv, TypeOK, Change
  <1>4. stack' \in Seq(Directory)
    BY <1>1, SyncStackType DEF Inv, TypeOK
  <1>5. scope' \in SUBSET Node /\ obstacles' \in SUBSET Node
    BY <1>1, ReachedClosed DEF Inv, TypeOK
  <1>6. ListingInv'
    BY <1>1, ListingSynced DEF Inv, ListingInv
  <1> QED
    BY <1>2, <1>3, <1>4, <1>5, <1>6 DEF Inv, TypeOK

LEMMA SimpleInv == Inv /\ Simple => Inv'
  <1> SUFFICES ASSUME Inv, Simple PROVE Inv'
    OBVIOUS
  <1>1. UNCHANGED <<stack, listing, scope, obstacles>>
    BY DEF Simple, Keeps
  <1>2. kind \in [Node -> What] /\ cwd \in Node \cup {NULL} /\ Tree(kind)
    BY DEF Inv, TypeOK
  <1>3. SUFFICES kind' \in [Node -> What] /\ cwd' \in Node \cup {NULL} /\ Tree(kind')
    BY <1>1 DEF Inv, TypeOK, ListingInv
  <1>4. UNCHANGED fs => kind' \in [Node -> What] /\ cwd' \in Node \cup {NULL} /\ Tree(kind')
    BY <1>2 DEF fs
  <1>5. ASSUME NEW n \in Node, NEW w \in What, Change(Kept(n, w)),
               \/ kind[n] # "dir" /\ (w = "none" \/ kind[Parent[n]] = "dir")
               \/ w = "none" /\ EntriesOf(kind, n) = {}
        PROVE  kind' \in [Node -> What] /\ cwd' \in Node \cup {NULL} /\ Tree(kind')
    BY <1>2, <1>5, KeptTree DEF Change, Kept
  <1>6. ASSUME NEW n \in Node \ {ROOT}, fossil_sys_call_create_file(n)
        PROVE  kind' \in [Node -> What] /\ cwd' \in Node \cup {NULL} /\ Tree(kind')
    <2>1. CASE UNCHANGED fs
      BY <1>4, <2>1
    <2>2. CASE /\ Follow(n) # NULL /\ ~Exists(Follow(n)) /\ kind[Parent[Follow(n)]] = "dir"
               /\ Change(Kept(Follow(n), "file"))
      <3>1. Follow(n) \in Node
        BY <2>2, Followed
      <3> QED
        BY <1>5, <2>2, <3>1 DEF Exists, What
    <2> QED
      BY <1>6, <2>1, <2>2 DEF fossil_sys_call_create_file
  <1>7. ASSUME NEW n \in Node \ {ROOT}, fossil_sys_call_create_directory(n)
        PROVE  kind' \in [Node -> What] /\ cwd' \in Node \cup {NULL} /\ Tree(kind')
    BY <1>4, <1>5, <1>7 DEF fossil_sys_call_create_directory, Exists, What
  <1>8. ASSUME NEW n \in Node \ {ROOT}, NEW op, Rmdir(op, n)
        PROVE  kind' \in [Node -> What] /\ cwd' \in Node \cup {NULL} /\ Tree(kind')
    BY <1>4, <1>5, <1>8 DEF Rmdir, Removable, Entries, What
  <1>9. ASSUME NEW n \in Node \ {ROOT}, fossil_sys_call_delete_file(n)
        PROVE  kind' \in [Node -> What] /\ cwd' \in Node \cup {NULL} /\ Tree(kind')
    BY <1>5, <1>8, <1>9 DEF fossil_sys_call_delete_file, What
  <1>10. ASSUME NEW n \in Node, fossil_sys_call_chdir(n)
         PROVE  kind' \in [Node -> What] /\ cwd' \in Node \cup {NULL} /\ Tree(kind')
    BY <1>2, <1>4, <1>10, Followed DEF fossil_sys_call_chdir, IsKind
  <1>11. ASSUME NEW n, \/ fossil_sys_call_file_exists(n) \/ fossil_sys_call_is_directory(n)
                       \/ fossil_sys_call_is_file(n) \/ fossil_sys_call_getcwd
         PROVE  UNCHANGED fs
    BY <1>11 DEF fossil_sys_call_file_exists, fossil_sys_call_is_directory,
                 fossil_sys_call_is_file, fossil_sys_call_getcwd
  <1> QED
    BY <1>4, <1>6, <1>7, <1>8, <1>9, <1>10, <1>11 DEF Simple

\* What stat says of an entry.
LEMMA StatSays ==
  ASSUME TypeOK, NEW e \in Node
  PROVE  /\ Stat(e) = "dir" => /\ kind[e] # "none" /\ Follow(e) \in Node
                               /\ kind[Follow(e)] = "dir"
                               /\ kind[e] # "link" => Follow(e) = e /\ kind[e] = "dir"
                               /\ kind[e] = "link" => Follow(e) # e
         /\ Stat(e) = "file" => kind[e] \in {"file", "link"}
  <1>1. Stat(e) # "none" => kind[e] # "none" /\ Follow(e) \in Node /\ Stat(e) = kind[Follow(e)]
    BY Followed DEF Stat, Exists
  <1>2. kind[e] # "link" => Follow(e) = e
    BY Followed
  <1>3. kind[e] \in What
    BY DEF TypeOK
  <1> QED
    BY <1>1, <1>2, <1>3 DEF What

LEMMA TopType ==
  ASSUME TypeOK, stack # <<>>
  PROVE  Top = stack[1] /\ Top \in Directory /\ Top.may \in SUBSET Node /\ Top.via \in Node
           /\ Top.at \in Node
  BY PopType DEF Top, TypeOK, Directory

LEMMA EnterInv ==
  ASSUME Inv, stack # <<>>, NEW e \in Top.may, Enter(e), UNCHANGED <<listing, scope>>
  PROVE  Inv'
  <1>1. e \in Node /\ Follow(e) \in Node
    BY TopType, StatSays DEF Enter, Inv
  <1>2. Opened(e, Follow(e)) \in Directory
    BY <1>1, OpenedType
  <1>3. SeenTop(e) \in Seq(Directory)
    BY <1>1, WithSeenType DEF SeenTop, WithSeen, Inv, TypeOK
  <1>4. stack' \in Seq(Directory)
    BY <1>2, <1>3, PushType DEF Enter
  <1>5. obstacles' \in SUBSET Node
    BY <1>1 DEF Enter, Hindered, Inv, TypeOK
  <1> QED
    BY <1>4, <1>5 DEF Enter, fs, Inv, TypeOK, ListingInv

LEMMA UnlinkInv ==
  ASSUME Inv, stack # <<>>, NEW e \in Top.may, Unlink(e), UNCHANGED <<listing, scope>>
  PROVE  Inv'
  <1>1. e \in Node /\ kind[e] # "dir"
    BY TopType, StatSays DEF Unlink, Inv
  <1>2. kind' \in [Node -> What] /\ Tree(kind')
    BY <1>1, KeptTree DEF Inv, TypeOK, Unlink, Change, Kept, What
  <1>3. cwd' \in Node \cup {NULL}
    BY DEF Unlink, Change, Inv, TypeOK
  <1>4. stack' \in Seq(Directory)
    BY <1>1, WithSeenType, SyncStackType DEF Unlink, SeenTop, WithSeen, Inv, TypeOK
  <1> QED
    BY <1>2, <1>3, <1>4 DEF Unlink, Inv, TypeOK, ListingInv

LEMMA PassInv ==
  ASSUME Inv, stack # <<>>, NEW e \in Top.may, Pass(e), UNCHANGED <<listing, scope>>
  PROVE  Inv'
  <1>1. e \in Node
    BY TopType DEF Inv
  <1>2. stack' \in Seq(Directory)
    BY <1>1, WithSeenType DEF Pass, SeenTop, WithSeen, Inv, TypeOK
  <1>3. obstacles' \in SUBSET Node
    BY DEF Pass, Hindered, Below, Inv, TypeOK
  <1> QED
    BY <1>2, <1>3 DEF Pass, fs, Inv, TypeOK, ListingInv

LEMMA DeleteEndInv == Inv /\ DeleteEnd => Inv'
  <1> SUFFICES ASSUME Inv, DeleteEnd PROVE Inv'
    OBVIOUS
  <1>1. stack # <<>> /\ Top \in Directory /\ Top.via \in Node
    BY TopType DEF DeleteEnd, Inv
  <1>2. PICK ret \in {0, -1} :
          /\ ret = 0 => Live /\ Removable(Top.via)
          /\ IF ret = 0 THEN Change(Kept(Top.via, "none")) ELSE UNCHANGED fs
          /\ stack' = SyncStack(Tail(stack), kind')
          /\ IF Len(stack) = 1
             THEN obstacles' = {} /\ scope' = {}
             ELSE /\ IF ret = -1 /\ Removable(Top.via) THEN Hindered({Top.via})
                                                       ELSE UNCHANGED obstacles
                  /\ UNCHANGED scope
    BY DEF DeleteEnd
  <1>3. CASE ret = 0
    <2>1. kind' \in [Node -> What] /\ Tree(kind')
      <3>1. EntriesOf(kind, Top.via) = {} /\ kind' = [kind EXCEPT ![Top.via] = "none"]
        BY <1>2, <1>3 DEF Change, Kept, Removable, Entries
      <3>2. kind \in [Node -> What] /\ Tree(kind) /\ "none" \in What
        BY DEF Inv, TypeOK, What
      <3> QED
        BY <1>1, <3>1, <3>2, KeptTree
    <2>2. cwd' \in Node \cup {NULL}
      BY <1>2, <1>3 DEF Inv, TypeOK, Change
    <2>3. stack' \in Seq(Directory)
      BY <1>1, <1>2, PopType, SyncStackType DEF Inv, TypeOK
    <2>4. obstacles' \in SUBSET Node /\ scope' \in SUBSET Node
      BY <1>2, <1>3 DEF Inv, TypeOK
    <2> QED
      BY <2>1, <2>2, <2>3, <2>4 DEF DeleteEnd, Inv, TypeOK, ListingInv
  <1>4. CASE ret # 0
    <2>1. UNCHANGED fs
      BY <1>2, <1>4
    <2>2. stack' \in Seq(Directory)
      BY <1>1, <1>2, PopType, SyncStackType DEF Inv, TypeOK
    <2>3. obstacles' \in SUBSET Node /\ scope' \in SUBSET Node
      BY <1>1, <1>2 DEF Inv, TypeOK, Hindered
    <2> QED
      BY <2>1, <2>2, <2>3 DEF fs, DeleteEnd, Inv, TypeOK, ListingInv
  <1> QED
    BY <1>3, <1>4

LEMMA CallsInv ==
  ASSUME Inv, NEW d \in Node \ {ROOT}, DeleteCall(d) \/ ListCall(d)
  PROVE  Inv'
  <1>1. IsKind(d, "dir") => Follow(d) \in Node
    BY Followed DEF IsKind
  <1>2. CASE DeleteCall(d)
    <2>1. IsKind(d, "dir") => <<Opened(d, Follow(d))>> \in Seq(Directory)
      BY <1>1, OpenedType
    <2>2. stack' \in Seq(Directory)
      BY <1>2, <2>1 DEF DeleteCall, Inv, TypeOK
    <2>3. IsKind(d, "dir") => Reached({d, Follow(d)}, kind) \in SUBSET Node
      BY <1>1, ReachedClosed
    <2>4. scope' \in SUBSET Node
      BY <1>2, <2>3 DEF DeleteCall, Inv, TypeOK
    <2> QED
      BY <1>2, <2>2, <2>4 DEF DeleteCall, fs, Inv, TypeOK, ListingInv
  <1>3. CASE ListCall(d)
    <2>1. ListingInv'
      BY <1>1, <1>3, ListingOpened DEF ListCall, ListReturns, ListingInv
    <2> QED
      BY <1>3, <2>1 DEF ListCall, fs, Inv, TypeOK
  <1> QED
    BY <1>2, <1>3

LEMMA ListedOneMore ==
  ASSUME Copied(listing), NEW e \in listing.dir.may \ listing.dir.seen, NEW copy \in {e, NULL},
         listing' = [listing EXCEPT !.dir = Seen(@, e), !.slots = Append(@, copy),
                       !.capacity = IF Full(listing.slots, listing.capacity) THEN 2 * @ ELSE @]
  PROVE  Copied(listing')
  BY CopiedOneMore, Zenon

LEMMA ListInv == Inv /\ (ListEntry \/ ListEnd) => Inv'
  <1> SUFFICES ASSUME Inv, ListEntry \/ ListEnd PROVE Inv'
    OBVIOUS
  <1>1. UNCHANGED <<fs, stack, scope, obstacles>> /\ listing # NULL
    BY DEF ListEntry, ListEnd
  <1>2. Copied(listing)
    BY <1>1 DEF Inv, ListingInv
  <1>3. listing' = NULL \/ Copied(listing')
    <2>1. CASE ListEnd
      BY <2>1 DEF ListEnd, ListReturns
    <2>2. CASE ListEntry
      <3>1. PICK e \in listing.dir.may \ listing.dir.seen :
              \/ \E copy \in {e, NULL} :
                   listing' = [listing EXCEPT !.dir = Seen(@, e), !.slots = Append(@, copy),
                                 !.capacity = IF Full(listing.slots, listing.capacity)
                                              THEN 2 * @ ELSE @]
              \/ listing' = NULL
        BY <2>2 DEF ListEntry, ListReturns
      <3>2. ASSUME NEW copy \in {e, NULL},
                   listing' = [listing EXCEPT !.dir = Seen(@, e), !.slots = Append(@, copy),
                                 !.capacity = IF Full(listing.slots, listing.capacity)
                                              THEN 2 * @ ELSE @]
            PROVE  Copied(listing')
        BY <1>2, <3>2, ListedOneMore
      <3> QED
        BY <3>1, <3>2
    <2> QED
      BY <2>1, <2>2
  <1> QED
    BY <1>1, <1>3 DEF fs, Inv, TypeOK, ListingInv

LEMMA InvInit == Init => Inv
  <1> SUFFICES ASSUME Init PROVE Inv
    OBVIOUS
  <1>1. kind \in [Node -> What] /\ Tree(kind)
    BY DEF Init, What, Tree
  <1>2. stack \in Seq(Directory)
    BY DEF Init
  <1> QED
    BY <1>1, <1>2, FilesAssumption DEF Init, Inv, TypeOK, ListingInv

LEMMA InvNext == Inv /\ [Next]_vars => Inv'
  <1>1. Inv /\ UNCHANGED vars => Inv'
    BY DEF vars, fs, Inv, TypeOK, ListingInv
  <1>2. Inv /\ Forget => Inv'
    BY DEF Forget, Inv, TypeOK, ListingInv
  <1>3. ASSUME Inv, DeleteEntry PROVE Inv'
    <2>1. stack # <<>> /\ UNCHANGED <<listing, scope>>
      BY <1>3 DEF DeleteEntry
    <2>2. PICK e \in Top.may : Enter(e) \/ Unlink(e) \/ Pass(e)
      BY <1>3 DEF DeleteEntry, Readable
    <2> QED
      BY <1>3, <2>1, <2>2, EnterInv, UnlinkInv, PassInv
  <1> QED
    BY <1>1, <1>2, <1>3, OtherInv, SimpleInv, DeleteEndInv, CallsInv, ListInv DEF Next

LEMMA InvAlways == Spec => []Inv
  BY InvInit, InvNext, PTL DEF Spec

\* syscall.c, list_directory: what a listing holds, whatever the other program creates and
\* removes meanwhile, and wherever memory runs out.
ListingHolds ==
  LET slots == result'.slots
      names == {slots[i] : i \in DOMAIN slots} \ {NULL}
      nulls == {i \in DOMAIN slots : slots[i] = NULL}
  IN  /\ result'.ret = 0 => Cardinality(listing.dir.must \ names) <= Cardinality(nulls)
      /\ names \subseteq listing.dir.may
      /\ Len(slots) = Cardinality(names) + Cardinality(nulls)
      /\ Len(slots) <= result'.capacity

LEMMA ListingReturned ==
  ASSUME Copied(listing), result'.slots = listing.slots, result'.capacity = listing.capacity,
         result'.ret = 0 => listing.dir.must \subseteq listing.dir.seen
  PROVE  ListingHolds
  <1> DEFINE l == listing
             slots == listing.slots
             seen == listing.dir.seen
             must == listing.dir.must
  <1>1. /\ seen \subseteq l.dir.may /\ Names(slots) \subseteq seen
        /\ Cardinality(seen \ Names(slots)) = Cardinality(Nulls(slots))
        /\ Len(slots) = Cardinality(Names(slots)) + Cardinality(Nulls(slots))
        /\ Len(slots) <= l.capacity /\ seen \in SUBSET Node
    BY DEF Copied, Listing, Directory
  <1>2. result'.ret = 0 => Cardinality(must \ Names(slots)) <= Cardinality(Nulls(slots))
    <2> SUFFICES ASSUME result'.ret = 0
                 PROVE  Cardinality(must \ Names(slots)) <= Cardinality(Nulls(slots))
      OBVIOUS
    <2>1. must \ Names(slots) \in SUBSET (seen \ Names(slots))
      OBVIOUS
    <2>2. IsFiniteSet(seen \ Names(slots))
      BY <1>1, NodesFinite
    <2>3. Cardinality(must \ Names(slots)) <= Cardinality(seen \ Names(slots))
      BY <2>1, <2>2, FS_Subset
    <2> QED
      BY <1>1, <2>3
  <1>3. /\ {slots[i] : i \in DOMAIN slots} \ {NULL} = Names(slots)
        /\ {i \in DOMAIN slots : slots[i] = NULL} = Nulls(slots)
    BY DEF Names, Nulls
  <1> QED
    BY <1>1, <1>2, <1>3 DEF ListingHolds, Names, Nulls

LEMMA ListingStep ==
  ASSUME Inv, [Next]_vars, listing # NULL, listing' = NULL
  PROVE  ListingHolds
  <1>1. Copied(listing)
    BY DEF Inv, ListingInv
  <1>2. UNCHANGED listing => FALSE
    OBVIOUS
  <1>3. CASE ListEnd
    BY <1>1, <1>3, ListingReturned DEF ListEnd, ListReturns
  <1>4. CASE ListEntry
    <2>1. PICK e \in listing.dir.may \ listing.dir.seen :
            \/ \E copy \in {e, NULL} :
                 listing' = [listing EXCEPT !.dir = Seen(@, e), !.slots = Append(@, copy),
                               !.capacity = IF Full(listing.slots, listing.capacity)
                                            THEN 2 * @ ELSE @]
            \/ ListReturns(-1, listing.slots, listing.capacity)
      BY <1>4 DEF ListEntry
    <2>2. ASSUME NEW copy \in {e, NULL},
                 listing' = [listing EXCEPT !.dir = Seen(@, e), !.slots = Append(@, copy),
                               !.capacity = IF Full(listing.slots, listing.capacity)
                                            THEN 2 * @ ELSE @]
          PROVE  FALSE
      <3>1. Copied(listing')
        BY <1>1, <2>2, ListedOneMore
      <3> QED
        BY <3>1, ListingAssumption DEF Copied
    <2>3. ListReturns(-1, listing.slots, listing.capacity)
      BY <2>1, <2>2
    <2> QED
      BY <1>1, <2>3, ListingReturned DEF ListReturns
  <1>5. CASE Other
    <2>1. PICK k : listing' = [listing EXCEPT !.dir = Sync(@, k)]
      BY <1>5 DEF Other
    <2>2. Copied(listing')
      BY <1>1, <2>1, ListingSynced
    <2> QED
      BY <2>2, ListingAssumption DEF Copied
  <1>6. UNCHANGED vars \/ Forget \/ Simple \/ DeleteEntry \/ DeleteEnd => UNCHANGED listing
    BY DEF vars, Forget, Simple, Keeps, DeleteEntry, DeleteEnd
  <1>7. \A d : ~DeleteCall(d) /\ ~ListCall(d)
    BY DEF DeleteCall, ListCall, Idle
  <1> QED
    BY <1>2, <1>3, <1>4, <1>5, <1>6, <1>7 DEF Next

THEOREM ListingCorrect == Spec => ListingRight
  <1>1. Inv /\ [Next]_vars => (listing # NULL /\ listing' = NULL => ListingHolds)
    BY ListingStep
  <1>2. Inv /\ [Next]_vars =>
          [listing # NULL /\ listing' = NULL =>
             LET slots == result'.slots
                 names == {slots[i] : i \in DOMAIN slots} \ {NULL}
                 nulls == {i \in DOMAIN slots : slots[i] = NULL}
             IN  /\ result'.ret = 0 =>
                      Cardinality(listing.dir.must \ names) <= Cardinality(nulls)
                 /\ names \subseteq listing.dir.may
                 /\ Len(slots) = Cardinality(names) + Cardinality(nulls)
                 /\ Len(slots) <= result'.capacity]_vars
    BY <1>1 DEF ListingHolds
  <1> QED
    BY <1>2, InvAlways, PTL DEF Spec, ListingRight

-----------------------------------------------------------------------------
(* What a recursive deletion reaches *)

InScope(s, S) == \A i \in 1 .. Len(s) : s[i].via \in S /\ s[i].at \in S /\ s[i].may \subseteq S
ScopeInv == /\ Closed(scope, kind) /\ InScope(stack, scope)
            /\ stack = <<>> => scope = {}

LEMMA EntriesInScope ==
  ASSUME NEW S \in SUBSET Node, NEW k, Closed(S, k), NEW d \in S, NEW k2
  PROVE  EntriesOf(k2, d) \subseteq S
  BY BelowParts DEF EntriesOf, Closed

LEMMA SyncInScope ==
  ASSUME NEW S \in SUBSET Node, NEW k, Closed(S, k), NEW s \in Seq(Directory), InScope(s, S), NEW k2
  PROVE  InScope(SyncStack(s, k2), S)
  <1> SUFFICES ASSUME NEW i \in 1 .. Len(s)
               PROVE  LET f == SyncStack(s, k2)[i] IN f.via \in S /\ f.at \in S /\ f.may \subseteq S
    BY SyncStackType DEF InScope
  <1>1. s[i] \in Directory /\ s[i].via \in S /\ s[i].at \in S /\ s[i].may \subseteq S
    BY SyncStackType DEF InScope
  <1>2. EntriesOf(k2, s[i].at) \subseteq S
    BY <1>1, EntriesInScope
  <1> QED
    BY <1>1, <1>2, SyncStackType, SyncType

\* Links that vanish take nothing away.
LEMMA ClosedLess ==
  ASSUME NEW S, NEW k, Closed(S, k), NEW k2, \A n \in S : k2[n] = "link" => k[n] = "link"
  PROVE  Closed(S, k2)
  BY DEF Closed

LEMMA ScopeSeen ==
  ASSUME NEW S, NEW s \in Seq(Directory), s # <<>>, InScope(s, S), NEW e \in Node
  PROVE  InScope(WithSeen(s, e), S)
  <1>1. \A i \in 1 .. Len(s) : i = 1 \/ i \in 2 .. Len(s)
    OBVIOUS
  <1> QED
    BY <1>1, WithSeenType, SeenType DEF InScope

LEMMA ScopePush ==
  ASSUME NEW S, NEW s \in Seq(Directory), InScope(s, S), NEW f \in Directory,
         f.via \in S, f.at \in S, f.may \subseteq S
  PROVE  InScope(<<f>> \o s, S)
  <1>1. \A i \in 1 .. Len(s) + 1 : i = 1 \/ (i - 1 \in 1 .. Len(s) /\ i = (i - 1) + 1)
    OBVIOUS
  <1> QED
    BY <1>1, PushType DEF InScope

LEMMA ScopePop ==
  ASSUME NEW S, NEW s \in Seq(Directory), s # <<>>, InScope(s, S)
  PROVE  InScope(Tail(s), S)
  <1>1. \A i \in 1 .. Len(s) - 1 : i + 1 \in 1 .. Len(s)
    OBVIOUS
  <1> QED
    BY <1>1, PopType DEF InScope

LEMMA TopInScope ==
  ASSUME Inv, ScopeInv, stack # <<>>
  PROVE  Top.via \in scope /\ Top.at \in scope /\ Top.may \subseteq scope
  <1>1. 1 \in 1 .. Len(stack)
    BY PopType DEF Inv, TypeOK
  <1> QED
    BY <1>1, TopType DEF Inv, ScopeInv, InScope

LEMMA OtherScope == Inv /\ ScopeInv /\ Other => ScopeInv'
  <1> SUFFICES ASSUME Inv, ScopeInv, Other PROVE ScopeInv'
    OBVIOUS
  <1>1. PICK n \in Node \ {ROOT}, w \in What :
          /\ kind' = [kind EXCEPT ![n] = w]
          /\ stack' = SyncStack(stack, kind')
          /\ scope' = IF stack # <<>> /\ w = "link" THEN Reached(scope, kind') ELSE scope
    <2>1. \A n \in Node \ {ROOT} : (Kinds[n] \ {"dir"}) \cup {"none"} \subseteq What
      BY FilesAssumption DEF What
    <2> QED
      BY <2>1 DEF Other, Change, Kept
  <1>2. stack \in Seq(Directory) /\ scope \in SUBSET Node /\ kind \in [Node -> What]
    BY DEF Inv, TypeOK
  <1>3. InScope(stack', scope)
    BY <1>1, <1>2, SyncInScope DEF ScopeInv
  <1>4. stack' = <<>> <=> stack = <<>>
    BY <1>1, <1>2, SyncStackType
  <1>5. CASE stack # <<>> /\ w = "link"
    <2>1. scope \subseteq scope' /\ Closed(scope', kind')
      BY <1>1, <1>2, <1>5, ReachedClosed
    <2> QED
      BY <1>3, <1>4, <1>5, <2>1 DEF ScopeInv, InScope
  <1>6. CASE stack = <<>>
    BY <1>1, <1>3, <1>4, <1>6 DEF ScopeInv, Closed
  <1>7. CASE w # "link"
    <2>1. \A m \in scope : kind'[m] = "link" => kind[m] = "link"
      BY <1>1, <1>2, <1>7
    <2>2. Closed(scope, kind')
      BY <2>1, ClosedLess DEF ScopeInv
    <2> QED
      BY <1>1, <1>3, <1>4, <1>7, <2>2 DEF ScopeInv
  <1> QED
    BY <1>5, <1>6, <1>7

LEMMA EntryScope == Inv /\ ScopeInv /\ DeleteEntry => ScopeInv'
  <1> SUFFICES ASSUME Inv, ScopeInv, DeleteEntry PROVE ScopeInv'
    OBVIOUS
  <1>1. /\ stack # <<>> /\ scope' = scope /\ stack \in Seq(Directory) /\ scope \in SUBSET Node
        /\ Closed(scope, kind) /\ InScope(stack, scope) /\ kind \in [Node -> What]
    BY DEF DeleteEntry, Inv, TypeOK, ScopeInv
  <1>2. PICK e \in Top.may : Enter(e) \/ Unlink(e) \/ Pass(e)
    BY DEF DeleteEntry, Readable
  <1>3. e \in scope /\ e \in Node
    BY <1>1, <1>2, TopInScope
  <1> DEFINE s == WithSeen(stack, e)
  <1>4. s = SeenTop(e) /\ s \in Seq(Directory) /\ InScope(s, scope) /\ Len(s) = Len(stack)
          /\ stack # <<>> /\ s # <<>>
    <2>1. s = SeenTop(e)
      BY DEF SeenTop, WithSeen
    <2> HIDE DEF s
    <2>2. s \in Seq(Directory) /\ InScope(s, scope) /\ Len(s) = Len(stack)
      BY <1>1, <1>3, WithSeenType, ScopeSeen DEF s
    <2> QED
      BY <1>1, <2>1, <2>2
  <1> HIDE DEF s
  <1>5. CASE Pass(e)
    BY <1>1, <1>4, <1>5 DEF Pass, fs, ScopeInv
  <1>6. CASE Unlink(e)
    <2>1. kind' = [kind EXCEPT ![e] = "none"] /\ stack' = SyncStack(s, kind')
      BY <1>4, <1>6 DEF Unlink, Change, Kept
    <2>2. Closed(scope, kind')
      <3>1. \A m \in scope : kind'[m] = "link" => kind[m] = "link"
        BY <1>1, <2>1
      <3> QED
        BY <1>1, <3>1, ClosedLess
    <2>3. InScope(stack', scope) /\ stack' # <<>>
      BY <1>1, <1>4, <2>1, SyncInScope, SyncStackType
    <2> QED
      BY <1>1, <2>2, <2>3 DEF ScopeInv
  <1>7. CASE Enter(e)
    <2> DEFINE f == Opened(e, Follow(e))
    <2>1. Follow(e) \in Node /\ UNCHANGED kind /\ stack' = <<f>> \o s
      BY <1>3, <1>4, <1>7, StatSays DEF Enter, fs, Inv
    <2>2. Follow(e) \in scope
      BY <1>1, <1>3, <2>1, Followed, FilesAssumption
    <2>3. f \in Directory /\ f.via \in scope /\ f.at \in scope /\ f.may \subseteq scope
      <3>1. EntriesOf(kind, Follow(e)) \subseteq scope
        BY <1>1, <2>2, EntriesInScope
      <3> QED
        BY <1>3, <2>1, <2>2, <3>1, OpenedType
    <2> HIDE DEF f
    <2>4. InScope(stack', scope) /\ Len(stack') = Len(s) + 1
      BY <1>4, <2>1, <2>3, ScopePush, PushType
    <2>5. stack' # <<>>
      BY <1>4, <2>4
    <2> QED
      BY <1>1, <2>1, <2>4, <2>5 DEF ScopeInv
  <1> QED
    BY <1>2, <1>5, <1>6, <1>7

LEMMA EndScope == Inv /\ ScopeInv /\ DeleteEnd => ScopeInv'
  <1> SUFFICES ASSUME Inv, ScopeInv, DeleteEnd PROVE ScopeInv'
    OBVIOUS
  <1>1. /\ stack # <<>> /\ stack \in Seq(Directory) /\ scope \in SUBSET Node
        /\ Closed(scope, kind) /\ InScope(stack, scope) /\ kind \in [Node -> What]
        /\ stack' = SyncStack(Tail(stack), kind')
        /\ kind' = [kind EXCEPT ![Top.via] = "none"] \/ kind' = kind
        /\ Len(stack) = 1 => scope' = {}
        /\ Len(stack) # 1 => scope' = scope
    BY DEF DeleteEnd, Inv, TypeOK, ScopeInv, Change, Kept, fs
  <1>2. Closed(scope, kind')
    BY <1>1, ClosedLess
  <1>3. Tail(stack) \in Seq(Directory) /\ Len(Tail(stack)) = Len(stack) - 1 /\ Len(stack) >= 1
          /\ InScope(Tail(stack), scope) /\ Len(stack') = Len(Tail(stack))
    BY <1>1, PopType, ScopePop, SyncStackType
  <1>4. InScope(stack', scope)
    BY <1>1, <1>3, SyncInScope
  <1>5. CASE Len(stack) = 1
    <2>1. Len(stack') = 0
      BY <1>3, <1>5
    <2>2. scope' = {}
      BY <1>1, <1>5
    <2> QED
      BY <2>1, <2>2 DEF ScopeInv, Closed, InScope
  <1>6. CASE Len(stack) # 1
    <2>1. Len(stack') # 0 /\ scope' = scope
      BY <1>1, <1>3, <1>6
    <2>2. stack' # <<>>
      BY <2>1
    <2> QED
      BY <1>2, <1>4, <2>1, <2>2 DEF ScopeInv
  <1> QED
    BY <1>5, <1>6

LEMMA CallScope ==
  ASSUME Inv, ScopeInv, NEW d \in Node \ {ROOT}, DeleteCall(d)
  PROVE  ScopeInv'
  <1>1. CASE UNCHANGED <<stack, scope>>
    BY <1>1 DEF DeleteCall, fs, ScopeInv
  <1>2. CASE /\ IsKind(d, "dir") /\ stack' = <<Opened(d, Follow(d))>>
             /\ scope' = Reached({d, Follow(d)}, kind)
    <2> DEFINE f == Opened(d, Follow(d))
    <2>1. Follow(d) \in Node /\ UNCHANGED kind
      BY <1>2, Followed DEF IsKind, DeleteCall, fs
    <2>2. /\ {d, Follow(d)} \subseteq scope' /\ scope' \in SUBSET Node
          /\ Closed(scope', kind)
      BY <1>2, <2>1, ReachedClosed
    <2>3. EntriesOf(kind, Follow(d)) \subseteq scope'
      BY <2>2, EntriesInScope
    <2>4. f.via \in scope' /\ f.at \in scope' /\ f.may \subseteq scope'
      BY <2>1, <2>2, <2>3, OpenedType
    <2>5. Len(stack') = 1 /\ stack'[1] = f /\ stack' # <<>>
      BY <1>2
    <2> HIDE DEF f
    <2>6. InScope(stack', scope')
      BY <2>4, <2>5 DEF InScope
    <2> QED
      BY <2>1, <2>2, <2>5, <2>6 DEF ScopeInv
  <1> QED
    BY <1>1, <1>2 DEF DeleteCall

LEMMA ScopeInit == Init => ScopeInv
  BY DEF Init, ScopeInv, Closed, InScope

LEMMA ScopeNext == Inv /\ ScopeInv /\ [Next]_vars => ScopeInv'
  <1>1. ScopeInv /\ UNCHANGED <<kind, stack, scope>> => ScopeInv'
    BY DEF ScopeInv
  <1>2. UNCHANGED vars \/ Forget \/ ListEntry \/ ListEnd => UNCHANGED <<kind, stack, scope>>
    BY DEF vars, fs, Forget, ListEntry, ListEnd
  <1>3. \A d : ListCall(d) => UNCHANGED <<kind, stack, scope>>
    BY DEF ListCall, fs
  <1>4. ScopeInv /\ Simple => ScopeInv'
    <2>1. Simple => stack = <<>> /\ UNCHANGED <<stack, scope>>
      BY DEF Simple, Idle, Keeps
    <2> QED
      BY <2>1 DEF ScopeInv, Closed, InScope
  <1> QED
    BY <1>1, <1>2, <1>3, <1>4, OtherScope, EntryScope, EndScope, CallScope DEF Next

\* syscall.c:220-243, the loop of the recursive deletion: whatever links the other program
\* makes meanwhile, only what lies in scope is deleted.
LEMMA DeletedInScope ==
  ASSUME Inv, ScopeInv, [Next]_vars, DeletionSteps,
         NEW n \in Node, kind[n] # "none", kind'[n] = "none"
  PROVE  n \in scope
  <1>0. stack \in Seq(Directory) /\ kind \in [Node -> What] /\ stack # <<>>
    BY DEF Inv, TypeOK, DeletionSteps
  <1>1. UNCHANGED stack => FALSE
    BY DEF DeletionSteps, Top
  <1>2. UNCHANGED vars \/ Forget \/ Simple \/ ListEntry \/ ListEnd => UNCHANGED stack
    BY DEF vars, Forget, Simple, Keeps, ListEntry, ListEnd
  <1>3. \A d : ListCall(d) => UNCHANGED stack
    BY DEF ListCall
  <1>4. \A d : ~DeleteCall(d)
    BY <1>0 DEF DeleteCall, Idle
  <1>5. CASE Other
    <2>1. PICK k : stack' = SyncStack(stack, k)
      BY <1>5 DEF Other
    <2>2. Len(stack') = Len(stack) /\ stack' \in Seq(Directory) /\ 1 \in 1 .. Len(stack)
            /\ stack'[1] = Sync(stack[1], k) /\ stack[1] \in Directory
      BY <1>0, <2>1, SyncStackType, PopType
    <2>3. Head(stack') = stack'[1] /\ Head(stack) = stack[1]
      BY <2>2
    <2>4. Head(stack').seen = Head(stack).seen
      BY <2>2, <2>3, SyncType
    <2> QED
      BY <2>2, <2>4 DEF DeletionSteps, Top
  <1>6. CASE DeleteEntry
    <2>1. PICK e \in Top.may : Enter(e) \/ Unlink(e) \/ Pass(e)
      BY <1>6 DEF DeleteEntry, Readable
    <2>2. kind' = kind \/ kind' = [kind EXCEPT ![e] = "none"]
      BY <2>1 DEF Enter, Unlink, Pass, fs, Change, Kept
    <2>3. e \in scope
      BY <1>0, <2>1, TopInScope
    <2> QED
      BY <1>0, <2>2, <2>3
  <1>7. CASE DeleteEnd
    <2>1. kind' = kind \/ kind' = [kind EXCEPT ![Top.via] = "none"]
      BY <1>7 DEF DeleteEnd, fs, Change, Kept
    <2>2. Top.via \in scope
      BY <1>0, TopInScope
    <2> QED
      BY <1>0, <2>1, <2>2
  <1> QED
    BY <1>1, <1>2, <1>3, <1>4, <1>5, <1>6, <1>7 DEF Next

THEOREM ReachedCorrect == Spec => OnlyReached
  <1>1. Spec => []ScopeInv
    BY ScopeInit, ScopeNext, InvAlways, PTL DEF Spec
  <1>2. Inv /\ ScopeInv /\ [Next]_vars =>
          [DeletionSteps => \A n \in Node : kind[n] # "none" /\ kind'[n] = "none"
                                              => n \in scope]_vars
    BY DeletedInScope
  <1> QED
    BY <1>1, <1>2, InvAlways, PTL DEF Spec, OnlyReached

-----------------------------------------------------------------------------
(* What a recursive deletion deletes *)

\* All that is left of what lies at or below e has an obstacle at or below it.
Done(k, o, e) == \A m \in Below(e) : k[m] # "none" => Below(m) \cap o # {}

\* An open directory: what became of the entry it was opened by, and which entries readdir
\* may miss, those the other program made.
Frame(k, o, f) ==
  /\ f.via # ROOT
  /\ \A n \in f.may : n # ROOT /\ Parent[n] = f.at
  /\ f.via # f.at => k[f.via] # "dir"
  /\ f.via = f.at => k[f.via] \in {"none", "dir"} \/ f.via \in o
  /\ \A x \in EntriesOf(k, f.at) : x \in f.must \/ (x \in o /\ k[x] # "dir")

\* No call from the i-th outwards went by way of a link: then each directory lies below the
\* ones outside it, and the entries seen are done, all but the one being deleted.
Straight(s, i) == \A j \in i .. Len(s) : s[j].via = s[j].at
Chain(s, k, o, i) ==
  Straight(s, i) =>
    /\ \A j \in i .. Len(s) : s[j].via \in Up[s[i].via]
    /\ \A e \in s[i].seen : Done(k, o, e) \/ (i > 1 /\ s[i - 1].via = e /\ s[i - 1].at = e)
Frames(s, k, o) == \A i \in 1 .. Len(s) : Frame(k, o, s[i]) /\ Chain(s, k, o, i)
FramesInv == Frames(stack, kind, obstacles)

LEMMA DoneAlone ==
  ASSUME NEW k, Tree(k), NEW o, NEW n \in Node, k[n] # "dir", k[n] = "none" \/ n \in o
  PROVE  Done(k, o, n)
  <1> SUFFICES ASSUME NEW m \in Below(n), k[m] # "none" PROVE Below(m) \cap o # {}
    BY DEF Done
  <1>1. m = n
    BY NothingBelow
  <1>2. n \in Below(n) /\ n \in o
    BY <1>1, UpSteps
  <1> QED
    BY <1>1, <1>2

\* More obstacles do no harm.
LEMMA MoreObstacles ==
  ASSUME NEW s, NEW k, NEW o, NEW o2, Frames(s, k, o), o \subseteq o2
  PROVE  Frames(s, k, o2)
  <1>1. \A e : Done(k, o, e) => Done(k, o2, e)
    BY DEF Done
  <1>2. \A f : Frame(k, o, f) => Frame(k, o2, f)
    BY DEF Frame
  <1>3. \A i : Chain(s, k, o, i) => Chain(s, k, o2, i)
    BY <1>1 DEF Chain
  <1> QED
    BY <1>2, <1>3 DEF Frames

\* Nodes vanish, or such as are no directories come where they are obstacles.
Less(k, k2, o) ==
  \A n \in Node : k2[n] = k[n] \/ k2[n] = "none" \/ (k2[n] # "dir" /\ n \in o)

LEMMA FrameSynced ==
  ASSUME NEW k, NEW k2, NEW o, Less(k, k2, o), NEW f \in Directory, Frame(k, o, f)
  PROVE  Frame(k2, o, Sync(f, k2))
  <1> DEFINE g == Sync(f, k2)
  <1>1. /\ f.via \in Node /\ f.at \in Node /\ g.via = f.via /\ g.at = f.at
        /\ g.must = f.must \cap EntriesOf(k2, f.at)
        /\ g.may = f.may \cup EntriesOf(k2, f.at)
    BY SyncType DEF Directory
  <1> HIDE DEF g
  <1>2. \A n \in g.may : n # ROOT /\ Parent[n] = g.at
    BY <1>1 DEF Frame, EntriesOf
  <1>3. /\ g.via # ROOT
        /\ g.via # g.at => k2[g.via] # "dir"
        /\ g.via = g.at => k2[g.via] \in {"none", "dir"} \/ g.via \in o
    BY <1>1 DEF Frame, Less
  <1>4. ASSUME NEW x \in EntriesOf(k2, g.at) PROVE x \in g.must \/ (x \in o /\ k2[x] # "dir")
    <2>1. x \in Node \ {ROOT} /\ Parent[x] = f.at /\ k2[x] # "none"
      BY <1>1 DEF EntriesOf
    <2>2. CASE k2[x] = k[x]
      <3>1. x \in EntriesOf(k, f.at)
        BY <2>1, <2>2 DEF EntriesOf
      <3> QED
        BY <1>1, <2>2, <3>1 DEF Frame
    <2> QED
      BY <2>1, <2>2 DEF Less
  <1>5. Frame(k2, o, g)
    BY <1>2, <1>3, <1>4 DEF Frame
  <1> QED
    BY <1>5 DEF g

LEMMA FramesSynced ==
  ASSUME NEW s \in Seq(Directory), NEW k, NEW k2, NEW o, Frames(s, k, o), Less(k, k2, o)
  PROVE  Frames(SyncStack(s, k2), k2, o)
  <1> DEFINE t == SyncStack(s, k2)
  <1>1. /\ Len(s) \in Nat /\ Len(t) = Len(s)
        /\ \A i \in 1 .. Len(s) : s[i] \in Directory /\ t[i] = Sync(s[i], k2)
    BY SyncStackType
  <1> HIDE DEF t
  <1>2. \A i \in 1 .. Len(s) : t[i].via = s[i].via /\ t[i].at = s[i].at /\ t[i].seen = s[i].seen
    BY <1>1, SyncType
  <1>3. ASSUME NEW e \in Node, Done(k, o, e) PROVE Done(k2, o, e)
    <2> SUFFICES ASSUME NEW m \in Below(e), k2[m] # "none" PROVE Below(m) \cap o # {}
      BY DEF Done
    <2>1. m \in Node /\ m \in Below(m)
      BY UpSteps DEF Below
    <2> QED
      BY <1>3, <2>1 DEF Done, Less
  <1>4. ASSUME NEW i \in 1 .. Len(s) PROVE Frame(k2, o, t[i])
    BY <1>1, FrameSynced DEF Frames
  <1>5. ASSUME NEW i \in 1 .. Len(s) PROVE Chain(t, k2, o, i)
    <2>1. \A j \in i .. Len(s) : j \in 1 .. Len(s)
      BY <1>1
    <2>2. Straight(t, i) => Straight(s, i)
      BY <1>1, <1>2, <2>1 DEF Straight
    <2>3. s[i].seen \subseteq Node
      BY <1>1 DEF Directory
    <2>4. i > 1 => i - 1 \in 1 .. Len(s)
      BY <1>1
    <2>5. Chain(s, k, o, i)
      BY DEF Frames
    <2> QED
      BY <1>1, <1>2, <1>3, <2>1, <2>2, <2>3, <2>4, <2>5 DEF Chain
  <1> QED
    BY <1>1, <1>4, <1>5 DEF Frames, t

\* The same open directory, but for the entries seen.
Same(f, g) == f.via = g.via /\ f.at = g.at /\ f.must = g.must /\ f.may = g.may

LEMMA SameFrame ==
  ASSUME NEW k, NEW o, NEW f, NEW g, Same(f, g), Frame(k, o, g)
  PROVE  Frame(k, o, f)
  BY DEF Same, Frame

\* An entry that has been seen and is done.
LEMMA FramesSeen ==
  ASSUME NEW s \in Seq(Directory), NEW t \in Seq(Directory), NEW k, NEW o, Frames(s, k, o),
         Len(t) = Len(s), NEW e, \A i \in 1 .. Len(s) : Same(t[i], s[i]),
         \A i \in 1 .. Len(s) : t[i].seen \subseteq s[i].seen \cup {e},
         \A i \in 2 .. Len(s) : t[i].seen \subseteq s[i].seen,
         Straight(s, 1) => Done(k, o, e)
  PROVE  Frames(t, k, o)
  <1>1. Len(s) \in Nat
    OBVIOUS
  <1>2. ASSUME NEW i \in 1 .. Len(s) PROVE Chain(t, k, o, i)
    <2>1. \A j \in i .. Len(s) : j \in 1 .. Len(s)
      BY <1>1
    <2>2. Straight(t, i) <=> Straight(s, i)
      BY <2>1 DEF Straight, Same
    <2>3. Chain(s, k, o, i)
      BY DEF Frames
    <2>4. i > 1 => i - 1 \in 1 .. Len(s) /\ i \in 2 .. Len(s)
      BY <1>1
    <2>5. i > 1 \/ i = 1
      BY <1>1
    <2>6. Straight(t, i) => \A j \in i .. Len(t) : t[j].via \in Up[t[i].via]
      BY <2>1, <2>2, <2>3 DEF Chain, Same
    <2>7. ASSUME Straight(t, i), NEW x \in t[i].seen
          PROVE  Done(k, o, x) \/ (i > 1 /\ t[i - 1].via = x /\ t[i - 1].at = x)
      <3>1. CASE i = 1
        BY <1>1, <2>2, <2>3, <2>7, <3>1 DEF Chain
      <3>2. CASE i > 1
        BY <2>2, <2>3, <2>4, <2>7, <3>2 DEF Chain, Same
      <3> QED
        BY <2>5, <3>1, <3>2
    <2> QED
      BY <2>6, <2>7 DEF Chain
  <1> QED
    BY <1>2, SameFrame DEF Frames

\* A directory is entered.
LEMMA FramesPush ==
  ASSUME NEW s \in Seq(Directory), s # <<>>, NEW t \in Seq(Directory), NEW k, NEW o,
         Frames(s, k, o), NEW f \in Directory, Frame(k, o, f), f.seen = {},
         Len(t) = Len(s) + 1, t[1] = f, \A i \in 1 .. Len(s) : Same(t[i + 1], s[i]),
         \A i \in 1 .. Len(s) : t[i + 1].seen \subseteq s[i].seen \cup {f.via},
         \A i \in 2 .. Len(s) : t[i + 1].seen \subseteq s[i].seen,
         Straight(s, 1) => s[1].via \in Up[f.via],
         Straight(s, 1) => f.via = f.at \/ Done(k, o, f.via)
  PROVE  Frames(t, k, o)
  <1>0. Len(s) \in Nat \ {0} /\ \A i \in 1 .. Len(s) : s[i] \in Directory
    OBVIOUS
  <1>1. Len(s) \in Nat \ {0} /\ \A i \in 1 .. Len(s) : s[i].via \in Node
    BY <1>0 DEF Directory
  <1>2. \A j \in 1 .. Len(t) : j = 1 \/ (j - 1 \in 1 .. Len(s) /\ j = (j - 1) + 1)
    BY <1>1
  <1>3. \A j \in 1 .. Len(s) : j + 1 \in 1 .. Len(t)
    BY <1>1
  <1>4. ASSUME NEW i \in 1 .. Len(t) PROVE Frame(k, o, t[i])
    BY <1>2, SameFrame DEF Frames
  <1>5. ASSUME NEW i \in 1 .. Len(s) PROVE Straight(t, i + 1) <=> Straight(s, i)
    <2>1. \A j \in i .. Len(s) : j \in 1 .. Len(s) /\ j + 1 \in i + 1 .. Len(t)
      BY <1>1
    <2>2. \A j \in i + 1 .. Len(t) : j - 1 \in i .. Len(s) /\ j - 1 \in 1 .. Len(s)
                                       /\ j = (j - 1) + 1
      BY <1>1
    <2>3. ASSUME Straight(t, i + 1), NEW j \in i .. Len(s) PROVE s[j].via = s[j].at
      <3>1. Same(t[j + 1], s[j]) /\ t[j + 1].via = t[j + 1].at
        BY <2>1, <2>3 DEF Straight
      <3> QED
        BY <3>1 DEF Same
    <2>4. ASSUME Straight(s, i), NEW j \in i + 1 .. Len(t) PROVE t[j].via = t[j].at
      <3>1. Same(t[j], s[j - 1]) /\ s[j - 1].via = s[j - 1].at
        BY <2>2, <2>4 DEF Straight
      <3> QED
        BY <3>1 DEF Same
    <2> QED
      BY <2>3, <2>4 DEF Straight
  <1>6. Straight(t, 1) => Straight(s, 1) /\ f.via = f.at
    <2> SUFFICES ASSUME Straight(t, 1) PROVE Straight(s, 1) /\ f.via = f.at
      OBVIOUS
    <2>1. Straight(t, 1 + 1)
      BY <1>1 DEF Straight
    <2>2. f.via = f.at
      BY <1>1 DEF Straight
    <2> QED
      BY <1>1, <1>5, <2>1, <2>2
  <1>7. Chain(t, k, o, 1)
    <2> SUFFICES ASSUME Straight(t, 1), NEW j \in 1 .. Len(t) PROVE t[j].via \in Up[f.via]
      BY DEF Chain
    <2>1. f.via \in Node
      BY DEF Directory
    <2>2. CASE j = 1
      BY <2>1, <2>2, UpSteps
    <2>3. CASE j # 1
      <3>1. j - 1 \in 1 .. Len(s) /\ t[j].via = s[j - 1].via
        BY <1>2, <2>3 DEF Same
      <3>2. s[j - 1].via \in Up[s[1].via] /\ s[1].via \in Up[f.via]
        BY <1>1, <1>6, <3>1 DEF Frames, Chain
      <3> QED
        BY <1>1, <2>1, <3>1, <3>2, UpTransitive
    <2> QED
      BY <2>2, <2>3
  <1>8. ASSUME NEW i \in 1 .. Len(s) PROVE Chain(t, k, o, i + 1)
    <2> SUFFICES ASSUME Straight(t, i + 1) PROVE
          /\ \A j \in i + 1 .. Len(t) : t[j].via \in Up[t[i + 1].via]
          /\ \A e \in t[i + 1].seen : Done(k, o, e) \/ (t[i].via = e /\ t[i].at = e)
      BY <1>1 DEF Chain
    <2>1. /\ \A j \in i .. Len(s) : s[j].via \in Up[s[i].via]
          /\ \A e \in s[i].seen : Done(k, o, e) \/ (i > 1 /\ s[i - 1].via = e /\ s[i - 1].at = e)
      BY <1>5 DEF Frames, Chain
    <2>2. \A j \in i + 1 .. Len(t) : j - 1 \in i .. Len(s) /\ j - 1 \in 1 .. Len(s)
                                       /\ j = (j - 1) + 1
      BY <1>1
    <2>3. ASSUME NEW j \in i + 1 .. Len(t) PROVE t[j].via \in Up[t[i + 1].via]
      <3>1. Same(t[j], s[j - 1]) /\ Same(t[i + 1], s[i]) /\ s[j - 1].via \in Up[s[i].via]
        BY <2>1, <2>2
      <3> QED
        BY <3>1 DEF Same
    <2>4. ASSUME NEW e \in t[i + 1].seen PROVE Done(k, o, e) \/ (t[i].via = e /\ t[i].at = e)
      <3>1. CASE i = 1
        BY <1>5, <2>1, <2>4, <3>1
      <3>2. CASE i # 1
        <4>1. i \in 2 .. Len(s) /\ i - 1 \in 1 .. Len(s) /\ i = (i - 1) + 1
          BY <1>1, <3>2
        <4>2. e \in s[i].seen
          BY <2>4, <4>1
        <4>3. Same(t[i], s[i - 1])
          BY <4>1
        <4> QED
          BY <2>1, <4>2, <4>3 DEF Same
      <3> QED
        BY <3>1, <3>2
    <2> QED
      BY <2>3, <2>4
  <1> QED
    BY <1>2, <1>4, <1>7, <1>8 DEF Frames

\* The innermost call returns.
LEMMA FramesPop ==
  ASSUME NEW s \in Seq(Directory), s # <<>>, NEW t \in Seq(Directory), NEW k, NEW o,
         Frames(s, k, o), Len(t) = Len(s) - 1, \A i \in 1 .. Len(t) : t[i] = s[i + 1],
         Straight(s, 1) => Done(k, o, s[1].via)
  PROVE  Frames(t, k, o)
  <1>1. Len(s) \in Nat \ {0}
    OBVIOUS
  <1>2. \A i \in 1 .. Len(t) : i + 1 \in 1 .. Len(s)
    BY <1>1
  <1>3. ASSUME NEW i \in 1 .. Len(t) PROVE Chain(t, k, o, i)
    <2> SUFFICES ASSUME Straight(t, i) PROVE
          /\ \A j \in i .. Len(t) : t[j].via \in Up[t[i].via]
          /\ \A e \in t[i].seen : Done(k, o, e) \/ (i > 1 /\ t[i - 1].via = e /\ t[i - 1].at = e)
      BY DEF Chain
    <2>1. \A j \in i .. Len(t) : j \in 1 .. Len(t) /\ j + 1 \in i + 1 .. Len(s)
      BY <1>1
    <2>2. \A j \in i + 1 .. Len(s) : j - 1 \in i .. Len(t) /\ j - 1 \in 1 .. Len(t)
                                       /\ j = (j - 1) + 1
      BY <1>1
    <2>3. Straight(s, i + 1)
      BY <2>2 DEF Straight
    <2>4. /\ \A j \in i + 1 .. Len(s) : s[j].via \in Up[s[i + 1].via]
          /\ \A e \in s[i + 1].seen : Done(k, o, e) \/ (s[i].via = e /\ s[i].at = e)
      BY <1>1, <1>2, <2>3 DEF Frames, Chain
    <2>5. \A j \in i .. Len(t) : t[j].via \in Up[t[i].via]
      BY <2>1, <2>4
    <2>6. ASSUME NEW e \in t[i].seen
          PROVE  Done(k, o, e) \/ (i > 1 /\ t[i - 1].via = e /\ t[i - 1].at = e)
      <3>1. Done(k, o, e) \/ (s[i].via = e /\ s[i].at = e)
        BY <2>4, <2>6
      <3>2. CASE i = 1 /\ s[i].via = e /\ s[i].at = e
        <4>1. \A j \in 1 .. Len(s) : j = 1 \/ j \in i + 1 .. Len(s)
          BY <1>1, <3>2
        <4>2. Straight(s, 1)
          BY <2>3, <3>2, <4>1 DEF Straight
        <4> QED
          BY <3>2, <4>2
      <3>3. CASE i # 1
        <4>1. i - 1 \in 1 .. Len(t) /\ (i - 1) + 1 = i /\ i > 1
          BY <1>1, <3>3
        <4>2. t[i - 1] = s[i]
          BY <4>1
        <4> QED
          BY <3>1, <4>1, <4>2
      <3> QED
        BY <3>1, <3>2, <3>3
    <2> QED
      BY <2>5, <2>6
  <1> QED
    BY <1>2, <1>3 DEF Frames

LEMMA TopFrame ==
  ASSUME Inv, FramesInv, stack # <<>>
  PROVE  /\ Top = stack[1] /\ Top \in Directory /\ 1 \in 1 .. Len(stack)
         /\ Top.via \in Node \ {ROOT} /\ Top.at \in Node
         /\ Frame(kind, obstacles, Top) /\ Chain(stack, kind, obstacles, 1)
         /\ \A e \in Top.may : e \in Node \ {ROOT} /\ Parent[e] = Top.at
  <1>1. Top = stack[1] /\ Top \in Directory /\ 1 \in 1 .. Len(stack)
          /\ Top.may \in SUBSET Node /\ Top.via \in Node /\ Top.at \in Node
    BY TopType, PopType DEF Inv, TypeOK
  <1>2. Frame(kind, obstacles, Top) /\ Chain(stack, kind, obstacles, 1)
    BY <1>1 DEF FramesInv, Frames
  <1> QED
    BY <1>1, <1>2 DEF Frame

\* An entry that had become a link would have nothing below it.
LEMMA NoLinks ==
  ASSUME Inv, FramesInv, stack # <<>>, Straight(stack, 1), kind[Top.via] = "dir"
  PROVE  Links = 0
  <1>1. Top = stack[1] /\ Top.via \in Node /\ stack \in Seq(Directory)
          /\ \A j \in 1 .. Len(stack) : stack[j].via \in Up[Top.via]
    BY TopFrame DEF Chain, Inv, TypeOK
  <1>2. ASSUME NEW j \in DOMAIN stack PROVE kind[stack[j].via] # "link"
    <2>1. j \in 1 .. Len(stack) /\ stack[j] \in Directory
      BY <1>1
    <2>2. stack[j].via \in Node /\ Top.via \in Below(stack[j].via)
      BY <1>1, <2>1 DEF Directory, Below
    <2> QED
      BY <2>2, NothingBelow DEF Inv
  <1>3. {j \in DOMAIN stack : kind[stack[j].via] = "link"} = {}
    BY <1>2
  <1> QED
    BY <1>3, FS_EmptySet DEF Links

LEMMA EntryDirectory ==
  ASSUME Inv, FramesInv, stack # <<>>, NEW e \in Top.may, kind[e] # "none", Straight(stack, 1)
  PROVE  Links = 0 /\ Top.via \in Up[e]
  <1>1. e \in Node \ {ROOT} /\ Parent[e] = Top.at /\ Top.via = Top.at
    BY TopFrame DEF Straight
  <1>2. kind[Top.via] = "dir"
    BY <1>1 DEF Inv, Tree
  <1>3. Top.via \in Up[e]
    BY <1>1, UpSteps
  <1> QED
    BY <1>2, <1>3, NoLinks

LEMMA HinderedMore ==
  ASSUME NEW nodes, Hindered(nodes)
  PROVE  obstacles \subseteq obstacles' /\ (Links = 0 => nodes \subseteq obstacles')
  BY DEF Hindered

LEMMA OtherFrames == Inv /\ FramesInv /\ Other => FramesInv'
  <1> SUFFICES ASSUME Inv, FramesInv, Other PROVE FramesInv'
    OBVIOUS
  <1>1. PICK n \in Node \ {ROOT}, w \in What :
          /\ w # "dir" /\ kind' = [kind EXCEPT ![n] = w]
          /\ stack' = SyncStack(stack, kind')
          /\ obstacles' = IF stack # <<>> /\ w # "none" THEN obstacles \cup {n} ELSE obstacles
    <2>1. \A n \in Node \ {ROOT} : (Kinds[n] \ {"dir"}) \cup {"none"} \subseteq What
                                    /\ \A k \in (Kinds[n] \ {"dir"}) \cup {"none"} : k # "dir"
      BY FilesAssumption DEF What
    <2> QED
      BY <2>1 DEF Other, Change, Kept
  <1>2. stack \in Seq(Directory) /\ kind \in [Node -> What]
    BY DEF Inv, TypeOK
  <1>3. CASE stack = <<>>
    <2>1. Len(stack') = 0
      BY <1>1, <1>2, <1>3, SyncStackType
    <2> QED
      BY <2>1 DEF FramesInv, Frames
  <1>4. CASE stack # <<>>
    <2>1. Frames(stack, kind, obstacles')
      BY <1>1, MoreObstacles DEF FramesInv
    <2>2. Less(kind, kind', obstacles')
      BY <1>1, <1>2, <1>4 DEF Less
    <2> QED
      BY <1>1, <1>2, <2>1, <2>2, FramesSynced DEF FramesInv
  <1> QED
    BY <1>3, <1>4

LEMMA PassFrames ==
  ASSUME Inv, FramesInv, stack # <<>>, NEW e \in Top.may, Pass(e)
  PROVE  FramesInv'
  <1>1. e \in Node /\ stack \in Seq(Directory) /\ kind' = kind
    BY TopFrame DEF Inv, TypeOK, Pass, fs
  <1>2. stack' = WithSeen(stack, e)
    BY DEF Pass, SeenTop, WithSeen
  <1>3. obstacles \subseteq obstacles' /\ (kind[e] # "none" /\ Links = 0 => Below(e) \subseteq obstacles')
    BY HinderedMore DEF Pass, Exists
  <1>4. Straight(stack, 1) => Done(kind, obstacles', e)
    <2> SUFFICES ASSUME Straight(stack, 1) PROVE Done(kind, obstacles', e)
      OBVIOUS
    <2>1. CASE kind[e] = "none"
      BY <1>1, <2>1, DoneAlone DEF Inv
    <2>2. CASE kind[e] # "none"
      <3>1. Below(e) \subseteq obstacles'
        BY <1>3, <2>2, EntryDirectory
      <3>2. \A m \in Below(e) : m \in Below(m)
        BY UpSteps DEF Below
      <3> QED
        BY <3>1, <3>2 DEF Done
    <2> QED
      BY <2>1, <2>2
  <1>5. Frames(stack, kind, obstacles')
    BY <1>3, MoreObstacles DEF FramesInv
  <1>6. /\ stack' \in Seq(Directory) /\ Len(stack') = Len(stack)
        /\ \A i \in 1 .. Len(stack) : i = 1 \/ i \in 2 .. Len(stack)
        /\ stack[1] \in Directory /\ stack'[1] = Seen(stack[1], e)
        /\ \A i \in 2 .. Len(stack) : stack'[i] = stack[i]
    BY <1>1, <1>2, WithSeenType
  <1>7. \A i \in 1 .. Len(stack) : /\ Same(stack'[i], stack[i])
                                   /\ stack'[i].seen \subseteq stack[i].seen \cup {e}
    BY <1>1, <1>6, SeenType DEF Same
  <1>8. Frames(stack', kind, obstacles')
    BY <1>1, <1>4, <1>5, <1>6, <1>7, FramesSeen
  <1> QED
    BY <1>1, <1>8 DEF FramesInv

LEMMA UnlinkFrames ==
  ASSUME Inv, Inv', FramesInv, stack # <<>>, NEW e \in Top.may, Unlink(e)
  PROVE  FramesInv'
  <1>1. e \in Node /\ stack \in Seq(Directory) /\ kind \in [Node -> What] /\ obstacles' = obstacles
          /\ kind' = [kind EXCEPT ![e] = "none"]
    BY TopFrame DEF Inv, TypeOK, Unlink, Change, Kept
  <1> DEFINE u == WithSeen(stack, e)
             s == SyncStack(stack, kind')
  <1>2. stack' = SyncStack(u, kind')
    BY DEF Unlink, SeenTop, WithSeen
  <1>3. Less(kind, kind', obstacles)
    BY <1>1 DEF Less
  <1>4. Frames(s, kind', obstacles)
    BY <1>1, <1>3, FramesSynced DEF FramesInv
  <1>5. Done(kind', obstacles, e)
    <2>1. kind'[e] = "none" /\ Tree(kind')
      BY <1>1 DEF Inv
    <2> QED
      BY <1>1, <2>1, DoneAlone
  <1>6. /\ u \in Seq(Directory) /\ Len(u) = Len(stack)
        /\ \A i \in 1 .. Len(stack) : i = 1 \/ i \in 2 .. Len(stack)
        /\ stack[1] \in Directory /\ u[1] = Seen(stack[1], e)
        /\ \A i \in 2 .. Len(stack) : u[i] = stack[i]
    BY <1>1, WithSeenType
  <1> HIDE DEF u
  <1>7. /\ s \in Seq(Directory) /\ Len(s) = Len(stack)
        /\ \A i \in 1 .. Len(stack) : stack[i] \in Directory /\ s[i] = Sync(stack[i], kind')
        /\ stack' \in Seq(Directory) /\ Len(stack') = Len(stack)
        /\ \A i \in 1 .. Len(stack) : u[i] \in Directory /\ stack'[i] = Sync(u[i], kind')
    BY <1>1, <1>2, <1>6, SyncStackType
  <1> HIDE DEF s
  <1>8. \A i \in 1 .. Len(stack) : /\ Same(u[i], stack[i])
                                   /\ u[i].seen \subseteq stack[i].seen \cup {e}
    BY <1>1, <1>6, SeenType DEF Same
  <1>9. ASSUME NEW i \in 1 .. Len(stack)
        PROVE  /\ Same(stack'[i], s[i])
               /\ stack'[i].seen \subseteq s[i].seen \cup {e}
               /\ i \in 2 .. Len(stack) => stack'[i].seen \subseteq s[i].seen
    <2>1. /\ stack'[i] = Sync(u[i], kind') /\ s[i] = Sync(stack[i], kind')
          /\ u[i] \in Directory /\ stack[i] \in Directory
      BY <1>7
    <2>2. Same(stack'[i], s[i]) /\ stack'[i].seen = u[i].seen /\ s[i].seen = stack[i].seen
      <3>1. /\ Sync(u[i], kind').via = u[i].via /\ Sync(u[i], kind').at = u[i].at
            /\ Sync(u[i], kind').must = u[i].must \cap EntriesOf(kind', u[i].at)
            /\ Sync(u[i], kind').may = u[i].may \cup EntriesOf(kind', u[i].at)
            /\ Sync(u[i], kind').seen = u[i].seen
        BY <2>1, SyncType
      <3>2. /\ Sync(stack[i], kind').via = stack[i].via /\ Sync(stack[i], kind').at = stack[i].at
            /\ Sync(stack[i], kind').must = stack[i].must \cap EntriesOf(kind', stack[i].at)
            /\ Sync(stack[i], kind').may = stack[i].may \cup EntriesOf(kind', stack[i].at)
            /\ Sync(stack[i], kind').seen = stack[i].seen
        BY <2>1, SyncType
      <3>3. Same(u[i], stack[i])
        BY <1>8
      <3> QED
        BY <2>1, <3>1, <3>2, <3>3 DEF Same
    <2> QED
      BY <1>6, <1>8, <2>2
  <1>10. Frames(stack', kind', obstacles)
    BY <1>4, <1>5, <1>6, <1>7, <1>9, FramesSeen
  <1> QED
    BY <1>1, <1>10 DEF FramesInv

LEMMA EnterFrames ==
  ASSUME Inv, Inv', FramesInv, stack # <<>>, NEW e \in Top.may, Enter(e)
  PROVE  FramesInv'
  <1> DEFINE f == Opened(e, Follow(e))
             u == WithSeen(stack, e)
  <1>1. /\ e \in Node \ {ROOT} /\ Parent[e] = Top.at /\ Top = stack[1]
        /\ stack \in Seq(Directory) /\ kind \in [Node -> What] /\ kind' = kind
    BY TopFrame DEF Inv, TypeOK, Enter, fs
  <1>2. /\ kind[e] # "none" /\ Follow(e) \in Node
        /\ kind[e] # "link" => Follow(e) = e /\ kind[e] = "dir"
        /\ kind[e] = "link" => Follow(e) # e
    BY <1>1, StatSays DEF Enter, Inv
  <1>3. f \in Directory /\ f.via = e /\ f.at = Follow(e) /\ f.seen = {}
          /\ f.must = EntriesOf(kind, f.at) /\ f.may = EntriesOf(kind, f.at)
    BY <1>1, <1>2, OpenedType
  <1>4. stack' = <<f>> \o u
    BY DEF Enter, SeenTop, WithSeen
  <1> HIDE DEF f
  <1>5. Frame(kind, obstacles', f)
    <2>1. \A n \in f.may : n # ROOT /\ Parent[n] = f.at
      BY <1>3 DEF EntriesOf
    <2>2. f.via # f.at => kind[f.via] # "dir"
      BY <1>2, <1>3
    <2>3. f.via = f.at => kind[f.via] = "dir"
      BY <1>2, <1>3
    <2> QED
      BY <1>1, <1>3, <2>1, <2>2, <2>3 DEF Frame
  <1>6. obstacles \subseteq obstacles' /\ (kind[e] = "link" /\ Links = 0 => e \in obstacles')
    BY HinderedMore DEF Enter
  <1>7. Straight(stack, 1) => Top.via \in Up[e] /\ (f.via = f.at \/ Done(kind, obstacles', e))
    <2> SUFFICES ASSUME Straight(stack, 1)
                 PROVE  Top.via \in Up[e] /\ (f.via = f.at \/ Done(kind, obstacles', e))
      OBVIOUS
    <2>1. Links = 0 /\ Top.via \in Up[e]
      BY <1>2, EntryDirectory
    <2>2. kind[e] = "link" => Done(kind, obstacles', e)
      BY <1>1, <1>6, <2>1, DoneAlone DEF Inv
    <2> QED
      BY <1>2, <1>3, <2>1, <2>2
  <1>8. Frames(stack, kind, obstacles')
    BY <1>6, MoreObstacles DEF FramesInv
  <1>9. /\ u \in Seq(Directory) /\ Len(u) = Len(stack)
        /\ \A i \in 1 .. Len(stack) : i = 1 \/ i \in 2 .. Len(stack)
        /\ stack[1] \in Directory /\ u[1] = Seen(stack[1], e)
        /\ \A i \in 2 .. Len(stack) : u[i] = stack[i]
    BY <1>1, WithSeenType
  <1> HIDE DEF u
  <1>10. /\ stack' \in Seq(Directory) /\ Len(stack') = Len(stack) + 1 /\ stack'[1] = f
         /\ \A i \in 1 .. Len(stack) : stack'[i + 1] = u[i]
    BY <1>3, <1>4, <1>9, PushType
  <1>11. ASSUME NEW i \in 1 .. Len(stack)
         PROVE  /\ Same(stack'[i + 1], stack[i])
                /\ stack'[i + 1].seen \subseteq stack[i].seen \cup {f.via}
                /\ i \in 2 .. Len(stack) => stack'[i + 1].seen \subseteq stack[i].seen
    BY <1>1, <1>3, <1>9, <1>10, SeenType DEF Same
  <1>12. Frames(stack', kind, obstacles')
    BY <1>1, <1>3, <1>5, <1>7, <1>8, <1>9, <1>10, <1>11, FramesPush
  <1> QED
    BY <1>1, <1>12 DEF FramesInv

\* At the end of a directory, where it could not be removed.
LEMMA KeptDone ==
  ASSUME Inv, FramesInv, stack # <<>>, Straight(stack, 1), Top.must \subseteq Top.seen,
         NEW o, obstacles \subseteq o, Removable(Top.via) /\ Links = 0 => Top.via \in o
  PROVE  Done(kind, o, Top.via)
  <1>1. /\ Top.via \in Node \ {ROOT} /\ Top.at = Top.via /\ Frame(kind, obstacles, Top)
        /\ Top = stack[1] /\ \A e \in Top.seen : Done(kind, obstacles, e)
    BY TopFrame DEF Straight, Chain
  <1> SUFFICES ASSUME NEW m \in Below(Top.via), kind[m] # "none" PROVE Below(m) \cap o # {}
    BY DEF Done
  <1>2. m \in Node /\ m \in Below(m)
    BY UpSteps DEF Below
  <1>3. ASSUME NEW y \in EntriesOf(kind, Top.via), NEW x \in Below(y), kind[x] # "none"
        PROVE  Below(x) \cap o # {}
    <2>1. y \in Node
      BY DEF EntriesOf
    <2>2. CASE y \in Top.must
      <3>1. Done(kind, obstacles, y)
        BY <1>1, <2>2
      <3> QED
        BY <1>3, <3>1 DEF Done
    <2>3. CASE y \in obstacles /\ kind[y] # "dir"
      <3>1. x = y
        BY <1>3, <2>1, <2>3, NothingBelow DEF Inv
      <3>2. y \in Below(y)
        BY <2>1, UpSteps
      <3> QED
        BY <2>3, <3>1, <3>2
    <2> QED
      BY <1>1, <2>2, <2>3 DEF Frame
  <1>4. CASE m # Top.via
    <2>1. PICK y \in EntriesOf(kind, Top.via) : m \in Below(y)
      BY <1>1, <1>4, EntryAbove DEF Inv
    <2> QED
      BY <1>3, <2>1
  <1>5. CASE m = Top.via /\ EntriesOf(kind, Top.via) # {}
    <2>1. PICK y : y \in EntriesOf(kind, Top.via)
      BY <1>5
    <2>2. y \in Node \ {ROOT} /\ Parent[y] = m /\ kind[y] # "none" /\ y \in Below(y)
      BY <1>5, <2>1, UpSteps DEF EntriesOf
    <2>3. Below(y) \subseteq Below(m)
      <3>1. y \in Below(m)
        BY <2>2, BelowParts
      <3> QED
        BY <1>2, <3>1, BelowParts
    <2> QED
      BY <1>3, <2>1, <2>2, <2>3
  <1>6. CASE m = Top.via /\ EntriesOf(kind, Top.via) = {} /\ kind[m] = "dir"
    <2>1. Removable(Top.via)
      BY <1>1, <1>6 DEF Removable, Entries
    <2>2. Links = 0
      BY <1>6, NoLinks
    <2> QED
      BY <1>2, <1>6, <2>1, <2>2
  <1>7. CASE m = Top.via /\ kind[m] # "dir"
    <2>1. m \in obstacles
      BY <1>1, <1>7 DEF Frame
    <2> QED
      BY <1>2, <2>1
  <1> QED
    BY <1>4, <1>5, <1>6, <1>7

LEMMA EndFrames ==
  ASSUME Inv, Inv', FramesInv, DeleteEnd
  PROVE  FramesInv'
  <1>1. stack # <<>> /\ stack \in Seq(Directory) /\ kind \in [Node -> What] /\ Top = stack[1]
          /\ Top.via \in Node \ {ROOT} /\ Top.must \subseteq Top.seen
    BY TopFrame DEF DeleteEnd, Inv, TypeOK
  <1>2. PICK ret \in {0, -1} :
          /\ ret = 0 => Removable(Top.via) /\ kind' = [kind EXCEPT ![Top.via] = "none"]
          /\ ret = -1 => kind' = kind
          /\ stack' = SyncStack(Tail(stack), kind')
          /\ Len(stack) # 1 => IF ret = -1 /\ Removable(Top.via) THEN Hindered({Top.via})
                                                                 ELSE UNCHANGED obstacles
    BY DEF DeleteEnd, Change, Kept, fs
  <1> DEFINE u == Tail(stack)
             s == SyncStack(stack, kind')
  <1>3. u \in Seq(Directory) /\ Len(u) = Len(stack) - 1 /\ Len(stack) >= 1
          /\ \A i \in 1 .. Len(u) : u[i] = stack[i + 1] /\ i + 1 \in 1 .. Len(stack)
    BY <1>1, PopType
  <1> HIDE DEF u
  <1>4. /\ stack' \in Seq(Directory) /\ Len(stack') = Len(u)
        /\ \A i \in 1 .. Len(u) : stack'[i] = Sync(u[i], kind')
    BY <1>2, <1>3, SyncStackType DEF u
  <1>5. /\ s \in Seq(Directory) /\ Len(s) = Len(stack)
        /\ \A i \in 1 .. Len(stack) : stack[i] \in Directory /\ s[i] = Sync(stack[i], kind')
    BY <1>1, SyncStackType
  <1>6. s[1].via = Top.via /\ (Straight(s, 1) => Straight(stack, 1)) /\ s # <<>>
    <2>1. \A i \in 1 .. Len(stack) : s[i].via = stack[i].via /\ s[i].at = stack[i].at
      BY <1>5, SyncType
    <2>2. 1 \in 1 .. Len(stack)
      BY <1>3
    <2> HIDE DEF s
    <2> QED
      BY <1>1, <1>3, <1>5, <2>1, <2>2 DEF Straight
  <1> HIDE DEF s
  <1>7. CASE Len(stack) = 1
    <2>1. Len(stack') = 0
      BY <1>3, <1>4, <1>7
    <2> QED
      BY <2>1 DEF FramesInv, Frames
  <1>8. CASE Len(stack) # 1
    <2>1. obstacles \subseteq obstacles'
            /\ (ret = -1 /\ Removable(Top.via) /\ Links = 0 => Top.via \in obstacles')
      BY <1>2, <1>8, HinderedMore
    <2>2. Less(kind, kind', obstacles')
      BY <1>1, <1>2 DEF Less
    <2>3. Frames(stack, kind, obstacles')
      BY <2>1, MoreObstacles DEF FramesInv
    <2>4. Frames(s, kind', obstacles')
      BY <1>1, <2>2, <2>3, FramesSynced DEF s
    <2>5. Straight(stack, 1) => Done(kind', obstacles', Top.via)
      <3>1. CASE ret = 0
        <4>1. kind'[Top.via] = "none" /\ Tree(kind')
          BY <1>1, <1>2, <3>1 DEF Inv
        <4> QED
          BY <1>1, <4>1, DoneAlone
      <3>2. CASE ret = -1
        BY <1>1, <1>2, <2>1, <3>2, KeptDone
      <3> QED
        BY <3>1, <3>2
    <2>6. Len(stack') = Len(s) - 1 /\ \A i \in 1 .. Len(stack') : stack'[i] = s[i + 1]
      BY <1>3, <1>4, <1>5
    <2>7. Frames(stack', kind', obstacles')
      BY <1>4, <1>5, <1>6, <2>4, <2>5, <2>6, FramesPop
    <2> QED
      BY <2>7 DEF FramesInv
  <1> QED
    BY <1>7, <1>8

LEMMA CallFrames ==
  ASSUME Inv, FramesInv, NEW d \in Node \ {ROOT}, DeleteCall(d)
  PROVE  FramesInv'
  <1>1. CASE UNCHANGED stack
    BY <1>1 DEF DeleteCall, fs, FramesInv
  <1>2. CASE IsKind(d, "dir") /\ stack' = <<Opened(d, Follow(d))>>
    <2> DEFINE f == Opened(d, Follow(d))
    <2>1. Follow(d) \in Node /\ kind[Follow(d)] = "dir" /\ kind' = kind
      BY <1>2, Followed DEF IsKind, DeleteCall, fs
    <2>2. f.via = d /\ f.at = Follow(d) /\ f.seen = {}
            /\ f.must = EntriesOf(kind, f.at) /\ f.may = EntriesOf(kind, f.at)
      BY <2>1, OpenedType
    <2>3. Len(stack') = 1 /\ stack'[1] = f
      BY <1>2
    <2> HIDE DEF f
    <2>4. kind[d] # "link" => Follow(d) = d
      BY Followed
    <2>5. Frame(kind', obstacles', f)
      <3>1. \A n \in f.may : n # ROOT /\ Parent[n] = f.at
        BY <2>2 DEF EntriesOf
      <3>2. f.via # f.at => kind[f.via] # "dir"
        BY <2>2, <2>4
      <3>3. f.via = f.at => kind[f.via] = "dir"
        BY <2>1, <2>2
      <3> QED
        BY <2>1, <2>2, <3>1, <3>2, <3>3 DEF Frame
    <2>6. Chain(stack', kind', obstacles', 1)
      BY <2>2, <2>3, UpSteps DEF Chain
    <2> QED
      BY <2>3, <2>5, <2>6 DEF FramesInv, Frames
  <1> QED
    BY <1>1, <1>2 DEF DeleteCall

LEMMA FramesInit == Init => FramesInv
  BY DEF Init, FramesInv, Frames

LEMMA FramesNext == Inv /\ Inv' /\ FramesInv /\ [Next]_vars => FramesInv'
  <1>1. FramesInv /\ UNCHANGED <<kind, stack, obstacles>> => FramesInv'
    BY DEF FramesInv
  <1>2. UNCHANGED vars \/ Forget \/ ListEntry \/ ListEnd => UNCHANGED <<kind, stack, obstacles>>
    BY DEF vars, fs, Forget, ListEntry, ListEnd
  <1>3. \A d : ListCall(d) => UNCHANGED <<kind, stack, obstacles>>
    BY DEF ListCall, fs
  <1>4. FramesInv /\ Simple => FramesInv'
    <2>1. Simple => stack = <<>> /\ UNCHANGED stack
      BY DEF Simple, Idle, Keeps
    <2> QED
      BY <2>1 DEF FramesInv, Frames
  <1>5. ASSUME Inv, Inv', FramesInv, DeleteEntry PROVE FramesInv'
    <2>1. PICK e \in Top.may : Enter(e) \/ Unlink(e) \/ Pass(e)
      BY <1>5 DEF DeleteEntry, Readable
    <2>2. stack # <<>>
      BY <1>5 DEF DeleteEntry
    <2> QED
      BY <1>5, <2>1, <2>2, EnterFrames, UnlinkFrames, PassFrames
  <1> QED
    BY <1>1, <1>2, <1>3, <1>4, <1>5, OtherFrames, EndFrames, CallFrames DEF Next

\* syscall.c:216-249: what is left when the outermost call returns.
LeftOver ==
  LET left == {n \in Below(Top.via) : kind'[n] # "none"}
  IN  IF result'.ret = 0 THEN left = {}
      ELSE \A n \in left \ {Top.via} : Below(n) \cap obstacles # {}

LEMMA LeftAtEnd ==
  ASSUME Inv, FramesInv, DeleteEnd, Len(stack) = 1
  PROVE  LeftOver
  <1>1. /\ stack # <<>> /\ stack \in Seq(Directory) /\ kind \in [Node -> What] /\ Top = stack[1]
        /\ Top.via \in Node \ {ROOT} /\ Frame(kind, obstacles, Top)
        /\ Top.must \subseteq Top.seen
    BY TopFrame DEF DeleteEnd, Inv, TypeOK
  <1>2. PICK ret \in {0, -1} :
          /\ result'.ret = ret
          /\ ret = 0 => Removable(Top.via) /\ kind' = [kind EXCEPT ![Top.via] = "none"]
          /\ ret = -1 => kind' = kind
    BY DEF DeleteEnd, Returns, Change, Kept, fs
  <1>3. ASSUME ret = 0, NEW n \in Below(Top.via), kind'[n] # "none" PROVE FALSE
    <2>1. n # Top.via /\ n \in Node /\ kind[n] # "none" /\ EntriesOf(kind, Top.via) = {}
      BY <1>1, <1>2, <1>3 DEF Below, Removable, Entries
    <2> QED
      BY <1>1, <1>3, <2>1, EntryAbove DEF Inv
  <1>4. ASSUME ret = -1, NEW n \in Below(Top.via), n # Top.via, kind'[n] # "none"
        PROVE  Below(n) \cap obstacles # {}
    <2>1. kind[n] # "none" /\ n \in Node
      BY <1>2, <1>4 DEF Below
    <2>2. Top.via = Top.at
      <3>1. kind[Top.via] = "dir"
        BY <1>1, <1>4, <2>1, NothingBelow DEF Inv
      <3> QED
        BY <1>1, <3>1 DEF Frame
    <2>3. Straight(stack, 1)
      BY <1>1, <2>2 DEF Straight
    <2>4. \A e \in Top.seen : Done(kind, obstacles, e)
      BY <1>1, <2>3, TopFrame DEF Chain
    <2>5. PICK y \in EntriesOf(kind, Top.via) : n \in Below(y)
      BY <1>1, <1>4, <2>1, EntryAbove DEF Inv
    <2>6. y \in Node /\ y \in Below(y)
      BY <2>5, UpSteps DEF EntriesOf
    <2>7. CASE y \in Top.must
      BY <1>1, <2>1, <2>4, <2>5, <2>7 DEF Done
    <2>8. CASE y \in obstacles /\ kind[y] # "dir"
      <3>1. n = y
        BY <2>1, <2>5, <2>6, <2>8, NothingBelow DEF Inv
      <3> QED
        BY <2>6, <2>8, <3>1
    <2> QED
      BY <1>1, <2>2, <2>5, <2>7, <2>8 DEF Frame
  <1> QED
    BY <1>2, <1>3, <1>4 DEF LeftOver

\* Only the end of the outermost directory ends the deletion.
LEMMA LeftStep ==
  ASSUME Inv, FramesInv, [Next]_vars, Ends(stack)
  PROVE  LeftOver
  <1>1. stack # <<>> /\ stack' = <<>> /\ stack \in Seq(Directory) /\ Len(stack') = 0
    BY DEF Inv, TypeOK, Ends
  <1>2. UNCHANGED vars \/ Forget \/ Simple \/ ListEntry \/ ListEnd => UNCHANGED stack
    BY DEF vars, Forget, Simple, Keeps, ListEntry, ListEnd
  <1>3. \A d : ListCall(d) => UNCHANGED stack
    BY DEF ListCall
  <1>4. \A d : ~DeleteCall(d)
    BY <1>1 DEF DeleteCall, Idle
  <1>5. Len(stack) >= 1
    BY <1>1
  <1>6. ~Other
    <2>1. Other => Len(stack') = Len(stack)
      BY <1>1, SyncStackType DEF Other
    <2> QED
      BY <1>1, <1>5, <2>1
  <1>7. CASE DeleteEntry
    <2>1. PICK e \in Top.may : Enter(e) \/ Unlink(e) \/ Pass(e)
      BY <1>7 DEF DeleteEntry, Readable
    <2> DEFINE s == WithSeen(stack, e)
    <2>2. e \in Node /\ s = SeenTop(e)
      BY <1>1, <2>1, TopFrame DEF SeenTop, WithSeen
    <2>3. s \in Seq(Directory) /\ Len(s) = Len(stack)
      BY <1>1, <2>2, WithSeenType
    <2> HIDE DEF s
    <2>4. CASE Pass(e)
      BY <1>1, <1>5, <2>2, <2>3, <2>4 DEF Pass
    <2>5. CASE Unlink(e)
      <3>1. stack' = SyncStack(s, kind')
        BY <2>2, <2>5 DEF Unlink
      <3>2. Len(stack') = Len(stack)
        BY <2>3, <3>1, SyncStackType
      <3> QED
        BY <1>1, <1>5, <3>2
    <2>6. CASE Enter(e)
      <3>1. stack' = <<Opened(e, Follow(e))>> \o s /\ Follow(e) \in Node
        BY <2>2, <2>6, StatSays DEF Enter, Inv
      <3>2. Len(stack') = Len(s) + 1
        BY <2>2, <2>3, <3>1, OpenedType, PushType
      <3> QED
        BY <1>1, <1>5, <2>3, <3>2
    <2> QED
      BY <2>1, <2>4, <2>5, <2>6
  <1>8. CASE DeleteEnd
    <2>1. stack' = SyncStack(Tail(stack), kind')
      BY <1>8 DEF DeleteEnd
    <2>2. Tail(stack) \in Seq(Directory) /\ Len(Tail(stack)) = Len(stack) - 1
      BY <1>1, PopType
    <2>3. Len(stack') = Len(stack) - 1
      BY <2>1, <2>2, SyncStackType
    <2>4. Len(stack) = 1
      BY <1>1, <2>3
    <2> QED
      BY <1>8, <2>4, LeftAtEnd
  <1> QED
    BY <1>1, <1>2, <1>3, <1>4, <1>6, <1>7, <1>8 DEF Next

THEOREM DeletesCorrect == Spec => DeletesAll
  <1>1. Spec => []FramesInv
    BY FramesInit, FramesNext, InvAlways, PTL DEF Spec
  <1>2. Inv /\ FramesInv /\ [Next]_vars =>
          [Ends(stack) =>
             LET left == {n \in Below(Top.via) : kind'[n] # "none"}
             IN  IF result'.ret = 0 THEN left = {}
                 ELSE \A n \in left \ {Top.via} : Below(n) \cap obstacles # {}]_vars
    BY LeftStep DEF LeftOver
  <1> QED
    BY <1>1, <1>2, InvAlways, PTL DEF Spec, DeletesAll
=============================================================================

--------------------------- MODULE DynamicProofs ---------------------------
(***************************************************************************)
(* Proofs about Dynamic: for any objects and libraries, the loader's       *)
(* counts are those of the descriptors, and no library is lost unreported. *)
(***************************************************************************)
EXTENDS Dynamic, FiniteSetTheorems, TLAPS

\* How many handles on l an entry d of obj stands for, and a whole table of them.
One(h, l) == IF h = l THEN 1 ELSE 0
Holds(d, l) == IF d = NULL THEN 0 ELSE One(d.handle, l)
HoldersIn(f, l) == {o \in Obj : f[o] # NULL /\ f[o].handle = l}
Count(f, l) == Cardinality(HoldersIn(f, l))

Tables == [Obj -> Descriptor \cup {NULL}]

LEMMA HoldersFinite ==
  ASSUME NEW f, NEW l
  PROVE  IsFiniteSet(HoldersIn(f, l)) /\ Count(f, l) \in Nat
  <1>1. HoldersIn(f, l) \in SUBSET Obj
    BY DEF HoldersIn
  <1> QED
    BY <1>1, FS_Subset, FS_CardinalityType, DynamicAssumption DEF Count

\* Replacing one entry changes the count by what the old and the new one stand for.
LEMMA CountReplaced ==
  ASSUME NEW f \in Tables, NEW o \in Obj, NEW d \in Descriptor \cup {NULL}, NEW l
  PROVE  Count([f EXCEPT ![o] = d], l) = Count(f, l) - Holds(f[o], l) + Holds(d, l)
  <1> DEFINE g == [f EXCEPT ![o] = d]
             R == HoldersIn(f, l) \ {o}
  <1>1. IsFiniteSet(R) /\ o \notin R /\ Cardinality(R) \in Nat
    BY HoldersFinite, FS_RemoveElement, FS_CardinalityType
  <1>2. Count(f, l) = Cardinality(R) + Holds(f[o], l)
    <2>1. CASE o \in HoldersIn(f, l)
      <3>1. Holds(f[o], l) = 1
        BY <2>1 DEF HoldersIn, Holds, One
      <3>2. Cardinality(R) = Count(f, l) - 1
        BY <2>1, HoldersFinite, FS_RemoveElement DEF Count
      <3> QED
        BY <3>1, <3>2, HoldersFinite
    <2>2. CASE o \notin HoldersIn(f, l)
      <3>1. Holds(f[o], l) = 0
        BY <2>2 DEF HoldersIn, Holds, One
      <3>2. Cardinality(R) = Count(f, l)
        BY <2>2, HoldersFinite, FS_RemoveElement DEF Count
      <3> QED
        BY <3>1, <3>2, HoldersFinite
    <2> QED
      BY <2>1, <2>2
  <1>3. Count(g, l) = Cardinality(R) + Holds(d, l)
    <2>1. \A p \in Obj : p # o => g[p] = f[p]
      BY DEF Tables
    <2>2. g[o] = d
      BY DEF Tables
    <2>3. CASE d # NULL /\ d.handle = l
      <3>1. HoldersIn(g, l) = R \cup {o}
        BY <2>1, <2>2, <2>3 DEF HoldersIn
      <3>2. Cardinality(R \cup {o}) = Cardinality(R) + 1
        BY <1>1, FS_AddElement
      <3>3. Holds(d, l) = 1
        BY <2>3 DEF Holds, One
      <3> QED
        BY <3>1, <3>2, <3>3 DEF Count
    <2>4. CASE ~(d # NULL /\ d.handle = l)
      <3>1. HoldersIn(g, l) = R
        BY <2>1, <2>2, <2>4 DEF HoldersIn
      <3>2. Holds(d, l) = 0
        BY <2>4 DEF Holds, One
      <3>3. Count(g, l) = Cardinality(R)
        BY <3>1, Zenon DEF Count
      <3> HIDE DEF g, R
      <3> QED
        BY <1>1, <3>2, <3>3
    <2> QED
      BY <2>3, <2>4
  <1>4. Holds(f[o], l) \in {0, 1} /\ Holds(d, l) \in {0, 1}
    BY DEF Holds, One
  <1> QED
    BY <1>1, <1>2, <1>3, <1>4

-----------------------------------------------------------------------------
\* The accounts: what the loader counts per library, less what has been leaked.
Typed == /\ obj \in Tables
         /\ refs \in [Lib -> Int]
         /\ leaked \in [Lib -> Nat]
         /\ error \in {"none", "load", "unload", "symbol"}
         /\ raw \in {"unused", "used"}
Bounded == \A l \in Lib : refs[l] <= MAX_REFS
Balanced == \A l \in Lib : refs[l] = Count(obj, l) + leaked[l]
Books == Typed /\ Bounded /\ Balanced

LEMMA BooksHandles == Balanced <=> HandlesCounted
  BY DEF Balanced, HandlesCounted, Count, HoldersIn, Holders, Constructed

LEMMA BooksType == Books => TypeOK
  <1> SUFFICES ASSUME Books PROVE TypeOK
    OBVIOUS
  <1>1. ASSUME NEW l \in Lib
        PROVE  refs[l] \in 0 .. MAX_REFS /\ leaked[l] \in 0 .. MAX_REFS
    BY HoldersFinite, DynamicAssumption DEF Books, Typed, Bounded, Balanced
  <1>2. refs \in [Lib -> 0 .. MAX_REFS] /\ leaked \in [Lib -> 0 .. MAX_REFS]
    BY <1>1 DEF Books, Typed
  <1> QED
    BY <1>2 DEF Books, Typed, TypeOK, Tables

LEMMA BooksInit == Init => Books
  <1> SUFFICES ASSUME Init PROVE Books
    OBVIOUS
  <1>1. Typed /\ Bounded
    BY DynamicAssumption DEF Init, Typed, Bounded, Tables
  <1>2. ASSUME NEW l \in Lib PROVE Count(obj, l) = 0
    <2>1. HoldersIn(obj, l) = {}
      BY DEF Init, HoldersIn
    <2> QED
      BY <2>1, FS_EmptySet DEF Count
  <1>3. Balanced
    BY <1>2 DEF Init, Balanced
  <1> QED
    BY <1>1, <1>3 DEF Books

LEMMA ForgetsCount ==
  ASSUME leaked \in [Lib -> Nat], NEW h \in Lib \cup {NULL}, Forgets(h)
  PROVE  /\ leaked' \in [Lib -> Nat]
         /\ \A l \in Lib : leaked'[l] = leaked[l] + One(h, l)
  BY DynamicAssumption DEF Forgets, One

LEMMA EntryTypes ==
  /\ NULL \notin Lib /\ NULL \notin Descriptor
  /\ \A id \in Origin : Fresh(id) \in Descriptor
  /\ \A d \in Descriptor : Emptied(d) \in Descriptor
  /\ \A d \in Descriptor, l \in Lib : Holds(Emptied(d), l) = 0
  /\ \A id \in Origin, l \in Lib : Holds(Fresh(id), l) = 0
  BY DynamicAssumption DEF Descriptor, Fresh, Emptied, Holds, One, Origin

\* A step that replaces one entry keeps the books if the counts move with it.
LEMMA Rebalance ==
  ASSUME Books, NEW o \in Obj, NEW e \in Descriptor \cup {NULL},
         obj' = [obj EXCEPT ![o] = e],
         refs' \in [Lib -> Int], leaked' \in [Lib -> Nat], Bounded',
         error' \in {"none", "load", "unload", "symbol"}, raw' \in {"unused", "used"},
         \A l \in Lib : refs'[l] = refs[l] + Holds(e, l) - Holds(obj[o], l)
                                          + leaked'[l] - leaked[l]
  PROVE  Books'
  <1>1. Typed'
    BY DEF Books, Typed, Tables
  <1>2. ASSUME NEW l \in Lib PROVE refs'[l] = Count(obj', l) + leaked'[l]
    <2>1. Count(obj', l) = Count(obj, l) - Holds(obj[o], l) + Holds(e, l)
      BY CountReplaced DEF Books, Typed
    <2>2. refs[l] = Count(obj, l) + leaked[l]
      BY DEF Books, Balanced
    <2>3. Count(obj, l) \in Nat /\ Holds(obj[o], l) \in {0, 1} /\ Holds(e, l) \in {0, 1}
      BY HoldersFinite DEF Holds, One
    <2>4. leaked[l] \in Nat /\ leaked'[l] \in Nat
      BY DEF Books, Typed
    <2> QED
      BY <2>1, <2>2, <2>3, <2>4
  <1>3. Balanced'
    BY <1>2 DEF Balanced
  <1> QED
    BY <1>1, <1>3 DEF Books

\* The descriptor an operation works on stands for the handle its object has.
SameHandle(o, d) == d \in Descriptor /\ \A l \in Lib : Holds(obj[o], l) = One(d.handle, l)

LEMMA LoadSucceedsStep ==
  ASSUME Books, NEW o \in Obj, NEW d, SameHandle(o, d), NEW p \in Path,
         NEW loaded \in BOOLEAN, dynamic_load_succeeds(o, d, p, loaded),
         raw' \in {"unused", "used"}
  PROVE  Books'
  <1> DEFINE e == [handle |-> p.lib, status |-> 1, id |-> "stack", path |-> "stack",
                   loaded |-> loaded]
  <1>1. p.lib \in Lib
    BY DEF Path
  <1>2. e \in Descriptor /\ \A l \in Lib : Holds(e, l) = One(p.lib, l)
    BY <1>1, EntryTypes DEF Descriptor, Origin, Holds
  <1>3. obj' = [obj EXCEPT ![o] = e]
    BY DEF dynamic_load_succeeds
  <1>4. /\ refs' \in [Lib -> Int]
        /\ \A l \in Lib : refs'[l] = refs[l] + One(p.lib, l)
        /\ Bounded'
    BY <1>1, DynamicAssumption DEF dynamic_load_succeeds, Books, Typed, Bounded, One
  <1>5. /\ leaked' \in [Lib -> Nat]
        /\ \A l \in Lib : leaked'[l] = leaked[l] + One(d.handle, l)
    BY ForgetsCount DEF dynamic_load_succeeds, Books, Typed, SameHandle, Descriptor
  <1>6. error' \in {"none", "load", "unload", "symbol"}
    BY DEF dynamic_load_succeeds, Books, Typed
  <1>7. ASSUME NEW l \in Lib
        PROVE  refs'[l] = refs[l] + Holds(e, l) - Holds(obj[o], l) + leaked'[l] - leaked[l]
    <2>1. /\ Holds(e, l) = One(p.lib, l) /\ Holds(obj[o], l) = One(d.handle, l)
          /\ leaked'[l] = leaked[l] + One(d.handle, l)
          /\ refs'[l] = refs[l] + One(p.lib, l)
      BY <1>2, <1>4, <1>5 DEF SameHandle
    <2>2. /\ One(p.lib, l) \in {0, 1} /\ One(d.handle, l) \in {0, 1}
          /\ leaked[l] \in Nat /\ refs[l] \in Int
      BY DEF One, Books, Typed
    <2> QED
      BY <2>1, <2>2
  <1> HIDE DEF e
  <1> QED
    BY <1>2, <1>3, <1>4, <1>5, <1>6, <1>7, Rebalance

LEMMA LoadFailsStep ==
  ASSUME Books, NEW o \in Obj, NEW d, SameHandle(o, d), NEW p \in Path,
         dynamic_load_fails(o, d, p), raw' \in {"unused", "used"}
  PROVE  Books'
  <1>1. d \in Descriptor /\ d # NULL
    BY EntryTypes DEF SameHandle
  <1>2. ASSUME NEW l \in Lib
        PROVE  refs'[l] = refs[l] + Holds(d, l) - Holds(obj[o], l) + leaked'[l] - leaked[l]
    <2>1. Holds(d, l) = One(d.handle, l) /\ Holds(obj[o], l) = One(d.handle, l)
      BY <1>1 DEF SameHandle, Holds
    <2>2. One(d.handle, l) \in {0, 1} /\ leaked[l] \in Nat /\ refs[l] \in Int
      BY DEF One, Books, Typed
    <2> QED
      BY <2>1, <2>2 DEF dynamic_load_fails
  <1> QED
    BY <1>1, <1>2, Rebalance DEF dynamic_load_fails, Books, Typed, Bounded

\* What is unloaded is the entry's own handle.
LEMMA OwnHandle ==
  ASSUME Books, NEW o \in Obj, Constructed(o)
  PROVE  SameHandle(o, obj[o])
  BY DEF Books, Typed, Tables, Constructed, SameHandle, Holds

LEMMA UnloadStep ==
  ASSUME Books, NEW o \in Obj, Constructed(o), NEW loaded \in BOOLEAN,
         \/ dynamic_unload_refused(o)
         \/ dynamic_unload_succeeds(o, loaded)
         \/ dynamic_unload_fails(o),
         raw' \in {"unused", "used"}
  PROVE  Books'
  <1>1. CASE dynamic_unload_refused(o) \/ dynamic_unload_fails(o)
    <2>1. UNCHANGED <<obj, refs, leaked>> /\ error' \in {"none", "load", "unload", "symbol"}
      BY <1>1 DEF dynamic_unload_refused, dynamic_unload_fails, Books, Typed
    <2> QED
      BY <2>1 DEF Books, Typed, Bounded, Balanced
  <1>2. CASE dynamic_unload_succeeds(o, loaded)
    <2> DEFINE h == obj[o].handle
               e == [obj[o] EXCEPT !.handle = NULL, !.status = 0, !.loaded = loaded]
    <2>1. obj[o] \in Descriptor /\ h \in Lib
      BY <1>2 DEF dynamic_unload_succeeds, Books, Typed, Tables, Constructed, Descriptor
    <2>2. e \in Descriptor /\ e.handle = NULL
      BY <2>1 DEF Descriptor
    <2>3. \A l \in Lib : Holds(e, l) = 0 /\ Holds(obj[o], l) = One(h, l)
      BY <2>1, <2>2, EntryTypes DEF Holds, One
    <2>4. obj' = [obj EXCEPT ![o] = e]
      BY <1>2 DEF dynamic_unload_succeeds
    <2>5. /\ refs' \in [Lib -> Int]
          /\ \A l \in Lib : refs'[l] = refs[l] - One(h, l)
          /\ Bounded'
      BY <1>2, <2>1, DynamicAssumption
      DEF dynamic_unload_succeeds, Books, Typed, Bounded, One
    <2>6. /\ leaked' = leaked /\ leaked' \in [Lib -> Nat]
          /\ error' \in {"none", "load", "unload", "symbol"}
      BY <1>2 DEF dynamic_unload_succeeds, Books, Typed
    <2>7. ASSUME NEW l \in Lib
          PROVE  refs'[l] = refs[l] + Holds(e, l) - Holds(obj[o], l)
                                    + leaked'[l] - leaked[l]
      <3>1. Holds(e, l) = 0 /\ Holds(obj[o], l) = One(h, l) /\ refs'[l] = refs[l] - One(h, l)
        BY <2>3, <2>5
      <3>2. One(h, l) \in {0, 1} /\ leaked[l] \in Nat /\ leaked'[l] = leaked[l]
            /\ refs[l] \in Int
        BY <2>6 DEF One, Books, Typed
      <3> QED
        BY <3>1, <3>2
    <2> HIDE DEF e, h
    <2> QED
      BY <2>2, <2>4, <2>5, <2>6, <2>7, Rebalance
  <1> QED
    BY <1>1, <1>2

LEMMA LoadIntoStep ==
  ASSUME Books, NEW o \in Obj, NEW d, SameHandle(o, d), NEW p \in Path, LoadInto(o, d, p),
         raw' \in {"unused", "used"}
  PROVE  Books'
  <1>1. CASE obj' = [obj EXCEPT ![o] = d] /\ UNCHANGED <<refs, leaked, error>>
    <2>1. d \in Descriptor /\ d # NULL
      BY EntryTypes DEF SameHandle
    <2>2. ASSUME NEW l \in Lib
          PROVE  refs'[l] = refs[l] + Holds(d, l) - Holds(obj[o], l) + leaked'[l] - leaked[l]
      <3>1. Holds(d, l) = One(d.handle, l) /\ Holds(obj[o], l) = One(d.handle, l)
        BY <2>1 DEF SameHandle, Holds
      <3>2. One(d.handle, l) \in {0, 1} /\ leaked[l] \in Nat /\ refs[l] \in Int
        BY DEF One, Books, Typed
      <3> QED
        BY <1>1, <3>1, <3>2
    <2> QED
      BY <1>1, <2>1, <2>2, Rebalance DEF Books, Typed, Bounded
  <1>2. ASSUME NEW e, e = [d EXCEPT !.path = "caller"],
               dynamic_load_succeeds(o, e, p, TRUE) \/ dynamic_load_fails(o, e, p)
        PROVE  Books'
    <2>1. SameHandle(o, e)
      BY <1>2 DEF SameHandle, Descriptor, Origin
    <2> QED
      BY <1>2, <2>1, LoadSucceedsStep, LoadFailsStep
  <1> QED
    BY <1>1, <1>2 DEF LoadInto

\* A descriptor that is given up takes its handle out of the books, closed or leaked.
LEMMA DisposeCount ==
  ASSUME Books, NEW d \in Descriptor, Dispose(d)
  PROVE  /\ refs' \in [Lib -> Int] /\ leaked' \in [Lib -> Nat] /\ Bounded'
         /\ error' \in {"none", "load", "unload", "symbol"}
         /\ \A l \in Lib : refs'[l] = refs[l] - One(d.handle, l) + leaked'[l] - leaked[l]
  <1>1. d.handle \in Lib \cup {NULL}
    BY DEF Descriptor
  <1>2. CASE UNCHANGED refs /\ Forgets(d.handle) /\ error' \in {error, "unload"}
    <2>1. /\ leaked' \in [Lib -> Nat]
          /\ \A l \in Lib : leaked'[l] = leaked[l] + One(d.handle, l)
      BY <1>1, <1>2, ForgetsCount DEF Books, Typed
    <2>2. ASSUME NEW l \in Lib
          PROVE  refs'[l] = refs[l] - One(d.handle, l) + leaked'[l] - leaked[l]
      <3>1. One(d.handle, l) \in {0, 1} /\ leaked[l] \in Nat /\ refs[l] \in Int
        BY DEF One, Books, Typed
      <3> QED
        BY <1>2, <2>1, <3>1
    <2> QED
      BY <1>2, <2>1, <2>2 DEF Books, Typed, Bounded
  <1>3. CASE /\ d.handle # NULL
             /\ refs' = [refs EXCEPT ![d.handle] = @ - 1]
             /\ UNCHANGED <<leaked, error>>
    <2>1. /\ refs' \in [Lib -> Int]
          /\ \A l \in Lib : refs'[l] = refs[l] - One(d.handle, l)
          /\ Bounded'
      BY <1>1, <1>3, DynamicAssumption DEF Books, Typed, Bounded, One
    <2>2. ASSUME NEW l \in Lib
          PROVE  refs'[l] = refs[l] - One(d.handle, l) + leaked'[l] - leaked[l]
      <3>1. One(d.handle, l) \in {0, 1} /\ leaked[l] \in Nat /\ refs[l] \in Int
        BY DEF One, Books, Typed
      <3> QED
        BY <1>3, <2>1, <3>1
    <2> QED
      BY <1>3, <2>1, <2>2 DEF Books, Typed
  <1> QED
    BY <1>2, <1>3 DEF Dispose

LEMMA DestroyStep ==
  ASSUME Books, NEW o \in Obj, Destroy(o)
  PROVE  Books'
  <1>1. SameHandle(o, obj[o]) /\ obj[o] \in Descriptor
    BY OwnHandle DEF Destroy, SameHandle
  <1>2. /\ refs' \in [Lib -> Int] /\ leaked' \in [Lib -> Nat] /\ Bounded'
        /\ error' \in {"none", "load", "unload", "symbol"}
        /\ \A l \in Lib : refs'[l] = refs[l] - One(obj[o].handle, l) + leaked'[l] - leaked[l]
    BY <1>1, DisposeCount DEF Destroy
  <1>3. ASSUME NEW l \in Lib
        PROVE  refs'[l] = refs[l] + Holds(NULL, l) - Holds(obj[o], l) + leaked'[l] - leaked[l]
    <2>1. Holds(NULL, l) = 0 /\ Holds(obj[o], l) = One(obj[o].handle, l)
      BY <1>1 DEF Holds, SameHandle
    <2>2. One(obj[o].handle, l) \in {0, 1} /\ leaked[l] \in Nat /\ refs[l] \in Int
      BY DEF One, Books, Typed
    <2>3. leaked'[l] \in Nat
      BY <1>2
    <2> QED
      BY <1>2, <2>1, <2>2, <2>3
  <1> QED
    BY <1>2, <1>3, Rebalance DEF Destroy, Books, Typed

\* A move only takes out of the table what its target stood for.
LEMMA MoveCount ==
  ASSUME Typed, NEW o \in Obj, NEW from \in Obj, o # from, Constructed(from),
         obj' = [obj EXCEPT ![o] = obj[from], ![from] = Emptied(obj[from])],
         NEW l \in Lib
  PROVE  obj' \in Tables /\ Count(obj', l) = Count(obj, l) - Holds(obj[o], l)
  <1> DEFINE f == [obj EXCEPT ![o] = obj[from]]
             d == Emptied(obj[from])
  <1>1. obj[from] \in Descriptor /\ d \in Descriptor /\ Holds(d, l) = 0
    BY EntryTypes DEF Typed, Tables, Constructed
  <1>2. f \in Tables /\ f[from] = obj[from] /\ obj' = [f EXCEPT ![from] = d]
    BY <1>1 DEF Typed, Tables
  <1>3. Count(f, l) = Count(obj, l) - Holds(obj[o], l) + Holds(obj[from], l)
    <2>1. obj \in Tables /\ obj[from] \in Descriptor \cup {NULL}
      BY <1>1 DEF Typed
    <2> QED
      BY <2>1, CountReplaced, Zenon
  <1> HIDE DEF d, f
  <1>4. Count([f EXCEPT ![from] = d], l) = Count(f, l) - Holds(f[from], l) + Holds(d, l)
    <2>1. d \in Descriptor \cup {NULL} /\ f \in Tables
      BY <1>1, <1>2
    <2> QED
      BY <2>1, CountReplaced, Zenon
  <1>5. /\ Holds(obj[from], l) \in {0, 1} /\ Holds(obj[o], l) \in {0, 1}
        /\ Count(obj, l) \in Nat
    BY HoldersFinite DEF Holds, One
  <1>6. obj' \in Tables
    BY <1>1, <1>2 DEF Tables
  <1>7. Count(obj', l) = Count(f, l) - Holds(obj[from], l) + Holds(d, l)
    BY <1>2, <1>4, Zenon
  <1>8. Count(f, l) \in Nat /\ Holds(d, l) = 0
    BY <1>1, HoldersFinite
  <1> QED
    BY <1>3, <1>5, <1>6, <1>7, <1>8

LEMMA MoveStep ==
  ASSUME Books, NEW o \in Obj, NEW from \in Obj,
         MoveConstruct(o, from) \/ MoveAssign(o, from)
  PROVE  Books'
  <1>1. /\ o # from /\ Constructed(from)
        /\ obj' = [obj EXCEPT ![o] = obj[from], ![from] = Emptied(obj[from])]
        /\ raw' = raw
    BY DEF MoveConstruct, MoveAssign
  <1>2. /\ refs' \in [Lib -> Int] /\ leaked' \in [Lib -> Nat] /\ Bounded'
        /\ error' \in {"none", "load", "unload", "symbol"}
        /\ \A l \in Lib : refs'[l] = refs[l] - Holds(obj[o], l) + leaked'[l] - leaked[l]
    <2>1. CASE MoveConstruct(o, from)
      <3>1. \A l \in Lib : Holds(obj[o], l) = 0
        BY <2>1 DEF MoveConstruct, Constructed, Holds
      <3>2. UNCHANGED <<refs, leaked, error>>
        BY <2>1 DEF MoveConstruct
      <3> QED
        BY <3>1, <3>2 DEF Books, Typed, Bounded
    <2>2. CASE MoveAssign(o, from)
      <3>1. SameHandle(o, obj[o]) /\ obj[o] \in Descriptor
        BY <2>2, OwnHandle DEF MoveAssign, SameHandle
      <3> QED
        BY <2>2, <3>1, DisposeCount DEF MoveAssign, SameHandle
    <2> QED
      BY <2>1, <2>2
  <1>3. ASSUME NEW l \in Lib
        PROVE  obj' \in Tables /\ refs'[l] = Count(obj', l) + leaked'[l]
    <2>1. obj' \in Tables /\ Count(obj', l) = Count(obj, l) - Holds(obj[o], l)
      BY <1>1, MoveCount DEF Books
    <2>2. /\ refs[l] = Count(obj, l) + leaked[l] /\ leaked[l] \in Nat
          /\ leaked'[l] \in Nat
      BY <1>2 DEF Books, Balanced, Typed
    <2>3. Count(obj, l) \in Nat /\ Holds(obj[o], l) \in {0, 1}
      BY HoldersFinite DEF Holds, One
    <2> QED
      BY <1>2, <2>1, <2>2, <2>3
  <1>4. obj' \in Tables
    <2>1. obj[from] \in Descriptor
      BY <1>1 DEF Books, Typed, Tables, Constructed
    <2> QED
      BY <1>1, <2>1, EntryTypes DEF Books, Typed, Tables
  <1> QED
    BY <1>1, <1>2, <1>3, <1>4 DEF Books, Typed, Balanced

LEMMA BooksNext == Books /\ [Next]_vars => Books'
  <1> SUFFICES ASSUME Books, [Next]_vars PROVE Books'
    OBVIOUS
  <1>1. raw \in {"unused", "used"}
    BY DEF Books, Typed
  <1>2. CASE UNCHANGED vars
    BY <1>2 DEF vars, Books, Typed, Bounded, Balanced
  <1>3. CASE Next
    <2>1. PICK o \in Obj :
            \/ Construct(o) \/ Unload(o) \/ Destroy(o) \/ RawUnload(o) \/ SymbolNotFound(o)
            \/ \E p \in Path : Load(o, p) \/ RawLoad(o, p)
            \/ \E id \in {"null", "caller"}, p \in Path : ConstructLoaded(o, id, p)
            \/ \E from \in Obj : MoveConstruct(o, from) \/ MoveAssign(o, from)
      BY <1>3 DEF Next
    <2>2. CASE Construct(o)
      <3>1. Fresh("null") \in Descriptor /\ \A l \in Lib : Holds(Fresh("null"), l) = 0
        BY EntryTypes DEF Origin
      <3>2. \A l \in Lib : Holds(obj[o], l) = 0
        BY <2>2 DEF Construct, Constructed, Holds
      <3>3. ASSUME NEW l \in Lib
            PROVE  refs'[l] = refs[l] + Holds(Fresh("null"), l) - Holds(obj[o], l)
                                      + leaked'[l] - leaked[l]
        <4>1. leaked[l] \in Nat /\ refs[l] \in Int
          BY DEF Books, Typed
        <4> QED
          BY <2>2, <3>1, <3>2, <4>1 DEF Construct
      <3>4. /\ refs' \in [Lib -> Int] /\ leaked' \in [Lib -> Nat] /\ Bounded'
            /\ error' \in {"none", "load", "unload", "symbol"}
            /\ raw' \in {"unused", "used"}
        BY <2>2 DEF Construct, Books, Typed, Bounded
      <3>5. obj' = [obj EXCEPT ![o] = Fresh("null")]
        BY <2>2 DEF Construct
      <3> QED
        BY <3>1, <3>3, <3>4, <3>5, Rebalance
    <2>3. CASE Unload(o) \/ RawUnload(o)
      <3>1. Constructed(o) /\ raw' \in {"unused", "used"}
        BY <1>1, <2>3 DEF Unload, RawUnload
      <3>2. PICK loaded \in BOOLEAN : \/ dynamic_unload_refused(o)
                                      \/ dynamic_unload_succeeds(o, loaded)
                                      \/ dynamic_unload_fails(o)
        <4>1. obj[o] \in Descriptor
          BY <3>1, OwnHandle DEF SameHandle
        <4>2. obj[o].loaded \in BOOLEAN
          BY <4>1 DEF Descriptor
        <4> QED
          BY <2>3, <4>2, Zenon DEF Unload, RawUnload
      <3> QED
        BY <3>1, <3>2, UnloadStep
    <2>4. CASE Destroy(o)
      BY <2>4, DestroyStep
    <2>5. CASE SymbolNotFound(o)
      BY <2>5 DEF SymbolNotFound, Books, Typed, Bounded, Balanced
    <2>6. ASSUME NEW p \in Path, Load(o, p)
          PROVE  Books'
      BY <1>1, <2>6, OwnHandle, LoadIntoStep DEF Load
    <2>7. ASSUME NEW p \in Path, RawLoad(o, p)
          PROVE  Books'
      <3>1. Constructed(o) /\ raw' \in {"unused", "used"}
        BY <2>7 DEF RawLoad
      <3>2. SameHandle(o, obj[o])
        BY <3>1, OwnHandle
      <3>3. obj[o].loaded \in BOOLEAN
        BY <3>2 DEF SameHandle, Descriptor
      <3>4. CASE dynamic_load_succeeds(o, obj[o], p, obj[o].loaded)
        BY <3>1, <3>2, <3>3, <3>4, LoadSucceedsStep, Zenon
      <3>5. CASE dynamic_load_fails(o, obj[o], p)
        BY <3>1, <3>2, <3>5, LoadFailsStep, Zenon
      <3> QED
        BY <2>7, <3>4, <3>5, Zenon DEF RawLoad
    <2>8. ASSUME NEW id \in {"null", "caller"}, NEW p \in Path, ConstructLoaded(o, id, p)
          PROVE  Books'
      <3>1. SameHandle(o, Fresh(id))
        BY <2>8, DynamicAssumption
        DEF ConstructLoaded, Constructed, SameHandle, Holds, One, Fresh, Descriptor, Origin
      <3> QED
        BY <1>1, <2>8, <3>1, LoadIntoStep DEF ConstructLoaded
    <2>9. ASSUME NEW from \in Obj, MoveConstruct(o, from) \/ MoveAssign(o, from)
          PROVE  Books'
      BY <2>9, MoveStep
    <2> QED
      BY <2>1, <2>2, <2>3, <2>4, <2>5, <2>6, <2>7, <2>8, <2>9
  <1> QED
    BY <1>2, <1>3

LEMMA BooksAlways == Spec => []Books
  BY BooksInit, BooksNext, PTL DEF Spec

\* The variables keep their types: no count of the loader falls below zero.
THEOREM TypeCorrect == Spec => []TypeOK
  BY BooksAlways, BooksType, PTL

\* The loader's counts are those of the descriptors and of the leaked handles, for any
\* objects and libraries and any sequence of moves, failures and calls on raw().
THEOREM HandlesCorrect == Spec => []HandlesCounted
  <1>1. Books => HandlesCounted
    BY BooksHandles DEF Books
  <1> QED
    BY BooksAlways, <1>1, PTL

-----------------------------------------------------------------------------
\* While nobody uses raw(), the flag and the handle agree in every entry.
Agrees(d) == d = NULL \/ ((d.loaded <=> d.handle # NULL) /\ (d.loaded => d.status = 1))
AllAgree == raw = "unused" => \A o \in Obj : Agrees(obj[o])

LEMMA AgreeReplaced ==
  ASSUME Books, AllAgree, raw' = "unused" => raw = "unused", NEW o \in Obj, NEW e,
         obj' = [obj EXCEPT ![o] = e], Agrees(e)
  PROVE  AllAgree'
  BY DEF AllAgree, Books, Typed, Tables

LEMMA AgreeLoadInto ==
  ASSUME Books, AllAgree, NEW o \in Obj, NEW d \in Descriptor, Agrees(d), NEW p \in Path,
         LoadInto(o, d, p), UNCHANGED raw
  PROVE  AllAgree'
  <1>1. CASE obj' = [obj EXCEPT ![o] = d]
    BY <1>1, AgreeReplaced
  <1>2. CASE dynamic_load_fails(o, [d EXCEPT !.path = "caller"], p)
    <2>1. Agrees([d EXCEPT !.path = "caller"])
      BY EntryTypes DEF Agrees, Descriptor
    <2> QED
      BY <1>2, <2>1, AgreeReplaced DEF dynamic_load_fails
  <1>3. CASE dynamic_load_succeeds(o, [d EXCEPT !.path = "caller"], p, TRUE)
    <2> DEFINE e == [handle |-> p.lib, status |-> 1, id |-> "stack", path |-> "stack",
                     loaded |-> TRUE]
    <2>1. p.lib # NULL
      BY EntryTypes DEF Path
    <2>2. Agrees(e)
      BY <2>1 DEF Agrees
    <2>3. obj' = [obj EXCEPT ![o] = e]
      BY <1>3 DEF dynamic_load_succeeds
    <2> HIDE DEF e
    <2> QED
      BY <2>2, <2>3, AgreeReplaced
  <1> QED
    BY <1>1, <1>2, <1>3 DEF LoadInto

LEMMA AgreeUnload ==
  ASSUME Books, AllAgree, NEW o \in Obj, Unload(o)
  PROVE  AllAgree'
  <1>1. obj[o] \in Descriptor /\ UNCHANGED raw
    BY OwnHandle DEF Unload, SameHandle
  <1>2. CASE UNCHANGED obj
    BY <1>1, <1>2 DEF AllAgree
  <1>3. CASE dynamic_unload_succeeds(o, FALSE)
    <2> DEFINE e == [obj[o] EXCEPT !.handle = NULL, !.status = 0, !.loaded = FALSE]
    <2>1. Agrees(e)
      BY <1>1 DEF Agrees, Descriptor
    <2>2. obj' = [obj EXCEPT ![o] = e]
      BY <1>3 DEF dynamic_unload_succeeds
    <2> HIDE DEF e
    <2> QED
      BY <1>1, <2>1, <2>2, AgreeReplaced
  <1> QED
    BY <1>2, <1>3 DEF Unload, dynamic_unload_refused, dynamic_unload_fails

LEMMA AgreeMove ==
  ASSUME Books, AllAgree, NEW o \in Obj, NEW from \in Obj,
         MoveConstruct(o, from) \/ MoveAssign(o, from)
  PROVE  AllAgree'
  <1>1. /\ o # from /\ Constructed(from) /\ raw' = raw
        /\ obj' = [obj EXCEPT ![o] = obj[from], ![from] = Emptied(obj[from])]
    BY DEF MoveConstruct, MoveAssign
  <1>2. obj[from] \in Descriptor
    BY <1>1 DEF Books, Typed, Tables, Constructed
  <1>3. Agrees(Emptied(obj[from]))
    BY <1>2 DEF Agrees, Emptied, Descriptor
  <1>4. ASSUME NEW q \in Obj, raw = "unused" PROVE Agrees(obj'[q])
    <2>1. \A x \in Obj : Agrees(obj[x])
      BY <1>4 DEF AllAgree
    <2>2. obj'[q] = IF q = from THEN Emptied(obj[from])
                    ELSE IF q = o THEN obj[from] ELSE obj[q]
      BY <1>1 DEF Books, Typed, Tables
    <2> QED
      BY <1>3, <2>1, <2>2
  <1> QED
    BY <1>1, <1>4 DEF AllAgree, Agrees

LEMMA AgreeNext == Books /\ AllAgree /\ [Next]_vars => AllAgree'
  <1> SUFFICES ASSUME Books, AllAgree, [Next]_vars PROVE AllAgree'
    OBVIOUS
  <1>1. CASE UNCHANGED vars
    BY <1>1 DEF vars, AllAgree
  <1>2. CASE Next
    <2>1. PICK o \in Obj :
            \/ Construct(o) \/ Unload(o) \/ Destroy(o) \/ RawUnload(o) \/ SymbolNotFound(o)
            \/ \E p \in Path : Load(o, p) \/ RawLoad(o, p)
            \/ \E id \in {"null", "caller"}, p \in Path : ConstructLoaded(o, id, p)
            \/ \E from \in Obj : MoveConstruct(o, from) \/ MoveAssign(o, from)
      BY <1>2 DEF Next
    <2>2. \A id : Agrees(Fresh(id))
      BY DEF Agrees, Fresh
    <2>3. CASE Construct(o)
      BY <2>2, <2>3, AgreeReplaced DEF Construct
    <2>4. CASE Unload(o)
      BY <2>4, AgreeUnload
    <2>5. CASE Destroy(o)
      BY <2>5, AgreeReplaced DEF Destroy, Agrees
    <2>6. CASE RawUnload(o) \/ \E p \in Path : RawLoad(o, p)
      <3>1. raw' = "used"
        BY <2>6 DEF RawUnload, RawLoad
      <3> QED
        BY <3>1 DEF AllAgree
    <2>7. CASE SymbolNotFound(o)
      BY <2>7 DEF SymbolNotFound, AllAgree
    <2>8. ASSUME NEW p \in Path, Load(o, p)
          PROVE  AllAgree'
      <3>1. obj[o] \in Descriptor /\ LoadInto(o, obj[o], p) /\ UNCHANGED raw
        BY <2>8, OwnHandle DEF Load, SameHandle
      <3>2. CASE raw = "unused"
        <4>1. Agrees(obj[o])
          BY <3>2 DEF AllAgree
        <4> QED
          BY <3>1, <4>1, AgreeLoadInto
      <3>3. CASE raw # "unused"
        BY <3>1, <3>3 DEF AllAgree
      <3> QED
        BY <3>2, <3>3
    <2>9. ASSUME NEW id \in {"null", "caller"}, NEW p \in Path, ConstructLoaded(o, id, p)
          PROVE  AllAgree'
      <3>1. Fresh(id) \in Descriptor
        BY EntryTypes DEF Origin
      <3> QED
        BY <2>2, <2>9, <3>1, AgreeLoadInto DEF ConstructLoaded
    <2>10. ASSUME NEW from \in Obj, MoveConstruct(o, from) \/ MoveAssign(o, from)
           PROVE  AllAgree'
      BY <2>10, AgreeMove
    <2> QED
      BY <2>1, <2>3, <2>4, <2>5, <2>6, <2>7, <2>8, <2>9, <2>10
  <1> QED
    BY <1>1, <1>2

LEMMA AgreeAlways == Spec => [](Books /\ AllAgree)
  <1>1. Init => AllAgree
    BY DEF Init, AllAgree, Agrees
  <1> QED
    BY <1>1, AgreeNext, BooksAlways, PTL DEF Spec

\* An object that is not used behind its back says it is loaded exactly when it holds an
\* open handle, after any sequence of loads, moves and failed closes.
THEOREM LoadedCorrect == Spec => []LoadedIffHandle
  <1>1. AllAgree => LoadedIffHandle
    BY Zenon DEF AllAgree, Agrees, LoadedIffHandle, Constructed
  <1> QED
    BY <1>1, AgreeAlways, PTL

-----------------------------------------------------------------------------
Reported == leaked' # leaked => refs' = refs /\ error' = "unload"

LEMMA DisposeReports ==
  ASSUME NEW d \in Descriptor, Agrees(d), Dispose(d)
  PROVE  Reported
  <1>1. d.loaded <=> d.handle # NULL
    BY EntryTypes DEF Agrees
  <1> QED
    BY <1>1 DEF Dispose, Forgets, Reported

LEMMA LoadReports ==
  ASSUME NEW o \in Obj, NEW d \in Descriptor, Agrees(d), NEW p \in Path, LoadInto(o, d, p)
  PROVE  Reported
  <1>1. d.loaded <=> d.handle # NULL
    BY EntryTypes DEF Agrees
  <1> DEFINE e == [d EXCEPT !.path = "caller"]
  <1>2. e.handle = d.handle
    BY DEF Descriptor
  <1>3. CASE dynamic_load_succeeds(o, e, p, TRUE) /\ ~d.loaded
    <2>1. e.handle = NULL
      BY <1>1, <1>2, <1>3
    <2>2. Forgets(e.handle)
      BY <1>3 DEF dynamic_load_succeeds
    <2> QED
      BY <2>1, <2>2 DEF Forgets, Reported
  <1>4. CASE UNCHANGED leaked
    BY <1>4 DEF Reported
  <1> QED
    BY <1>3, <1>4 DEF LoadInto, dynamic_load_fails

LEMMA ReportedStep ==
  ASSUME Books, AllAgree, Next, raw' = "unused"
  PROVE  Reported
  <1>1. PICK o \in Obj :
          \/ Construct(o) \/ Unload(o) \/ Destroy(o) \/ RawUnload(o) \/ SymbolNotFound(o)
          \/ \E p \in Path : Load(o, p) \/ RawLoad(o, p)
          \/ \E id \in {"null", "caller"}, p \in Path : ConstructLoaded(o, id, p)
          \/ \E from \in Obj : MoveConstruct(o, from) \/ MoveAssign(o, from)
    BY DEF Next
  <1>2. CASE Construct(o) \/ Unload(o) \/ SymbolNotFound(o)
             \/ \E from \in Obj : MoveConstruct(o, from)
    <2>1. UNCHANGED leaked
      BY <1>2 DEF Construct, Unload, SymbolNotFound, MoveConstruct, dynamic_unload_refused,
                  dynamic_unload_succeeds, dynamic_unload_fails
    <2> QED
      BY <2>1 DEF Reported
  <1>3. CASE RawUnload(o) \/ \E p \in Path : RawLoad(o, p)
    BY <1>3 DEF RawUnload, RawLoad
  <1>4. CASE Destroy(o) \/ \E from \in Obj : MoveAssign(o, from)
    <2>1. Constructed(o) /\ Dispose(obj[o]) /\ raw = "unused"
      BY <1>4 DEF Destroy, MoveAssign
    <2>2. obj[o] \in Descriptor /\ Agrees(obj[o])
      BY <2>1, OwnHandle DEF SameHandle, AllAgree
    <2> QED
      BY <2>1, <2>2, DisposeReports
  <1>5. ASSUME NEW p \in Path, Load(o, p)
        PROVE  Reported
    <2>1. Constructed(o) /\ LoadInto(o, obj[o], p) /\ raw = "unused"
      BY <1>5 DEF Load
    <2>2. obj[o] \in Descriptor /\ Agrees(obj[o])
      BY <2>1, OwnHandle DEF SameHandle, AllAgree
    <2> QED
      BY <2>1, <2>2, LoadReports
  <1>6. ASSUME NEW id \in {"null", "caller"}, NEW p \in Path, ConstructLoaded(o, id, p)
        PROVE  Reported
    <2>1. Fresh(id) \in Descriptor /\ Agrees(Fresh(id))
      BY EntryTypes DEF Origin, Agrees, Fresh
    <2> QED
      BY <1>6, <2>1, LoadReports DEF ConstructLoaded
  <1> QED
    BY <1>1, <1>2, <1>3, <1>4, <1>5, <1>6

\* While nobody uses raw(), a library is lost only in a step whose dlclose failed, and the
\* error buffer says so.
THEOREM LeakCorrect == Spec => LeakReported
  <1>1. Books /\ AllAgree /\ [Next]_vars =>
          [raw' = "unused" /\ leaked' # leaked => refs' = refs /\ error' = "unload"]_vars
    BY ReportedStep DEF Reported
  <1> QED
    BY <1>1, AgreeAlways, PTL DEF Spec, LeakReported
=============================================================================

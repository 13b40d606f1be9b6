------------------------------ MODULE EnvProofs ------------------------------
(***************************************************************************)
(* Proofs about env.c.  Env: for any keys and values the two tables agree  *)
(* on every identifier but the six that cannot be set.  EnvForeach: a      *)
(* callback that replaces and unsets variables while the array is walked   *)
(* sees none twice, and misses at most one for each that it unsets,        *)
(* whatever the environment and its size.                                  *)
(***************************************************************************)
EXTENDS Env, EnvForeach, FiniteSetTheorems, SequenceTheorems, TLAPS

-----------------------------------------------------------------------------
(* Env *)

LEMMA TypeInit == Init => TypeOK
  BY DEF Init, TypeOK, Failed

LEMMA TypeNext == TypeOK /\ [Next]_vars => TypeOK'
  <1> SUFFICES ASSUME TypeOK, [Next]_vars PROVE TypeOK'
    OBVIOUS
  <1>1. CASE SetFails
    BY <1>1 DEF SetFails, Failed, TypeOK
  <1>2. ASSUME NEW key \in Key, NEW value \in Value \cup {NULL},
               fossil_sys_env_set(key, value)
        PROVE  TypeOK'
    BY <1>2 DEF fossil_sys_env_set, TypeOK
  <1>3. CASE UNCHANGED vars
    BY <1>3 DEF vars, TypeOK
  <1> QED
    BY <1>1, <1>2, <1>3 DEF Next

LEMMA TypeCorrect == Spec => []TypeOK
  BY TypeInit, TypeNext, PTL DEF Spec

\* The only rows get's table has over set's are those of user.id and temp.dir.
LEMMA TablesAgree ==
  ASSUME NEW key \in Key \ OneWay
  PROVE  SetVar[key] = GetVar[key]
  <1>1. GetTable = SetTable \cup {<<"fossil.temp.dir", "TMPDIR">>,
                                  <<"fossil.user.id", "UID">>}
    BY Zenon DEF GetTable, SetTable
  <1>2. ASSUME NEW row \in GetTable, row[1] = key
        PROVE  row \in SetTable
    <2>1. key # "fossil.temp.dir" /\ key # "fossil.user.id"
      BY DEF OneWay
    <2>2. row # <<"fossil.temp.dir", "TMPDIR">> /\ row # <<"fossil.user.id", "UID">>
      BY <1>2, <2>1
    <2> QED
      BY <1>1, <1>2, <2>2, Zenon
  <1>3. SetTable \subseteq GetTable
    BY <1>1, Zenon
  <1>4. Rows(SetTable, key) = Rows(GetTable, key)
    BY <1>2, <1>3, Zenon DEF Rows
  <1> QED
    BY <1>4 DEF GetVar, SetVar, Vars

\* A successful set leaves behind what get is to return.
LEMMA RoundTripSet ==
  ASSUME TypeOK, NEW key \in Key, NEW value \in Value \cup {NULL},
         fossil_sys_env_set(key, value)
  PROVE  RoundTrip'
  <1>1. last' = [key |-> key, value |-> value]
    BY DEF fossil_sys_env_set
  <1> SUFFICES ASSUME key \in Key \ OneWay
               PROVE  fossil_sys_env_get(key)' =
                        IF value = NULL /\ key = "fossil.sys.tmp" THEN TmpPath ELSE value
    BY <1>1 DEF RoundTrip
  <1> DEFINE var == SetVar[key]
  <1>2. var \in Name /\ var = GetVar[key]
    BY TablesAgree, Zenon DEF Name
  <1>3. env'[var] = value
    BY <1>2 DEF fossil_sys_env_set, TypeOK
  <1>4. key \notin Platform /\ key # "fossil.temp.dir"
    BY DEF OneWay
  <1>5. CASE key = "fossil.sys.tmp"
    <2>1. ASSUME NEW row \in Rows(SetTable, key)
          PROVE  row[2] = "TMPDIR"
      BY <1>5, <2>1 DEF Rows, SetTable
    <2>2. <<"fossil.sys.tmp", "TMPDIR">> \in Rows(SetTable, key)
      BY <1>5 DEF Rows, SetTable
    <2>3. (CHOOSE row \in Rows(SetTable, key) : TRUE) \in Rows(SetTable, key)
      BY <2>2, Zenon
    <2>4. var = (CHOOSE row \in Rows(SetTable, key) : TRUE)[2]
      BY <2>2, Zenon DEF SetVar, Vars
    <2>5. var = "TMPDIR"
      BY <2>1, <2>3, <2>4, Zenon
    <2> QED
      BY <1>2, <1>3, <1>4, <1>5, <2>5 DEF fossil_sys_env_get, fossil_sys_env_resolve_id
  <1>6. CASE key # "fossil.sys.tmp"
    BY <1>2, <1>3, <1>4, <1>6 DEF fossil_sys_env_get, fossil_sys_env_resolve_id
  <1> QED
    BY <1>5, <1>6

\* What is set is read back through the same key, whichever keys and values are in use.
THEOREM RoundTripCorrect == Spec => []RoundTrip
  <1>1. Init => RoundTrip
    BY EnvAssumption DEF Init, Failed, RoundTrip
  <1>2. TypeOK /\ RoundTrip /\ [Next]_vars => RoundTrip'
    <2> SUFFICES ASSUME TypeOK, RoundTrip, [Next]_vars PROVE RoundTrip'
      OBVIOUS
    <2>1. CASE SetFails
      BY <2>1, EnvAssumption DEF SetFails, Failed, RoundTrip
    <2>2. CASE UNCHANGED vars
      BY <2>2 DEF vars, RoundTrip, fossil_sys_env_get, fossil_sys_env_resolve_id
    <2> QED
      BY <2>1, <2>2, RoundTripSet DEF Next
  <1> QED
    BY <1>1, <1>2, TypeCorrect, PTL DEF Spec

\* Whatever variable set writes to, only its own identifier reads it, and its aliases.
LEMMA WritesOwn ==
  ASSUME NEW key \in Key, NEW other \in Key, GetVar[other] = SetVar[key]
  PROVE  GetVar[other] = GetVar[key]
  <1>1. CASE key \notin OneWay
    BY <1>1, TablesAgree
  <1>2. CASE key \in OneWay
    <2>1. \A row \in SetTable : row[1] # key
      BY <1>2 DEF OneWay, Platform, SetTable
    <2>2. Rows(SetTable, key) = {}
      BY <2>1 DEF Rows
    <2>3. SetVar[key] = key
      BY <2>2, Zenon DEF SetVar, Vars
    <2>4. \A row \in GetTable : row[2] # key
      BY <1>2 DEF OneWay, Platform, GetTable
    <2>5. CASE Rows(GetTable, other) = {}
      <3>1. GetVar[other] = other
        BY <2>5, Zenon DEF GetVar, Vars
      <3> QED
        BY <2>3, <3>1
    <2>6. CASE Rows(GetTable, other) # {}
      <3>1. GetVar[other] = (CHOOSE row \in Rows(GetTable, other) : TRUE)[2]
        BY <2>6, Zenon DEF GetVar, Vars
      <3>2. (CHOOSE row \in Rows(GetTable, other) : TRUE) \in GetTable
        BY <2>6, Zenon DEF Rows
      <3> QED
        BY <2>3, <2>4, <3>1, <3>2, Zenon
    <2> QED
      BY <2>5, <2>6
  <1> QED
    BY <1>1, <1>2

\* /tmp stands in only where the variable read is TMPDIR.
LEMMA TmpVar ==
  ASSUME NEW other \in Key, other \in {"fossil.sys.tmp", "fossil.temp.dir"}
  PROVE  GetVar[other] = "TMPDIR"
  <1>1. \A row \in Rows(GetTable, other) : row[2] = "TMPDIR"
    BY DEF Rows, GetTable
  <1>2. Rows(GetTable, other) # {}
    <2>1. <<other, "TMPDIR">> \in GetTable /\ <<other, "TMPDIR">>[1] = other
      BY DEF GetTable
    <2> QED
      BY <2>1, Zenon DEF Rows
  <1>3. (CHOOSE row \in Rows(GetTable, other) : TRUE) \in Rows(GetTable, other)
    BY <1>2, Zenon
  <1>4. GetVar[other] = (CHOOSE row \in Rows(GetTable, other) : TRUE)[2]
    BY <1>2, Zenon DEF GetVar, Vars
  <1> QED
    BY <1>1, <1>3, <1>4, Zenon

LEMMA OthersKept ==
  ASSUME TypeOK, NEW key \in Key, NEW value \in Value \cup {NULL}, NEW other \in Key,
         fossil_sys_env_set(key, value), GetVar[other] # GetVar[key]
  PROVE  fossil_sys_env_get(other)' = fossil_sys_env_get(other)
  <1>1. GetVar[other] # SetVar[key]
    BY WritesOwn
  <1>2. GetVar[other] \in Name
    BY Zenon DEF Name
  <1>3. env'[GetVar[other]] = env[GetVar[other]]
    BY <1>1, <1>2 DEF fossil_sys_env_set, TypeOK
  <1>4. CASE other \in {"fossil.sys.tmp", "fossil.temp.dir"}
    <2>1. env'["TMPDIR"] = env["TMPDIR"]
      BY <1>3, <1>4, TmpVar
    <2> QED
      BY <1>3, <2>1 DEF fossil_sys_env_get, fossil_sys_env_resolve_id
  <1>5. CASE other \notin {"fossil.sys.tmp", "fossil.temp.dir"}
    BY <1>3, <1>5 DEF fossil_sys_env_get, fossil_sys_env_resolve_id
  <1> QED
    BY <1>4, <1>5

\* Setting an identifier changes what no other reads as, but for those that stand for the
\* same variable, whichever keys and values are in use.
THEOREM NoInterferenceCorrect == Spec => NoInterference
  <1>1. TypeOK /\ [Next]_vars =>
          [\A other \in Key :
             \/ fossil_sys_env_get(other)' = fossil_sys_env_get(other)
             \/ last'.key \in Key /\ GetVar[other] = GetVar[last'.key]]_vars
    <2> SUFFICES ASSUME TypeOK, [Next]_vars, NEW other \in Key, vars' # vars
                 PROVE  \/ fossil_sys_env_get(other)' = fossil_sys_env_get(other)
                        \/ last'.key \in Key /\ GetVar[other] = GetVar[last'.key]
      BY Zenon
    <2>1. CASE SetFails
      BY <2>1 DEF SetFails, fossil_sys_env_get, fossil_sys_env_resolve_id
    <2>2. ASSUME NEW key \in Key, NEW value \in Value \cup {NULL},
                 fossil_sys_env_set(key, value)
          PROVE  \/ fossil_sys_env_get(other)' = fossil_sys_env_get(other)
                 \/ last'.key \in Key /\ GetVar[other] = GetVar[last'.key]
      <3>1. last'.key = key
        BY <2>2 DEF fossil_sys_env_set
      <3> QED
        BY <2>2, <3>1, OthersKept, Zenon
    <2> QED
      BY <2>1, <2>2, Zenon DEF Next
  <1> QED
    BY <1>1, TypeCorrect, PTL DEF Spec, NoInterference
-----------------------------------------------------------------------------
(* EnvForeach *)

\* The entries from position i on hold no variable the callback was given.
Fresh(s, i, called) ==
  \A j \in DOMAIN s, c \in DOMAIN called : j >= i => s[j].name # called[c].name

ForeachInv == /\ ForeachTypeOK
              /\ NoDuplicates(environ) /\ NoneTwice
              /\ e > 0 => Fresh(environ, e, calls)

LEMMA ForeachInvInit == ForeachInit => ForeachInv
  <1> SUFFICES ASSUME ForeachInit PROVE ForeachInv
    OBVIOUS
  <1>1. environ \in Seq(Entries) /\ NoDuplicates(environ)
    BY ForeachAssumption DEF ForeachInit, BoundedSeq, SeqOf
  <1> QED
    BY <1>1 DEF ForeachInit, ForeachInv, ForeachTypeOK, NoneTwice, NoDuplicates
-----------------------------------------------------------------------------
\* What is left when an entry has been taken out.
LEMMA RemoveAtProperties ==
  ASSUME NEW S, NEW s \in Seq(S), NEW k \in 1 .. Len(s)
  PROVE  /\ RemoveAt(s, k) \in Seq(S)
         /\ Len(RemoveAt(s, k)) = Len(s) - 1
         /\ \A i \in 1 .. Len(s) - 1 : RemoveAt(s, k)[i] = IF i < k THEN s[i] ELSE s[i + 1]
  <1> DEFINE a == SubSeq(s, 1, k - 1)
             b == SubSeq(s, k + 1, Len(s))
  <1>1. Len(s) \in Nat /\ \A i \in 1 .. Len(s) : s[i] \in S
    OBVIOUS
  <1>2. a \in Seq(S) /\ Len(a) = k - 1 /\ \A i \in 1 .. k - 1 : a[i] = s[i]
    <2>1. k - 1 \in Int /\ 1 \in Int /\ \A i \in 1 .. k - 1 : s[i] \in S
      BY <1>1
    <2>2. /\ a \in Seq(S)
          /\ Len(a) = IF 1 <= k - 1 THEN k - 1 - 1 + 1 ELSE 0
          /\ \A i \in 1 .. k - 1 - 1 + 1 : a[i] = s[1 + i - 1]
      BY <2>1, SubSeqProperties
    <2> QED
      BY <2>2
  <1>3. /\ b \in Seq(S) /\ Len(b) = Len(s) - k
        /\ \A i \in 1 .. Len(s) - k : b[i] = s[k + i]
    <2>1. k + 1 \in Int /\ Len(s) \in Int /\ \A i \in k + 1 .. Len(s) : s[i] \in S
      BY <1>1
    <2>2. /\ b \in Seq(S)
          /\ Len(b) = IF k + 1 <= Len(s) THEN Len(s) - (k + 1) + 1 ELSE 0
          /\ \A i \in 1 .. Len(s) - (k + 1) + 1 : b[i] = s[k + 1 + i - 1]
      BY <2>1, SubSeqProperties
    <2> QED
      BY <1>1, <2>2
  <1>4. RemoveAt(s, k) = a \o b
    BY DEF RemoveAt
  <1> HIDE DEF a, b
  <1>5. /\ a \o b \in Seq(S) /\ Len(a \o b) = Len(a) + Len(b)
        /\ \A i \in 1 .. Len(a) + Len(b) :
             (a \o b)[i] = IF i <= Len(a) THEN a[i] ELSE b[i - Len(a)]
    BY <1>2, <1>3, ConcatProperties
  <1>6. ASSUME NEW i \in 1 .. Len(s) - 1
        PROVE  (a \o b)[i] = IF i < k THEN s[i] ELSE s[i + 1]
    <2>1. (a \o b)[i] = IF i <= k - 1 THEN a[i] ELSE b[i - (k - 1)]
      BY <1>1, <1>2, <1>3, <1>5
    <2>2. CASE i < k
      BY <1>2, <2>1, <2>2
    <2>3. CASE ~(i < k)
      <3>1. i - (k - 1) \in 1 .. Len(s) - k /\ k + (i - (k - 1)) = i + 1
        BY <1>1, <2>3
      <3> QED
        BY <1>3, <2>1, <2>3, <3>1
    <2> QED
      BY <2>2, <2>3
  <1> QED
    BY <1>1, <1>2, <1>3, <1>4, <1>5, <1>6

\* The callback's call of set leaves behind position i only what was behind it.
LEMMA EffectKeeps ==
  ASSUME ForeachTypeOK, NoDuplicates(environ), Effect
  PROVE  /\ environ' \in Seq(Entries) /\ NoDuplicates(environ')
         /\ \A i \in Nat : \A c : Fresh(environ, i, c) => Fresh(environ', i, c)
         /\ stayed' \subseteq EntryName /\ unset' \subseteq EntryName
  <1>0. /\ environ \in Seq(Entries) /\ Len(environ) \in Nat
        /\ DOMAIN environ = 1 .. Len(environ)
        /\ \A i \in DOMAIN environ : environ[i] \in Entries
    BY DEF ForeachTypeOK
  <1>1. CASE UNCHANGED <<environ, stayed, unset>>
    BY <1>0, <1>1 DEF ForeachTypeOK
  <1>2. ASSUME NEW n \in Names(environ), NEW v \in EntryValue, Replace(n, v)
        PROVE  /\ environ' \in Seq(Entries) /\ DOMAIN environ' = DOMAIN environ
               /\ \A i \in DOMAIN environ : environ'[i].name = environ[i].name
    <2>1. environ' = [i \in DOMAIN environ |->
                        IF environ[i].name = n THEN [environ[i] EXCEPT !.value = v]
                                               ELSE environ[i]]
      BY <1>2 DEF Replace
    <2>2. \A i \in DOMAIN environ : /\ environ'[i] \in Entries
                                    /\ environ'[i].name = environ[i].name
      BY <1>0, <2>1 DEF Entries
    <2>3. environ' \in [1 .. Len(environ) -> Entries]
      BY <1>0, <2>1, <2>2
    <2> QED
      BY <1>0, <2>1, <2>2, <2>3
  <1>3. ASSUME NEW n \in Names(environ), NEW k \in DOMAIN environ,
               environ' = RemoveAt(environ, k)
        PROVE  /\ environ' \in Seq(Entries)
               /\ DOMAIN environ' = 1 .. Len(environ) - 1
               /\ \A i \in DOMAIN environ' :
                    environ'[i] = environ[IF i < k THEN i ELSE i + 1]
    BY <1>0, <1>3, RemoveAtProperties
  <1>4. ASSUME NEW n \in Names(environ), NEW v \in EntryValue, Replace(n, v)
        PROVE  /\ environ' \in Seq(Entries) /\ NoDuplicates(environ')
               /\ \A i \in Nat : \A c : Fresh(environ, i, c) => Fresh(environ', i, c)
               /\ stayed' \subseteq EntryName /\ unset' \subseteq EntryName
    <2>1. UNCHANGED <<stayed, unset>>
      BY <1>4 DEF Replace
    <2> QED
      BY <1>2, <1>4, <2>1 DEF ForeachTypeOK, NoDuplicates, Fresh
  <1>5. ASSUME NEW n \in Names(environ), Unset(n)
        PROVE  /\ environ' \in Seq(Entries) /\ NoDuplicates(environ')
               /\ \A i \in Nat : \A c : Fresh(environ, i, c) => Fresh(environ', i, c)
               /\ stayed' \subseteq EntryName /\ unset' \subseteq EntryName
    <2>1. PICK k \in DOMAIN environ : environ' = RemoveAt(environ, k)
      BY <1>5 DEF Unset
    <2>2. stayed' \subseteq EntryName /\ unset' \subseteq EntryName
      <3>1. n \in EntryName
        BY <1>0 DEF Names, Entries
      <3> QED
        BY <1>5, <3>1 DEF Unset, ForeachTypeOK
    <2> DEFINE old(i) == IF i < k THEN i ELSE i + 1
    <2>3. \A i \in DOMAIN environ' : /\ old(i) \in DOMAIN environ /\ old(i) >= i
                                     /\ environ'[i] = environ[old(i)] /\ i \in Nat
      BY <1>0, <1>3, <2>1
    <2>4. \A i, j \in DOMAIN environ' : old(i) = old(j) => i = j
      BY <1>0, <1>3, <2>1
    <2> HIDE DEF old
    <2>5. NoDuplicates(environ')
      BY <2>3, <2>4 DEF NoDuplicates
    <2>6. ASSUME NEW i \in Nat, NEW c, Fresh(environ, i, c)
          PROVE  Fresh(environ', i, c)
      <3> SUFFICES ASSUME NEW j \in DOMAIN environ', NEW d \in DOMAIN c, j >= i
                   PROVE  environ'[j].name # c[d].name
        BY DEF Fresh
      <3>1. old(j) \in DOMAIN environ /\ old(j) >= i /\ environ'[j] = environ[old(j)]
        <4>1. old(j) \in Nat /\ j \in Nat
          BY <1>0, <2>3
        <4> QED
          BY <2>3, <4>1
      <3> QED
        BY <2>6, <3>1 DEF Fresh
    <2> QED
      BY <1>3, <2>1, <2>2, <2>5, <2>6
  <1> QED
    BY <1>1, <1>4, <1>5 DEF Effect
-----------------------------------------------------------------------------
\* The entry at e joins the calls, and nothing from e + 1 on has its name.
LEMMA VisitKeeps == ForeachInv /\ Visit => ForeachInv'
  <1> SUFFICES ASSUME ForeachInv, Visit PROVE ForeachInv'
    OBVIOUS
  <1> DEFINE entry == environ[e]
  <1>0. /\ ForeachTypeOK /\ NoDuplicates(environ) /\ e \in 1 .. Len(environ) /\ e \in Nat
        /\ DOMAIN environ = 1 .. Len(environ) /\ entry \in Entries /\ Effect
        /\ entry.name # NO_NAME /\ entry.name \in EntryName \ LongName /\ entry.value \in EntryValue
        /\ Fresh(environ, e, calls) /\ NoDuplicates(calls)
    <2>1. /\ environ \in Seq(Entries) /\ e \in 1 .. Len(environ) /\ e \in Nat /\ e > 0
          /\ DOMAIN environ = 1 .. Len(environ) /\ Effect /\ Callable(entry)
      BY DEF ForeachInv, ForeachTypeOK, Visit, There
    <2>2. entry \in Entries
      BY <2>1
    <2> HIDE DEF entry
    <2>3. entry.name # NO_NAME /\ entry.name \in EntryName \ LongName /\ entry.value \in EntryValue
      BY <2>1, <2>2 DEF Callable, Entries
    <2> QED
      BY <2>1, <2>2, <2>3 DEF ForeachInv, NoneTwice
  <1>1. /\ environ' \in Seq(Entries) /\ NoDuplicates(environ')
        /\ \A i \in Nat : \A c : Fresh(environ, i, c) => Fresh(environ', i, c)
        /\ stayed' \subseteq EntryName /\ unset' \subseteq EntryName
    BY <1>0, EffectKeeps
  <1>2. entry \in [name : EntryName \ LongName, value : EntryValue]
    BY <1>0 DEF Entries
  <1>3. /\ calls' = Append(calls, entry)
        /\ calls' \in Seq([name : EntryName \ LongName, value : EntryValue])
        /\ DOMAIN calls' = DOMAIN calls \cup {Len(calls) + 1}
        /\ Len(calls) + 1 \notin DOMAIN calls
        /\ \A c \in DOMAIN calls : calls'[c] = calls[c]
        /\ calls'[Len(calls) + 1] = entry
    BY <1>2 DEF Visit, ForeachInv, ForeachTypeOK
  <1> HIDE DEF entry
  <1>4. NoDuplicates(calls')
    <2>1. \A c \in DOMAIN calls : calls[c].name # entry.name
      BY <1>0 DEF Fresh, entry
    <2> QED
      BY <1>0, <1>3, <2>1 DEF NoDuplicates
  <1>5. Fresh(environ, e + 1, calls')
    <2> SUFFICES ASSUME NEW j \in DOMAIN environ, NEW c \in DOMAIN calls', j >= e + 1
                 PROVE  environ[j].name # calls'[c].name
      BY DEF Fresh
    <2>1. j \in Nat /\ j >= e /\ j # e
      BY <1>0
    <2>2. CASE c \in DOMAIN calls
      BY <1>0, <1>3, <2>1, <2>2 DEF Fresh
    <2>3. CASE c = Len(calls) + 1
      <3>1. environ[j].name # entry.name
        BY <1>0, <2>1 DEF NoDuplicates, entry
      <3> QED
        BY <1>3, <2>3, <3>1
    <2> QED
      BY <1>3, <2>2, <2>3
  <1>6. Fresh(environ', e + 1, calls')
    BY <1>0, <1>1, <1>5
  <1>7. e' \in {0, e + 1} /\ e' \in Nat /\ ended' \in {"none", "stopped", "complete"}
    BY <1>0 DEF Visit, ForeachTypeOK
  <1> QED
    BY <1>0, <1>1, <1>3, <1>4, <1>6, <1>7 DEF ForeachInv, ForeachTypeOK, NoneTwice

LEMMA ForeachInvNext == ForeachInv /\ [ForeachNext]_foreachVars => ForeachInv'
  <1> SUFFICES ASSUME ForeachInv, [ForeachNext]_foreachVars PROVE ForeachInv'
    OBVIOUS
  <1>1. CASE Begin
    <2>1. Names(environ) \subseteq EntryName
      <3>1. \A i \in DOMAIN environ : environ[i] \in Entries
        BY DEF ForeachInv, ForeachTypeOK
      <3>2. \A i \in DOMAIN environ : environ[i].name \in EntryName \cup {NO_NAME}
        BY <3>1 DEF Entries
      <3> QED
        BY <3>2 DEF Names
    <2>2. NoDuplicates(calls') /\ Fresh(environ, 1, calls')
      BY <1>1 DEF Begin, NoDuplicates, Fresh
    <2> QED
      BY <1>1, <2>1, <2>2 DEF Begin, ForeachInv, ForeachTypeOK, NoneTwice
  <1>2. CASE Skip
    <2>1. Fresh(environ, e, calls) => Fresh(environ, e + 1, calls)
      BY DEF Fresh, ForeachInv, ForeachTypeOK
    <2> QED
      BY <1>2, <2>1 DEF Skip, There, ForeachInv, ForeachTypeOK, NoneTwice
  <1>3. CASE Visit
    BY <1>3, VisitKeeps
  <1>4. CASE Complete
    BY <1>4 DEF Complete, ForeachInv, ForeachTypeOK, NoneTwice
  <1>5. CASE UNCHANGED foreachVars
    BY <1>5 DEF foreachVars, ForeachInv, ForeachTypeOK, NoneTwice
  <1> QED
    BY <1>1, <1>2, <1>3, <1>4, <1>5 DEF ForeachNext, fossil_sys_env_foreach

\* Whatever the callback replaces and unsets, it is given no variable twice.
THEOREM NoneTwiceCorrect == ForeachSpec => []NoneTwice
  <1>1. ForeachInv => NoneTwice
    BY DEF ForeachInv
  <1> QED
    BY <1>1, ForeachInvInit, ForeachInvNext, PTL DEF ForeachSpec
-----------------------------------------------------------------------------
(* How many it misses *)

\* The variables that stayed and can no longer be given to the callback.
Ahead(s, i) == {s[j].name : j \in {k \in DOMAIN s : k >= i}}
Lost == stayed \ (LongName \cup Names(calls) \cup Ahead(environ, e))

\* No variable that was unset comes back, and each has cost one other at most.
Counted == /\ unset \cap Names(environ) = {}
           /\ IsFiniteSet(unset) /\ IsFiniteSet(Lost)
           /\ Cardinality(Lost) <= Cardinality(unset)

CountInv == e > 0 => Counted /\ ended = "none"

LEMMA FewerLost ==
  ASSUME NEW A, NEW B, IsFiniteSet(B), A \subseteq B
  PROVE  IsFiniteSet(A) /\ Cardinality(A) <= Cardinality(B)
  BY FS_Subset

LEMMA BeginCounts ==
  ASSUME ForeachInv, Begin
  PROVE  Counted'
  <1>1. stayed' = Names(environ) /\ unset' = {} /\ environ' = environ /\ e' = 1
    BY DEF Begin
  <1>2. Names(environ) \subseteq Ahead(environ, 1)
    BY DEF Names, Ahead, ForeachInv, ForeachTypeOK
  <1>3. Lost' = {}
    BY <1>1, <1>2 DEF Lost, Names, Ahead
  <1> QED
    BY <1>1, <1>3, FS_EmptySet DEF Counted

LEMMA SkipCounts ==
  ASSUME ForeachInv, Counted, Skip
  PROVE  Counted'
  <1>1. e' = e + 1 /\ UNCHANGED <<environ, calls, stayed, unset>> /\ e \in DOMAIN environ /\ e \in Nat
    BY DEF Skip, There, ForeachInv, ForeachTypeOK
  <1>2. environ[e].name \in LongName \cup {NO_NAME} /\ NO_NAME \notin stayed
    BY ForeachAssumption DEF Skip, Callable, ForeachInv, ForeachTypeOK
  <1>3. Ahead(environ, e) \subseteq Ahead(environ, e + 1) \cup {environ[e].name}
    BY <1>1 DEF Ahead, ForeachInv, ForeachTypeOK
  <1>4. Lost' \subseteq Lost
    <2>1. Lost' = stayed \ (LongName \cup Names(calls) \cup Ahead(environ, e + 1))
      BY <1>1 DEF Lost, Names, Ahead
    <2> QED
      BY <2>1, <1>2, <1>3 DEF Lost
  <1>5. IsFiniteSet(Lost') /\ Cardinality(Lost') <= Cardinality(Lost)
    BY <1>4, FewerLost DEF Counted
  <1>6. Cardinality(Lost') \in Nat /\ Cardinality(Lost) \in Nat /\ Cardinality(unset) \in Nat
    BY <1>5, FS_CardinalityType DEF Counted
  <1> QED
    BY <1>1, <1>5, <1>6 DEF Counted, Names

LEMMA VisitCounts ==
  ASSUME ForeachInv, Counted, Visit, e' = e + 1
  PROVE  Counted'
  <1> DEFINE entry == environ[e]
             z == environ[e + 1].name
  <1>1. /\ environ \in Seq(Entries) /\ e \in DOMAIN environ /\ e \in Nat /\ Effect
        /\ DOMAIN environ = 1 .. Len(environ) /\ Len(environ) \in Nat
        /\ calls' = Append(calls, entry) /\ calls \in Seq([name : EntryName \ LongName, value : EntryValue])
        /\ entry.name # NO_NAME
    BY DEF ForeachInv, ForeachTypeOK, Visit, There, Callable
  <1>2. Names(calls) \subseteq Names(calls') /\ entry.name \in Names(calls')
    BY <1>1 DEF Names
  <1>3. Lost' = stayed' \ (LongName \cup Names(calls') \cup Ahead(environ', e + 1))
    BY DEF Lost, Names, Ahead
  <1>4. CASE /\ UNCHANGED <<stayed, unset>> /\ DOMAIN environ' = DOMAIN environ
             /\ \A i \in DOMAIN environ : environ'[i].name = environ[i].name
    <2>1. Ahead(environ, e) \subseteq Ahead(environ', e + 1) \cup {entry.name}
      BY <1>1, <1>4 DEF Ahead
    <2>2. Lost' \subseteq Lost
      BY <1>2, <1>3, <1>4, <2>1 DEF Lost
    <2>3. Names(environ') = Names(environ)
      BY <1>4 DEF Names
    <2>4. IsFiniteSet(Lost') /\ Cardinality(Lost') <= Cardinality(Lost)
      BY <2>2, FewerLost DEF Counted
    <2>5. Cardinality(Lost') \in Nat /\ Cardinality(Lost) \in Nat /\ Cardinality(unset) \in Nat
      BY <2>4, FS_CardinalityType DEF Counted
    <2> QED
      BY <1>4, <2>3, <2>4, <2>5 DEF Counted
  <1>5. ASSUME NEW n \in Names(environ), Unset(n)
        PROVE  Counted'
    <2>1. PICK k \in DOMAIN environ : environ[k].name = n /\ environ' = RemoveAt(environ, k)
      BY <1>5 DEF Unset
    <2>2. stayed' = stayed \ {n} /\ unset' = unset \cup {n}
      BY <1>5 DEF Unset
    <2>3. /\ DOMAIN environ' = 1 .. Len(environ) - 1
          /\ \A i \in DOMAIN environ' : environ'[i] = environ[IF i < k THEN i ELSE i + 1]
      <3> DEFINE r == RemoveAt(environ, k)
      <3>1. k \in 1 .. Len(environ)
        BY <1>1
      <3>2. /\ r \in Seq(Entries) /\ Len(r) = Len(environ) - 1
            /\ \A i \in 1 .. Len(environ) - 1 : r[i] = IF i < k THEN environ[i] ELSE environ[i + 1]
        BY <1>1, <3>1, RemoveAtProperties
      <3>3. environ' = r
        BY <2>1
      <3> HIDE DEF r
      <3>4. DOMAIN r = 1 .. Len(environ) - 1
        BY <1>1, <3>2
      <3> QED
        BY <3>2, <3>3, <3>4
    <2>4. ASSUME NEW j \in DOMAIN environ, j >= e, j # e, j # e + 1, j # k
          PROVE  environ[j].name \in Ahead(environ', e + 1)
      <3>1. j \in Nat /\ k \in Nat /\ j >= e + 2
        BY <1>1, <2>4
      <3>2. CASE j < k
        <4>1. j \in DOMAIN environ' /\ environ'[j] = environ[j]
          BY <1>1, <2>3, <3>1, <3>2
        <4> QED
          BY <1>1, <3>1, <4>1 DEF Ahead
      <3>3. CASE j > k
        <4>1. j - 1 \in DOMAIN environ' /\ environ'[j - 1] = environ[j] /\ j - 1 >= e + 1
          BY <1>1, <2>3, <3>1, <3>3
        <4> QED
          BY <4>1 DEF Ahead
      <3> QED
        BY <2>4, <3>1, <3>2, <3>3
    <2>5. Ahead(environ, e) \subseteq Ahead(environ', e + 1) \cup {entry.name, z, n}
      BY <2>1, <2>4 DEF Ahead
    <2>6. Lost' \subseteq Lost \cup {z}
      BY <1>2, <1>3, <2>2, <2>5 DEF Lost
    <2>7. n \notin unset /\ unset' \cap Names(environ') = {}
      <3>1. \A i \in DOMAIN environ' :
              \E j \in DOMAIN environ : environ'[i] = environ[j] /\ j # k
        BY <1>1, <2>1, <2>3
      <3>2. \A j \in DOMAIN environ : environ[j].name = n => j = k
        BY <1>5, <2>1 DEF ForeachInv, NoDuplicates, Names
      <3>3. n \notin Names(environ') /\ Names(environ') \subseteq Names(environ)
        BY <3>1, <3>2 DEF Names
      <3> QED
        BY <1>5, <2>2, <3>3 DEF Counted
    <2>8. /\ IsFiniteSet(Lost \cup {z}) /\ Cardinality(Lost \cup {z}) \in Nat
          /\ Cardinality(Lost) \in Nat /\ Cardinality(unset) \in Nat
          /\ Cardinality(Lost \cup {z}) <= Cardinality(Lost) + 1
          /\ IsFiniteSet(unset') /\ Cardinality(unset') = Cardinality(unset) + 1
      <3>1. IsFiniteSet(Lost) /\ IsFiniteSet(unset)
        BY DEF Counted
      <3>2. Cardinality(Lost) \in Nat /\ Cardinality(unset) \in Nat
        BY <3>1, FS_CardinalityType
      <3>3. /\ IsFiniteSet(Lost \cup {z})
            /\ Cardinality(Lost \cup {z}) = IF z \in Lost THEN Cardinality(Lost)
                                                        ELSE Cardinality(Lost) + 1
        BY <3>1, FS_AddElement
      <3>4. /\ IsFiniteSet(unset \cup {n})
            /\ Cardinality(unset \cup {n}) = Cardinality(unset) + 1
        BY <2>7, <3>1, FS_AddElement
      <3> QED
        BY <2>2, <3>2, <3>3, <3>4
    <2>9. IsFiniteSet(Lost') /\ Cardinality(Lost') <= Cardinality(Lost \cup {z})
      BY <2>6, <2>8, FewerLost
    <2>10. Cardinality(Lost') \in Nat
      BY <2>9, FS_CardinalityType
    <2> QED
      BY <2>7, <2>8, <2>9, <2>10 DEF Counted
  <1>6. ASSUME NEW n \in Names(environ), NEW v \in EntryValue, Replace(n, v)
        PROVE  Counted'
    <2>1. /\ UNCHANGED <<stayed, unset>>
          /\ environ' = [i \in DOMAIN environ |->
                           IF environ[i].name = n THEN [environ[i] EXCEPT !.value = v]
                                                  ELSE environ[i]]
      BY <1>6 DEF Replace
    <2>2. \A i \in DOMAIN environ : environ[i] \in Entries
      BY <1>1
    <2>3. DOMAIN environ' = DOMAIN environ
          /\ \A i \in DOMAIN environ : environ'[i].name = environ[i].name
      BY <2>1, <2>2 DEF Entries
    <2> QED
      BY <1>4, <2>1, <2>3
  <1> QED
    BY <1>1, <1>4, <1>5, <1>6 DEF Effect

LEMMA CountNext ==
  ASSUME ForeachInv, CountInv, MissesAtMostUnset, [ForeachNext]_foreachVars
  PROVE  CountInv' /\ MissesAtMostUnset'
  <1>1. CASE Begin
    BY <1>1, BeginCounts DEF CountInv, Begin, MissesAtMostUnset
  <1>2. CASE Skip
    <2>1. e > 0 /\ e \in Nat /\ UNCHANGED <<calls, stayed, unset, ended>>
      BY <1>2 DEF Skip, There, ForeachInv, ForeachTypeOK
    <2> QED
      BY <1>2, <2>1, SkipCounts DEF CountInv, MissesAtMostUnset, Missed, Names
  <1>3. CASE Visit
    <2>1. e > 0 /\ e \in Nat
      BY <1>3 DEF Visit, There, ForeachInv, ForeachTypeOK
    <2>2. CASE e' = e + 1 /\ UNCHANGED ended
      BY <1>3, <2>1, <2>2, VisitCounts DEF CountInv, MissesAtMostUnset
    <2>3. CASE e' = 0 /\ ended' = "stopped"
      BY <2>3 DEF CountInv, MissesAtMostUnset
    <2> QED
      BY <1>3, <2>2, <2>3 DEF Visit
  <1>4. CASE Complete
    <2>1. e' = 0 /\ UNCHANGED <<environ, calls, stayed, unset>>
      BY <1>4 DEF Complete
    <2>2. Counted /\ Ahead(environ, e) = {}
      BY <1>4 DEF Complete, CountInv, Ahead, ForeachInv, ForeachTypeOK
    <2>3. Missed' = Lost
      BY <2>1, <2>2 DEF Missed, Lost, Names
    <2> QED
      BY <2>1, <2>2, <2>3 DEF Counted, CountInv, MissesAtMostUnset
  <1>5. CASE UNCHANGED foreachVars
    BY <1>5 DEF foreachVars, CountInv, Counted, Lost, Ahead, Names, MissesAtMostUnset, Missed
  <1> QED
    BY <1>1, <1>2, <1>3, <1>4, <1>5 DEF ForeachNext, fossil_sys_env_foreach

\* A loop that was not stopped misses no more variables than its callback has unset.
THEOREM MissesCorrect == ForeachSpec => []MissesAtMostUnset
  <1>1. ForeachInit => CountInv /\ MissesAtMostUnset
    BY DEF ForeachInit, CountInv, MissesAtMostUnset
  <1>2. ForeachInv /\ CountInv /\ MissesAtMostUnset /\ [ForeachNext]_foreachVars
          => CountInv' /\ MissesAtMostUnset'
    BY CountNext
  <1> QED
    BY <1>1, <1>2, ForeachInvInit, ForeachInvNext, PTL DEF ForeachSpec
=============================================================================

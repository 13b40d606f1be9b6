----------------------------- MODULE EnvForeach -----------------------------
(***************************************************************************)
(* fossil_sys_env_foreach of code/logic/env.c (POSIX): a walk over the     *)
(* array environ with a callback for every variable, where the callback    *)
(* may itself call fossil_sys_env_set.  The array is the C library's       *)
(* (external): replacing a variable changes its entry in place, unsetting  *)
(* one moves the entries behind it down by one.  A callback that adds a    *)
(* variable moves the whole array, and is left out.                        *)
(***************************************************************************)
EXTENDS Integers, Sequences, FiniteSets, SequencesExt

CONSTANTS EntryName,       \* variables' names, each in environ once at most
          LongName,        \* those of 256 bytes or more
          EntryValue,
          NO_NAME,
          MAX_ENTRIES      \* bound: the entries of environ

ASSUME ForeachAssumption ==
  LongName \subseteq EntryName /\ NO_NAME \notin EntryName /\ MAX_ENTRIES \in Nat

VARIABLES environ,  \* the entries; a name NO_NAME stands for an entry without '='
          e,        \* the position the loop is at, 0 when no foreach is running
          calls,    \* the entries the callback was given, in order
          stayed,   \* names that have been in environ since the loop began ...
          unset,    \* ... and those that were unset meanwhile
          ended     \* how the last loop ended: "none", "stopped", "complete"

foreachVars == <<environ, e, calls, stayed, unset, ended>>

Entries == [name : EntryName \cup {NO_NAME}, value : EntryValue]
Names(s) == {s[i].name : i \in DOMAIN s} \ {NO_NAME}
NoDuplicates(s) == \A i, j \in DOMAIN s :
                     s[i].name = s[j].name /\ s[i].name # NO_NAME => i = j

ForeachInit == /\ environ \in {s \in BoundedSeq(Entries, MAX_ENTRIES) : NoDuplicates(s)}
               /\ e = 0 /\ calls = <<>> /\ stayed = {} /\ unset = {}
               /\ ended = "none"
-----------------------------------------------------------------------------
Begin == /\ e = 0 /\ ended = "none"
         /\ e' = 1
         /\ calls' = <<>>
         /\ stayed' = Names(environ)
         /\ unset' = {}
         /\ UNCHANGED <<environ, ended>>

\* environ[e - 1] is not null: the array still reaches that far.
There == e \in 1 .. Len(environ)
Callable(entry) == entry.name \notin LongName \cup {NO_NAME}

\* An entry without '=' and one whose name does not fit the buffer are passed over.
Skip == /\ There
        /\ ~Callable(environ[e])
        /\ e' = e + 1
        /\ UNCHANGED <<environ, calls, stayed, unset, ended>>

Unset(name) ==
  /\ \E k \in DOMAIN environ : environ[k].name = name /\ environ' = RemoveAt(environ, k)
  /\ stayed' = stayed \ {name}
  /\ unset' = unset \cup {name}

Replace(name, value) ==
  /\ environ' = [i \in DOMAIN environ |->
                   IF environ[i].name = name THEN [environ[i] EXCEPT !.value = value]
                                             ELSE environ[i]]
  /\ UNCHANGED <<stayed, unset>>

\* What the callback does to the environment: nothing, or one call of set.
Effect == \/ UNCHANGED <<environ, stayed, unset>>
          \/ \E n \in Names(environ), v \in EntryValue : Replace(n, v)
          \/ \E n \in Names(environ) : Unset(n)

\* Slips for the mutation runs: a position that may stay where it is, or moves by two, ...
VisitAgain == /\ There
              /\ Callable(environ[e])
              /\ calls' = Append(calls, environ[e])
              /\ Effect
              /\ \/ e' \in {e, e + 1} /\ UNCHANGED ended
                 \/ e' = 0 /\ ended' = "stopped"

VisitEverySecond == /\ There
                    /\ Callable(environ[e])
                    /\ calls' = Append(calls, environ[e])
                    /\ Effect
                    /\ \/ e' = e + 2 /\ UNCHANGED ended
                       \/ e' = 0 /\ ended' = "stopped"

\* The callback is called; a result other than 0 ends the loop.
Visit == /\ There
         /\ Callable(environ[e])
         /\ calls' = Append(calls, environ[e])
         /\ Effect
         /\ \/ e' = e + 1 /\ UNCHANGED ended
            \/ e' = 0 /\ ended' = "stopped"

\* ... a loop that waits for the exact end of an array that has become shorter.
CompleteExactly == /\ e = Len(environ) + 1
                   /\ e' = 0
                   /\ ended' = "complete"
                   /\ UNCHANGED <<environ, calls, stayed, unset>>

Complete == /\ e > Len(environ)
            /\ e' = 0
            /\ ended' = "complete"
            /\ UNCHANGED <<environ, calls, stayed, unset>>

fossil_sys_env_foreach == Begin \/ Skip \/ Visit \/ Complete

ForeachNext == fossil_sys_env_foreach
ForeachSpec == ForeachInit /\ [][ForeachNext]_foreachVars
\* A loop that has begun goes on.
ForeachFairness == WF_foreachVars(e > 0 /\ ForeachNext)
-----------------------------------------------------------------------------
\* The variables keep their types.
ForeachTypeOK == /\ environ \in Seq(Entries)
                 /\ e \in Nat
                 /\ calls \in Seq([name : EntryName \ LongName, value : EntryValue])
                 /\ stayed \subseteq EntryName /\ unset \subseteq EntryName
                 /\ ended \in {"none", "stopped", "complete"}

\* No variable is given to the callback twice, even when the callback unsets some.
NoneTwice == NoDuplicates(calls)

\* Every variable the callback unsets hides at most one other from it: a loop that was
\* not stopped passes over no more of the variables that stayed than were unset.
Missed == stayed \ (LongName \cup Names(calls))
MissesAtMostUnset == ended = "complete" => Cardinality(Missed) <= Cardinality(unset)

\* The loop ends, whatever the callback does.
ForeachEnds == e > 0 ~> e = 0
=============================================================================

-------------------------------- MODULE MCEnv --------------------------------
\* A program that sets variables or walks over them.  Bounds for TLC: every identifier and a
\* plain name, and two of them set at a time; a walk over up to three entries, so that one
\* can be unset before, at and behind the position, among them one with a long name and
\* entries without '='.
EXTENDS Env, EnvForeach, TLC

CONSTANTS n1, n2, n3, long, v1, v2

VARIABLE part

Num(i) == [kind |-> "number", n |-> i]
Word(k) == [kind |-> k, n |-> 0]

\* One processor: cpu_count reads as a number, and as a truth value.
MCSys == ("fossil.sys.name" :> Word("other")) @@ ("fossil.sys.arch" :> Word("other"))
         @@ ("fossil.sys.page_size" :> Num(4)) @@ ("fossil.sys.cpu_count" :> Num(1))
MCAllKeys == Canonical \cup {"PLAIN"}
MCValue == {Num(40), Word("false")}

MCEntryName == {n1, n2, n3, long}
MCLongName == {long}
MCEntryValue == {v1, v2}

MCInit == /\ Init /\ ForeachInit
          /\ part \in {"tables", "foreach"} /\ (part = "tables" => environ = <<>>)
MCNext == /\ UNCHANGED part
          /\ \/ part = "tables" /\ Next /\ UNCHANGED foreachVars
             \/ part = "foreach" /\ ForeachNext /\ UNCHANGED vars
MCSpec == MCInit /\ [][MCNext]_<<part, vars, foreachVars>> /\ ForeachFairness
=============================================================================

------------------------------ MODULE MCProcess ------------------------------
\* A program that controls processes or asks about them.  Bounds for TLC.  Control: two pids, so
\* that one can be taken over while the other is waited for; timeouts of no poll, one, two
\* and three, and the infinite one; an int of five bits, so that the polls of the longest
\* timeout cannot be counted; a program that exits with 0 or 3.  Queries: four processes, two
\* of which share a pid one after the other, and a table with room for two; names without a
\* blank, and with one before a word, a letter, a number.
EXTENDS Process, ProcessList

VARIABLE part

MCPid == {1, 2}
MCSelf == 3
MCTimeouts == {-1, 0, 3, 12, 15}
MCExitCodes == {0, 3}

MCProc == {"a", "b", "c", "d"}
MCPidOf == [x \in MCProc |-> CASE x = "a" -> 1 [] x \in {"b", "c"} -> 2 [] x = "d" -> 3]
MCParent == [x \in MCProc |-> IF x = "a" THEN 4 ELSE 1]
Word(one, rest, num) == [one |-> one, rest |-> rest, num |-> num]
MCWords == [x \in MCProc |->
  CASE x = "a" -> <<Word(FALSE, 0, 0)>>
    [] x = "b" -> <<Word(FALSE, 0, 0), Word(FALSE, 0, 0)>>
    [] x = "c" -> <<Word(FALSE, 0, 0), Word(TRUE, 0, 0), Word(FALSE, 0, 7)>>
    [] x = "d" -> <<Word(FALSE, 0, 0), Word(FALSE, 5, 0)>>]

MCInit == /\ Init /\ QueryInit
          /\ part \in {"control", "queries"} /\ (part = "control" => alive = {})
MCNext == /\ UNCHANGED part
         /\ \/ part = "control" /\ Next /\ UNCHANGED queryVars
            \/ part = "queries" /\ QueryNext /\ UNCHANGED vars
MCSpec == MCInit /\ [][MCNext]_<<part, vars, queryVars>> /\ Fairness
=============================================================================

----------------------------- MODULE ProcessList -----------------------------
(***************************************************************************)
(* Asking about other processes: the list, get_info and get_ppid of the    *)
(* POSIX half of code/logic/process.c, which read /proc while processes    *)
(* start and end and pids are used again.  A list is read entry by entry,  *)
(* an entry file by file, into a table of the caller's that still holds    *)
(* what the last call left.  Slot 1 also stands for the structure of a     *)
(* caller of get_info itself.                                              *)
(***************************************************************************)
EXTENDS Integers, Sequences

CONSTANTS Proc,     \* processes; each lives once
          ProcPid,
          PidOf,    \* the pid of a process, which another may have had before
          Parent,   \* the pid of its parent
          Words,    \* the words of its name in parentheses, as its stat file has them
          UNKNOWN,
          MAX       \* FOSSIL_SYS_PROCESS_MAX, 1024

ASSUME ListAssumption ==
  /\ UNKNOWN \notin Proc /\ UNKNOWN \notin ProcPid
  /\ PidOf \in [Proc -> ProcPid]
  /\ Parent \in [Proc -> Nat]
  /\ Words \in [Proc -> Seq([one : BOOLEAN, rest : Nat, num : Nat]) \ {<<>>}]
  /\ MAX \in Nat \ {0}

VARIABLES alive, ended,      \* processes
          pc, single,        \* what is read next; whether get_info was called by itself
          seen, must, may,   \* pids readdir has returned; those of all the time, of any time
          lived, held,       \* processes of any time of the call; and of this entry and pid
          table, count, slot,
          answer

procs == <<alive, ended>>
dir == <<seen, must, may>>
queryVars == <<procs, pc, single, dir, lived, held, table, count, slot, answer>>

Holders(p) == {x \in alive : PidOf[x] = p}
Pids(S) == {PidOf[x] : x \in S}
Fields == {"name", "ppid", "memory", "threads"}

\* Which process each field was read from; UNKNOWN: zero, or "unknown" for the name.
NoEntry == [pid |-> UNKNOWN, from |-> [f \in Fields |-> UNKNOWN]]

QueryInit == /\ alive \in SUBSET Proc /\ \A x, y \in alive : PidOf[x] = PidOf[y] => x = y
             /\ ended = {}
             /\ pc = "idle" /\ single = TRUE
             /\ seen = {} /\ must = {} /\ may = {}
             /\ lived = {} /\ held = {}
             /\ table = [i \in 1 .. MAX |-> NoEntry]
             /\ count = 0 /\ slot = 1
             /\ answer = [op |-> "none", ret |-> 0]
-----------------------------------------------------------------------------
(* The other processes *)

Start(x) ==
  /\ x \notin alive \cup ended
  /\ Holders(PidOf[x]) = {}
  /\ alive' = alive \cup {x}
  /\ IF pc = "idle" THEN UNCHANGED <<may, lived, held>>
     ELSE /\ may' = may \cup {PidOf[x]}
          /\ lived' = lived \cup {x}
          /\ held' = IF PidOf[x] = table[slot].pid THEN held \cup {x} ELSE held
  /\ UNCHANGED <<ended, pc, single, seen, must, table, count, slot, answer>>

\* It has ended, and its parent has reaped it.
End(x) ==
  /\ x \in alive
  /\ alive' = alive \ {x}
  /\ ended' = ended \cup {x}
  /\ must' = IF pc = "idle" THEN must ELSE must \ {PidOf[x]}
  /\ UNCHANGED <<pc, single, seen, may, lived, held, table, count, slot, answer>>
-----------------------------------------------------------------------------
(* fossil_sys_process_get_info *)

\* Slips for the mutation runs: the structure not zeroed, ...
ClearedNot(entry, p) == [entry EXCEPT !.pid = p]

\* What get_info starts with.
Cleared(entry, p) == [NoEntry EXCEPT !.pid = p]

\* No directory is open.
Forget == seen' = {} /\ must' = {} /\ may' = {}

\* The call leaves no entry that its caller might look at.
NoEntries == /\ single' = FALSE /\ count' = 0 /\ slot' = 1
             /\ Forget /\ lived' = {} /\ held' = {}

Begin(i, p) ==
  /\ slot' = i
  /\ table' = [table EXCEPT ![i] = Cleared(@, p)]
  /\ held' = Holders(p)
  /\ pc' = "name"

InfoCall(p) ==
  /\ pc = "idle"
  /\ Begin(1, p)
  /\ single' = TRUE
  /\ lived' = alive
  /\ answer' = [op |-> "none", ret |-> 0]
  /\ count' = 0
  /\ Forget
  /\ UNCHANGED procs

\* One of /proc/<pid>/comm, stat, statm and status: that of the process which has the pid
\* now, or of none.
Answering(p) == IF Holders(p) = {} THEN {UNKNOWN} ELSE Holders(p)
Read(at, field, next) ==
  /\ pc = at
  /\ \E x \in Answering(table[slot].pid) :
       table' = [table EXCEPT ![slot].from[field] = x]
  /\ pc' = next
  /\ UNCHANGED <<procs, single, dir, lived, held, count, slot>>

ReadName == Read("name", "name", "stat") /\ UNCHANGED answer
ReadStat == Read("stat", "ppid", "statm") /\ UNCHANGED answer
ReadStatm == Read("statm", "memory", "status") /\ UNCHANGED answer
ReadStatus ==
  /\ Read("status", "threads", IF single THEN "idle" ELSE "readdir")
  /\ answer' = IF single THEN [op |-> "get_info", ret |-> 0] ELSE answer

\* /proc/<pid>/stat is "pid (name) state ppid ...".  Of a word behind the pid: is it one
\* character, the number behind its first character, the number it starts with (0: none).
Stat(x) == Words[x] \o <<[one |-> TRUE, rest |-> 0, num |-> 0],
                         [one |-> FALSE, rest |-> 0, num |-> Parent[x]]>>

\* The scan with %*d %*s %*c %u: past one word, past one character, and the number there.
Scan(words) == IF words[2].one THEN words[3].num ELSE words[2].rest

\* get_ppid: the same scan by itself, -1 when there is no such process.
fossil_sys_process_get_ppid(p) ==
  /\ pc = "idle"
  /\ \E x \in Answering(p) :
       answer' = [op |-> "get_ppid", pid |-> p,
                  ret |-> IF x = UNKNOWN THEN -1 ELSE Scan(Stat(x))]
  /\ NoEntries
  /\ UNCHANGED <<procs, pc, table>>
-----------------------------------------------------------------------------
(* fossil_sys_process_list *)

Opens == /\ pc' = "readdir" /\ single' = FALSE
         /\ seen' = {} /\ must' = Pids(alive) /\ may' = Pids(alive)
         /\ lived' = alive /\ held' = {} /\ slot' = 1
         /\ answer' = [op |-> "none", ret |-> 0]
         /\ UNCHANGED <<procs, table>>

\* ... the count of the last call kept, ...
ListCallKeepsCount == pc = "idle" /\ count < MAX /\ Opens /\ UNCHANGED count

ListCall == pc = "idle" /\ Opens /\ count' = 0

OpendirFails ==
  /\ pc = "idle"
  /\ NoEntries
  /\ answer' = [op |-> "list", ret |-> -2]
  /\ UNCHANGED <<procs, pc, table>>

ListReturns == /\ pc' = "idle"
               /\ answer' = [op |-> "list", ret |-> 0]
               /\ UNCHANGED <<procs, single, dir, lived, held, table, count, slot>>

\* ... and a table taken to have one slot more.
HasRoomLate == count <= MAX

HasRoom == count < MAX

\* readdir has returned the name of a pid; the other names of /proc are no numbers.
ListNext(p) ==
  /\ pc = "readdir" /\ p \in may \ seen /\ HasRoom
  /\ Begin(count + 1, p)
  /\ count' = count + 1
  /\ seen' = seen \cup {p}
  /\ UNCHANGED <<procs, single, must, may, lived, answer>>

ListFull == pc = "readdir" /\ ~HasRoom /\ may \ seen # {} /\ ListReturns

ListEnd == pc = "readdir" /\ must \subseteq seen /\ ListReturns
-----------------------------------------------------------------------------
QueryNext ==
  \/ \E x \in Proc : Start(x) \/ End(x)
  \/ \E p \in ProcPid : InfoCall(p) \/ fossil_sys_process_get_ppid(p) \/ ListNext(p)
  \/ ReadName \/ ReadStat \/ ReadStatm \/ ReadStatus
  \/ ListCall \/ OpendirFails \/ ListFull \/ ListEnd
QuerySpec == QueryInit /\ [][QueryNext]_queryVars
-----------------------------------------------------------------------------
Entry == [pid : ProcPid \cup {UNKNOWN}, from : [Fields -> Proc \cup {UNKNOWN}]]

\* The variables keep their types: the table is never left.
QueryTypeOK ==
  /\ alive \subseteq Proc /\ ended \subseteq Proc
  /\ pc \in {"idle", "readdir", "name", "stat", "statm", "status"} /\ single \in BOOLEAN
  /\ seen \subseteq ProcPid /\ must \subseteq ProcPid /\ may \subseteq ProcPid
  /\ lived \subseteq Proc /\ held \subseteq Proc
  /\ table \in [1 .. MAX -> Entry]
  /\ count \in 0 .. MAX /\ slot \in 1 .. MAX

\* What the caller sees of the call that is under way or was last.
Slots == IF single THEN {1} ELSE 1 .. count
Listed == {table[i].pid : i \in 1 .. count}

\* Whatever starts and ends while a list is made, no pid is in it twice, and when the call
\* returns 0 every process that was there all the time is in it, unless the table is full.
ListComplete ==
  /\ ~single => \A i, j \in 1 .. count : table[i].pid = table[j].pid => i = j
  /\ answer.op = "list" /\ answer.ret = 0 => must \subseteq Listed \/ count = MAX

\* Every field of an entry comes from a process that had the entry's pid during the call,
\* none from the call before; an entry mixes two processes only if the pid changed hands
\* while its four files were read.
Sources(entry) == {entry.from[f] : f \in Fields} \ {UNKNOWN}
FieldsOfHolder ==
  /\ \A i \in Slots : \A x \in Sources(table[i]) : x \in lived /\ PidOf[x] = table[i].pid
  /\ slot \in Slots => Sources(table[slot]) \subseteq held

\* process.h:182: get_ppid returns "Parent process ID on success, 0 if not found, or -1 on
\* error": a number above 0 is the parent of a process with that pid.
PpidIsParent ==
  answer.op = "get_ppid" /\ answer.ret > 0 =>
    \E x \in Proc : PidOf[x] = answer.pid /\ Parent[x] = answer.ret
=============================================================================

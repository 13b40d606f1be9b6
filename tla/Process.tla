------------------------------- MODULE Process -------------------------------
(***************************************************************************)
(* Spawning, waiting for and signalling processes: the POSIX half of       *)
(* code/logic/process.c, driven by one thread that uses the pids spawn has *)
(* given it until wait says the process is gone.  The kernel (fork, exec,  *)
(* kill, waitpid, nanosleep, and the reuse of pids by strangers) is        *)
(* external; it interleaves with the polling loop of a timed wait.         *)
(***************************************************************************)
EXTENDS Integers

CONSTANTS Pid,         \* process identifiers other than the program's own
          SELF,        \* the program's own pid
          NULL,
          ExitCodes,   \* what a program may exit with
          Timeouts,    \* the values of timeout_ms (negative: infinite)
          INTERVAL,    \* ms slept between two polls, 10
          INT_MAX,
          MAX_SLEPT,   \* bound: the clock of a wait stops here, past every timeout
          MAX_OWED     \* bound: ms that signals may take from the naps of one wait

EXEC_FAILED == 127
KILLED == 256          \* a wait status beyond every exit code: died of a signal

ASSUME ProcessAssumption ==
  /\ NULL \notin Pid /\ SELF \notin Pid \cup {0, NULL}
  /\ ExitCodes \subseteq 0 .. 255
  /\ INT_MAX \in Nat /\ MAX_SLEPT \in Nat /\ MAX_OWED \in Nat
  /\ Timeouts \subseteq Int /\ \A t \in Timeouts : t <= INT_MAX /\ t <= MAX_SLEPT
  /\ INTERVAL \in 1 .. INT_MAX

VARIABLES proc,        \* the process table
          self,        \* the program itself: "run", "stop", "dead"
          known,       \* pids spawn returned and wait has not reported gone
          careless,    \* the program has signalled a pid that is not one of those
          hit,         \* a signal of this program reached a stranger
          wpc, wpid, timeout, waited, status,  \* wait: where it is, its variables
          slept, owed, \* ms the current wait has really slept; ms signals took from its naps
          result       \* the last call, its pid, what it returned; none while wait runs

kernel == <<proc, self>>
caller == <<known, careless, hit>>
waiting == <<wpc, wpid, timeout, waited, status, slept, owed>>
vars == <<kernel, caller, waiting, result>>

Absent == [who |-> "nobody", state |-> "run", image |-> "fork", signal |-> "none",
           status |-> 0]
Forked == [Absent EXCEPT !.who = "child"]
Returns(op, pid, ret, code) ==
  result' = [op |-> op, pid |-> pid, ret |-> ret, code |-> code]

Init == /\ proc = [p \in Pid |-> Absent]
        /\ self = "run"
        /\ known = {} /\ careless = FALSE /\ hit = FALSE
        /\ wpc = "idle" /\ wpid = NULL /\ timeout = 0 /\ waited = 0
        /\ status = 0 /\ slept = 0 /\ owed = 0
        /\ result = [op |-> "none", pid |-> NULL, ret |-> 0, code |-> 0]

Idle == self = "run" /\ wpc = "idle"
-----------------------------------------------------------------------------
(* The kernel and the other processes *)

Zombie(s) == [Forked EXCEPT !.state = "zombie", !.status = s]
Running(p) == proc[p].who = "child" /\ proc[p].state = "run"

Exec(p) ==
  /\ Running(p) /\ proc[p].image = "fork"
  /\ proc' = [proc EXCEPT ![p].image = "program"]
  /\ UNCHANGED <<self, caller, waiting, result>>

\* exec failed in the forked copy: _exit(127).
ExecFails(p) ==
  /\ Running(p) /\ proc[p].image = "fork"
  /\ proc' = [proc EXCEPT ![p] = Zombie(EXEC_FAILED)]
  /\ UNCHANGED <<self, caller, waiting, result>>

Exit(p, code) ==
  /\ Running(p) /\ proc[p].image = "program"
  /\ proc' = [proc EXCEPT ![p] = Zombie(code)]
  /\ UNCHANGED <<self, caller, waiting, result>>

\* A signal takes effect: SIGKILL at any time, SIGTERM in a process that runs.
Die(p) ==
  /\ proc[p].who = "child" /\ proc[p].state # "zombie"
  /\ \/ proc[p].signal = "kill"
     \/ proc[p].signal = "term" /\ proc[p].state = "run"
  /\ proc' = [proc EXCEPT ![p] = Zombie(KILLED)]
  /\ UNCHANGED <<self, caller, waiting, result>>

\* Somebody else's process takes a free pid, or ends.
Stranger(p) ==
  /\ \/ /\ proc[p].who = "nobody"
        /\ proc' = [proc EXCEPT ![p] = [Absent EXCEPT !.who = "stranger"]]
     \/ /\ proc[p].who = "stranger"
        /\ proc' = [proc EXCEPT ![p] = Absent]
  /\ UNCHANGED <<self, caller, waiting, result>>

Kernel == \E p \in Pid : \/ Exec(p) \/ ExecFails(p) \/ Die(p) \/ Stranger(p)
                         \/ \E code \in ExitCodes : Exit(p, code)
-----------------------------------------------------------------------------
(* fossil_sys_process_spawn *)

SpawnFails == /\ Idle
              /\ Returns("spawn", NULL, -1, 0)
              /\ UNCHANGED <<kernel, caller, waiting>>

Spawn(p) == /\ Idle
            /\ proc[p].who = "nobody"
            /\ proc' = [proc EXCEPT ![p] = Forked]
            /\ known' = known \cup {p}
            /\ Returns("spawn", p, 0, 0)
            /\ UNCHANGED <<self, careless, hit, waiting>>
-----------------------------------------------------------------------------
(* Signals *)

\* What a signal does to a process: a zombie or a handler may ignore it.
Signalled(d, sig) ==
  CASE d.state = "zombie" -> d
    [] sig = "stop" -> [d EXCEPT !.state = "stop"]
    [] sig = "cont" -> [d EXCEPT !.state = "run"]
    [] sig = "kill" -> [d EXCEPT !.signal = "kill"]
    [] sig = "term" -> IF d.signal = "none" THEN [d EXCEPT !.signal = "term"] ELSE d

\* kill(pid, sig): ESRCH for a pid nobody has; a stranger may also be refused (EPERM).
Kill(op, pid, sig) ==
  /\ pid \in Pid
  /\ \/ /\ proc[pid].who = "nobody"
        /\ Returns(op, pid, -1, 0)
        /\ UNCHANGED <<kernel, hit>>
     \/ /\ proc[pid].who = "stranger"
        /\ \E ret \in {0, -1} : Returns(op, pid, ret, 0)
        /\ hit' = TRUE
        /\ UNCHANGED kernel
     \/ /\ proc[pid].who = "child"
        /\ proc' = [proc EXCEPT ![pid] = Signalled(@, sig)]
        /\ Returns(op, pid, 0, 0)
        /\ UNCHANGED <<self, hit>>

\* What a signal makes of the program, which runs.
Fate(sig) == CASE sig \in {"kill", "term"} -> "dead"
               [] sig = "stop" -> "stop"
               [] sig = "cont" -> "run"

\* kill(0, sig) goes to every process of the caller's group: the program, its children.
KillGroup(op, pid, sig) ==
  /\ pid = 0
  /\ self' = Fate(sig)
  /\ proc' = [p \in Pid |-> IF proc[p].who = "child" THEN Signalled(proc[p], sig)
                                                      ELSE proc[p]]
  /\ Returns(op, pid, 0, 0)
  /\ UNCHANGED hit

\* send_signal does not refuse the program's own pid; what the signal does to it, the
\* call has no time to report unless it leaves the program running.
KillSelf(op, pid, sig) ==
  /\ pid = SELF /\ op = "send_signal"
  /\ self' = Fate(sig)
  /\ Returns(op, pid, 0, 0)
  /\ UNCHANGED <<proc, hit>>

\* terminate, suspend and resume do.  0 is not the program's pid.
SelfRefused(op, pid) ==
  /\ pid = SELF /\ op # "send_signal"
  /\ Returns(op, pid, -1, 0)
  /\ UNCHANGED <<kernel, hit>>

Sigs(op) == CASE op = "terminate" -> {"term", "kill"}
              [] op = "suspend" -> {"stop"}
              [] op = "resume" -> {"cont"}
              [] op = "send_signal" -> {"term", "kill", "stop", "cont"}

Signal(op, pid) ==
  /\ Idle
  /\ SelfRefused(op, pid) \/ \E sig \in Sigs(op) : \/ Kill(op, pid, sig)
                                                   \/ KillGroup(op, pid, sig)
                                                   \/ KillSelf(op, pid, sig)
  /\ careless' = (careless \/ pid \notin known)
  /\ UNCHANGED <<known, waiting>>

\* fossil_sys_process_exists, which any pid may be passed to.
Exists(pid) ==
  /\ Idle
  /\ \/ pid \in Pid /\ proc[pid].who = "nobody" /\ Returns("exists", pid, 0, 0)
     \/ pid = 0 /\ Returns("exists", pid, 0, 0)
     \/ pid = SELF /\ Returns("exists", pid, 1, 0)
     \/ pid \in Pid /\ proc[pid].who # "nobody" /\ Returns("exists", pid, 1, 0)
     \/ pid \in Pid /\ proc[pid].who = "stranger" /\ Returns("exists", pid, -1, 0)
  /\ UNCHANGED <<kernel, caller, waiting>>
-----------------------------------------------------------------------------
(* fossil_sys_process_wait *)

Later(ms) == IF ms + INTERVAL > MAX_SLEPT THEN MAX_SLEPT ELSE ms + INTERVAL
Wrap(x) == IF x > INT_MAX THEN x - 2 * INT_MAX - 2 ELSE x   \* signed overflow of int

WaitZero == /\ Idle
            /\ Returns("wait", 0, -1, 0)
            /\ UNCHANGED <<kernel, caller, waiting>>

WaitCall(p, t) ==
  /\ Idle
  /\ wpc' = IF t < 0 THEN "forever" ELSE "loop"
  /\ wpid' = p /\ timeout' = t
  /\ waited' = 0 /\ status' = 0 /\ slept' = 0 /\ owed' = 0
  /\ Returns("none", NULL, 0, 0)
  /\ UNCHANGED <<kernel, caller>>

\* wait returns, and its variables are no more.
WaitEnds(ret, code) ==
  /\ wpc' = "idle" /\ wpid' = NULL /\ timeout' = 0
  /\ waited' = 0 /\ status' = 0 /\ slept' = 0 /\ owed' = 0
  /\ Returns("wait", wpid, ret, code)
  /\ UNCHANGED <<kernel, careless, hit>>

WaitFails == WaitEnds(-1, 0) /\ UNCHANGED known

\* waitpid takes the status of a dead child, and the pid is free again.
Reap == /\ proc[wpid].who = "child" /\ proc[wpid].state = "zombie"
        /\ status' = proc[wpid].status
        /\ proc' = [proc EXCEPT ![wpid] = Absent]
        /\ wpc' = "done"
        /\ UNCHANGED <<self, caller, wpid>>

\* waitpid blocks until the child is dead; ECHILD if it is none.
WaitForever ==
  /\ wpc = "forever"
  /\ \/ Reap /\ UNCHANGED <<timeout, waited, slept, owed, result>>
     \/ proc[wpid].who # "child" /\ WaitFails

\* A signal handler has run: EINTR.
WaitInterrupted == wpc = "forever" /\ WaitFails

\* Slips for the mutation runs: the time counted before the test that leaves the loop, ...
WaitPollCountsFirst ==
  /\ wpc = "loop" /\ waited < timeout
  /\ waited' = Wrap(waited + INTERVAL)
  /\ \/ Reap
     \/ /\ proc[wpid].who = "child" /\ proc[wpid].state # "zombie"
        /\ wpc' = "nap"
        /\ UNCHANGED <<kernel, caller, wpid, status>>
  /\ UNCHANGED <<timeout, slept, owed, result>>

\* One round of the polling loop: waitpid with WNOHANG.
WaitPoll ==
  /\ wpc = "loop" /\ waited < timeout
  /\ \/ Reap /\ UNCHANGED <<timeout, waited, slept, owed, result>>
     \/ /\ proc[wpid].who = "child" /\ proc[wpid].state # "zombie"
        /\ wpc' = "nap"
        /\ UNCHANGED <<kernel, caller, wpid, timeout, waited, status, slept, owed, result>>
     \/ proc[wpid].who # "child" /\ WaitFails

\* nanosleep sleeps the interval, or a signal takes what was left of it.
Nap == /\ wpc = "nap" /\ wpc' = "loop"
       /\ \/ slept' = Later(slept) /\ UNCHANGED owed
          \/ owed + INTERVAL <= MAX_OWED /\ owed' = owed + INTERVAL /\ UNCHANGED slept
       /\ UNCHANGED <<kernel, caller, wpid, timeout, status, result>>

\* ... a nap whose length is not counted, or counted twice, ...
WaitNapUncounted == Nap /\ UNCHANGED waited
WaitNapTwice == Nap /\ waited' = Wrap(waited + 2 * INTERVAL)

\* Either way the interval counts in full.
WaitNap == Nap /\ waited' = Wrap(waited + INTERVAL)

\* After the loop: -2 when the time is up.
WaitTimedOut ==
  /\ wpc \in {"loop", "done"} /\ timeout >= 0 /\ waited >= timeout
  /\ WaitEnds(-2, 0)
  /\ UNCHANGED known

\* ... and a status passed on as it is.
ExitCodeRaw(s) == s

ExitCode(s) == IF s = KILLED THEN -1 ELSE s    \* WIFEXITED, WEXITSTATUS

WaitReported ==
  /\ wpc = "done" /\ (timeout < 0 \/ waited < timeout)
  /\ WaitEnds(0, ExitCode(status))
  /\ known' = known \ {wpid}

WaitSteps == WaitForever \/ WaitPoll \/ WaitNap \/ WaitTimedOut \/ WaitReported

Next ==
  \/ Kernel
  \/ SpawnFails
  \/ \E p \in Pid : Spawn(p)
  \/ \E op \in {"terminate", "suspend", "resume", "send_signal"}, pid \in Pid \cup {0, SELF} :
       Signal(op, pid)
  \/ \E pid \in Pid \cup {0, SELF} : Exists(pid)
  \/ WaitZero
  \/ \E p \in Pid, t \in Timeouts : WaitCall(p, t)
  \/ WaitInterrupted
  \/ WaitSteps

Spec == Init /\ [][Next]_vars

\* The program's thread keeps running.  Nothing is assumed of the processes it waits for,
\* nor of signals: a child that is suspended and never resumed blocks an infinite wait.
Fairness == WF_vars(WaitSteps)
-----------------------------------------------------------------------------
Statuses == ExitCodes \cup {0, EXEC_FAILED, KILLED}
ProcessRecord == [who : {"nobody", "child", "stranger"}, state : {"run", "stop", "zombie"},
                  image : {"fork", "program"},
                  signal : {"none", "term", "kill"}, status : Statuses]

\* The variables keep their types.
TypeOK ==
  /\ proc \in [Pid -> ProcessRecord]
  /\ self \in {"run", "stop", "dead"}
  /\ known \subseteq Pid
  /\ careless \in BOOLEAN /\ hit \in BOOLEAN
  /\ wpc \in {"idle", "forever", "loop", "nap", "done"}
  /\ wpid \in Pid \cup {NULL}
  /\ timeout \in Timeouts \cup {0}
  /\ waited \in Int /\ slept \in 0 .. MAX_SLEPT /\ owed \in 0 .. MAX_OWED
  /\ status \in Statuses
  /\ result.pid \in Pid \cup {0, SELF, NULL} /\ result.ret \in {-2, -1, 0, 1}
  /\ result.code \in (Statuses \ {KILLED}) \cup {-1}

\* The caller's view of its children is exact: a pid it was given and not told to
\* forget is a child, running or waiting to be reaped, except between waitpid and the
\* end of that very wait; and every child is one it was given.  So a timed wait that
\* gives up has not consumed the exit status, and no zombie is out of the caller's reach.
Reaping == IF wpc = "done" THEN {wpid} ELSE {}
ChildrenKnown == /\ {p \in Pid : proc[p].who = "child"} = known \ Reaping
                 /\ Reaping \subseteq known

\* As long as a caller signals only the pids spawn gave it, until wait reports them gone,
\* it never signals a process that has taken over a pid.
NoStrangerHit == hit => careless

\* process.h:145: timeout_ms is in milliseconds: a wait gives up only after it has slept that
\* long, less what signals took from its naps, which the code does not make up for.
TimeoutNotEarly ==
  [][wpc # "idle" /\ wpc' = "idle" /\ result'.ret = -2 => slept + owed >= timeout]_vars

\* A timed wait ends, with or without signals, if the polls that its timeout takes can be
\* counted in an int, and an infinite one ends whose child has died.
CountFits == ((timeout + INTERVAL - 1) \div INTERVAL) * INTERVAL <= INT_MAX
MayEnd == \/ timeout >= 0 /\ CountFits
          \/ wpc = "done"
          \/ proc[wpid].state = "zombie"
WaitReturns == (wpc # "idle" /\ MayEnd) ~> wpc = "idle"
=============================================================================

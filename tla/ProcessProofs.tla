---------------------------- MODULE ProcessProofs ----------------------------
(***************************************************************************)
(* Proofs about process.c.  Process: the pids a caller holds are its       *)
(* children, for any number of processes and any timeouts, and what        *)
(* follows from it for the signals it sends.  ProcessList: whatever starts *)
(* and ends while /proc is read, who is in the list and which process each *)
(* field comes from, for any processes, pids and size of the table.        *)
(***************************************************************************)
EXTENDS Process, ProcessList, TLAPS

-----------------------------------------------------------------------------
(* Process *)

\* A child that was reaped is reported: the loop that found it dead is left in time,
\* so that the test for -2 after the loop fails.
DoneInTime == /\ wpc = "done" => timeout < 0 \/ waited < timeout
              /\ wpc = "forever" => timeout < 0
              /\ wpc # "idle" => wpid \in Pid

IInv == TypeOK /\ ChildrenKnown /\ DoneInTime

Children == {p \in Pid : proc[p].who = "child"}

LEMMA InvInit == Init => IInv
  <1> SUFFICES ASSUME Init PROVE IInv
    OBVIOUS
  <1>1. Absent \in ProcessRecord /\ Absent.who = "nobody"
    BY DEF Absent, ProcessRecord, Statuses
  <1>2. TypeOK
    <2>1. proc \in [Pid -> ProcessRecord]
      BY <1>1 DEF Init
    <2>2. MAX_SLEPT \in Nat /\ MAX_OWED \in Nat
      BY ProcessAssumption
    <2>3. /\ result.pid \in Pid \cup {0, SELF, NULL} /\ result.ret \in {-2, -1, 0, 1}
          /\ result.code \in (Statuses \ {KILLED}) \cup {-1}
      BY DEF Init, Statuses, KILLED
    <2>4. /\ self \in {"run", "stop", "dead"} /\ known \subseteq Pid
          /\ careless \in BOOLEAN /\ hit \in BOOLEAN
          /\ wpc \in {"idle", "forever", "loop", "nap", "done"}
          /\ wpid \in Pid \cup {NULL} /\ timeout \in Timeouts \cup {0}
      BY DEF Init
    <2>5. /\ waited \in Int /\ slept \in 0 .. MAX_SLEPT /\ owed \in 0 .. MAX_OWED
          /\ status \in Statuses
      BY <2>2 DEF Init, Statuses
    <2> QED
      BY <2>1, <2>3, <2>4, <2>5 DEF TypeOK
  <1>3. ChildrenKnown
    BY <1>1 DEF Init, ChildrenKnown, Reaping
  <1> QED
    BY <1>2, <1>3 DEF Init, IInv, DoneInTime
-----------------------------------------------------------------------------
\* The types of what waitpid, exec and signals make of a table entry.
LEMMA EntryTypes ==
  ASSUME TypeOK, NEW p \in Pid, NEW s \in Statuses,
         NEW sig \in {"term", "kill", "stop", "cont"}
  PROVE  /\ proc[p] \in ProcessRecord
         /\ Absent \in ProcessRecord /\ Forked \in ProcessRecord
         /\ Zombie(s) \in ProcessRecord /\ Zombie(s).who = "child"
         /\ Signalled(proc[p], sig) \in ProcessRecord
         /\ Signalled(proc[p], sig).who = proc[p].who
  <1>1. proc[p] \in ProcessRecord
    BY DEF TypeOK
  <1>2. Absent \in ProcessRecord /\ Forked \in ProcessRecord
    BY DEF Absent, Forked, ProcessRecord, Statuses
  <1>3. Zombie(s) \in ProcessRecord /\ Zombie(s).who = "child"
    BY DEF Zombie, Forked, Absent, ProcessRecord
  <1>4. /\ Signalled(proc[p], sig) \in ProcessRecord
        /\ Signalled(proc[p], sig).who = proc[p].who
    BY <1>1 DEF Signalled, ProcessRecord
  <1> QED
    BY <1>1, <1>2, <1>3, <1>4

\* A step that changes the table only, and no entry's being a child or not.
LEMMA TableStep ==
  ASSUME IInv, UNCHANGED <<known, waiting>>,
         proc' \in [Pid -> ProcessRecord], self' \in {"run", "stop", "dead"},
         careless' \in BOOLEAN, hit' \in BOOLEAN,
         \A p \in Pid : proc'[p].who = "child" <=> proc[p].who = "child",
         result'.pid \in Pid \cup {0, SELF, NULL}, result'.ret \in {-2, -1, 0, 1},
         result'.code \in (Statuses \ {KILLED}) \cup {-1}
  PROVE  IInv'
  <1>1. Children' = Children
    BY DEF Children
  <1>2. ChildrenKnown'
    BY <1>1 DEF IInv, ChildrenKnown, Children, Reaping, waiting
  <1>3. TypeOK' /\ DoneInTime'
    BY DEF IInv, TypeOK, DoneInTime, waiting
  <1> QED
    BY <1>2, <1>3 DEF IInv

\* The same for a step that puts entry r in the place of p's and nothing else.
LEMMA EntryStep ==
  ASSUME IInv, UNCHANGED <<self, caller, waiting, result>>,
         NEW p \in Pid, NEW r \in ProcessRecord, r.who = "child" <=> proc[p].who = "child",
         proc' = [proc EXCEPT ![p] = r]
  PROVE  IInv'
  <1>1. proc' \in [Pid -> ProcessRecord]
    BY DEF IInv, TypeOK
  <1>2. \A q \in Pid : proc'[q].who = "child" <=> proc[q].who = "child"
    BY DEF IInv, TypeOK
  <1> QED
    BY <1>1, <1>2, TableStep DEF IInv, TypeOK, caller

LEMMA KernelStep ==
  ASSUME IInv, Kernel
  PROVE  IInv'
  <1>0. TypeOK
    BY DEF IInv
  <1>1. ASSUME NEW p \in Pid, Exec(p) PROVE IInv'
    <2> DEFINE r == [proc[p] EXCEPT !.image = "program"]
    <2>1. r \in ProcessRecord /\ r.who = proc[p].who
      BY <1>0 DEF TypeOK, ProcessRecord
    <2>2. proc' = [proc EXCEPT ![p] = r]
      BY <1>1 DEF Exec
    <2> QED
      BY <1>1, <2>1, <2>2, EntryStep DEF Exec
  <1>2. ASSUME NEW p \in Pid, ExecFails(p) PROVE IInv'
    <2>1. EXEC_FAILED \in Statuses
      BY DEF Statuses
    <2>2. Zombie(EXEC_FAILED) \in ProcessRecord /\ Zombie(EXEC_FAILED).who = "child"
      BY <1>0, <2>1, EntryTypes
    <2> QED
      BY <1>2, <2>2, EntryStep DEF ExecFails, Running
  <1>3. ASSUME NEW p \in Pid, NEW code \in ExitCodes, Exit(p, code) PROVE IInv'
    <2>1. code \in Statuses
      BY DEF Statuses
    <2>2. Zombie(code) \in ProcessRecord /\ Zombie(code).who = "child"
      BY <1>0, <2>1, EntryTypes
    <2> QED
      BY <1>3, <2>2, EntryStep DEF Exit, Running
  <1>4. ASSUME NEW p \in Pid, Die(p) PROVE IInv'
    <2>1. KILLED \in Statuses
      BY DEF Statuses
    <2>2. Zombie(KILLED) \in ProcessRecord /\ Zombie(KILLED).who = "child"
      BY <1>0, <2>1, EntryTypes
    <2> QED
      BY <1>4, <2>2, EntryStep DEF Die
  <1>5. ASSUME NEW p \in Pid, Stranger(p) PROVE IInv'
    <2> DEFINE r == IF proc[p].who = "nobody" THEN [Absent EXCEPT !.who = "stranger"]
                                              ELSE Absent
    <2>1. r \in ProcessRecord /\ r.who # "child"
      BY DEF ProcessRecord, Absent, Statuses
    <2>2. proc' = [proc EXCEPT ![p] = r] /\ proc[p].who # "child"
      BY <1>5 DEF Stranger
    <2> QED
      BY <1>5, <2>1, <2>2, EntryStep DEF Stranger
  <1> QED
    BY <1>1, <1>2, <1>3, <1>4, <1>5 DEF Kernel
-----------------------------------------------------------------------------
LEMMA SpawnStep ==
  ASSUME IInv, SpawnFails \/ \E p \in Pid : Spawn(p)
  PROVE  IInv'
  <1>1. CASE SpawnFails
    BY <1>1, TableStep DEF SpawnFails, Returns, kernel, caller, IInv, TypeOK, Statuses, KILLED
  <1>2. ASSUME NEW p \in Pid, Spawn(p) PROVE IInv'
    <2>1. Forked \in ProcessRecord /\ Forked.who = "child"
      BY DEF Forked, Absent, ProcessRecord, Statuses
    <2>2. proc' \in [Pid -> ProcessRecord]
      BY <1>2, <2>1 DEF Spawn, IInv, TypeOK
    <2>3. Children' = Children \cup {p}
      BY <1>2, <2>1 DEF Spawn, IInv, TypeOK, Children
    <2>4. Reaping = {} /\ Reaping' = {}
      BY <1>2 DEF Spawn, Idle, Reaping, waiting
    <2>5. ChildrenKnown'
      BY <1>2, <2>3, <2>4 DEF Spawn, Idle, IInv, ChildrenKnown, Children, waiting
    <2>6. TypeOK'
      BY <1>2, <2>2 DEF Spawn, Returns, IInv, TypeOK, waiting, Statuses, KILLED
    <2>7. DoneInTime'
      BY <1>2 DEF Spawn, IInv, DoneInTime, waiting
    <2> QED
      BY <2>5, <2>6, <2>7 DEF IInv
  <1> QED
    BY <1>1, <1>2

LEMMA SignalStep ==
  ASSUME IInv, NEW op \in {"terminate", "suspend", "resume", "send_signal"},
         NEW pid \in Pid \cup {0, SELF}, Signal(op, pid)
  PROVE  IInv'
  <1>0. TypeOK
    BY DEF IInv
  <1>1. \A ret \in {0, -1} : Returns(op, pid, ret, 0) =>
          /\ result'.pid \in Pid \cup {0, SELF, NULL} /\ result'.ret \in {-2, -1, 0, 1}
          /\ result'.code \in (Statuses \ {KILLED}) \cup {-1}
    BY DEF Returns, Statuses, KILLED
  <1>2. UNCHANGED <<known, waiting>> /\ careless' \in BOOLEAN
    BY DEF Signal
  <1>3. CASE SelfRefused(op, pid)
    BY <1>0, <1>1, <1>2, <1>3, TableStep DEF SelfRefused, kernel, TypeOK
  <1>4. ASSUME NEW sig \in Sigs(op), KillGroup(op, pid, sig)
        PROVE  IInv'
    <2>0. sig \in {"term", "kill", "stop", "cont"} /\ 0 \in Statuses
      BY DEF Sigs, Statuses
    <2>1. \A p \in Pid : /\ Signalled(proc[p], sig) \in ProcessRecord
                         /\ Signalled(proc[p], sig).who = proc[p].who
                         /\ proc[p] \in ProcessRecord
      BY <1>0, <2>0, EntryTypes
    <2>2. proc' \in [Pid -> ProcessRecord]
      BY <1>4, <2>1 DEF KillGroup
    <2>3. \A p \in Pid : proc'[p].who = "child" <=> proc[p].who = "child"
      BY <1>4, <2>1 DEF KillGroup
    <2>4. self' \in {"run", "stop", "dead"} /\ hit' \in BOOLEAN
      BY <1>4, <1>0, <2>0 DEF KillGroup, Fate, TypeOK
    <2>5. Returns(op, pid, 0, 0)
      BY <1>4 DEF KillGroup
    <2> QED
      BY <1>1, <1>2, <2>2, <2>3, <2>4, <2>5, TableStep
  <1>5. ASSUME NEW sig \in Sigs(op), KillSelf(op, pid, sig)
        PROVE  IInv'
    <2>1. self' \in {"run", "stop", "dead"}
      BY <1>5 DEF KillSelf, Fate, Sigs
    <2> QED
      BY <1>0, <1>1, <1>2, <1>5, <2>1, TableStep DEF KillSelf, TypeOK
  <1>6. ASSUME NEW sig \in Sigs(op), Kill(op, pid, sig)
        PROVE  IInv'
    <2>0. sig \in {"term", "kill", "stop", "cont"} /\ 0 \in Statuses
      BY DEF Sigs, Statuses
    <2>1. CASE UNCHANGED kernel /\ hit' \in BOOLEAN
               /\ \E ret \in {0, -1} : Returns(op, pid, ret, 0)
      <3>1. /\ result'.pid \in Pid \cup {0, SELF, NULL} /\ result'.ret \in {-2, -1, 0, 1}
            /\ result'.code \in (Statuses \ {KILLED}) \cup {-1}
        BY <2>1, <1>1
      <3> QED
        BY <1>0, <1>2, <2>1, <3>1, TableStep DEF kernel, TypeOK
    <2>2. CASE /\ proc' = [proc EXCEPT ![pid] = Signalled(@, sig)]
               /\ pid \in Pid /\ Returns(op, pid, 0, 0) /\ UNCHANGED <<self, hit>>
      <3>1. Signalled(proc[pid], sig) \in ProcessRecord
            /\ Signalled(proc[pid], sig).who = proc[pid].who
        BY <1>0, <2>0, <2>2, EntryTypes
      <3>2. proc' \in [Pid -> ProcessRecord]
            /\ \A p \in Pid : proc'[p].who = "child" <=> proc[p].who = "child"
        BY <1>0, <2>2, <3>1 DEF TypeOK
      <3> QED
        BY <1>0, <1>1, <1>2, <2>2, <3>2, TableStep DEF TypeOK
    <2> QED
      BY <1>0, <1>6, <2>1, <2>2 DEF Kill, TypeOK, kernel
  <1> QED
    BY <1>3, <1>4, <1>5, <1>6 DEF Signal

\* The calls that change the last result only.
LEMMA QueryStep ==
  ASSUME IInv,
         WaitZero \/ \E pid \in Pid \cup {0, SELF} : Exists(pid)
  PROVE  IInv'
  <1>1. /\ UNCHANGED <<kernel, caller, waiting>>
        /\ result'.pid \in Pid \cup {0, SELF, NULL} /\ result'.ret \in {-2, -1, 0, 1}
        /\ result'.code \in (Statuses \ {KILLED}) \cup {-1}
    BY DEF WaitZero, Exists, Returns, Statuses, KILLED
  <1> QED
    BY <1>1, TableStep DEF IInv, TypeOK, kernel, caller
-----------------------------------------------------------------------------
LEMMA WaitCallStep ==
  ASSUME IInv, NEW p \in Pid, NEW t \in Timeouts, WaitCall(p, t)
  PROVE  IInv'
  <1>1. Reaping = {} /\ Reaping' = {}
    BY DEF WaitCall, Idle, Reaping
  <1>2. ChildrenKnown'
    BY <1>1 DEF WaitCall, IInv, ChildrenKnown, kernel, caller
  <1>3. TypeOK'
    BY ProcessAssumption DEF WaitCall, Returns, IInv, TypeOK, kernel, caller, Statuses, KILLED
  <1>4. DoneInTime'
    BY DEF WaitCall, DoneInTime
  <1> QED
    BY <1>2, <1>3, <1>4 DEF IInv

\* waitpid takes a dead child out of the table while its wait is still under way.
LEMMA ReapStep ==
  ASSUME IInv, wpc \in {"forever", "loop"}, Reap,
         timeout < 0 \/ waited < timeout,
         UNCHANGED <<timeout, waited, slept, owed, result>>
  PROVE  IInv'
  <1>0. TypeOK
    BY DEF IInv
  <1>1. wpid \in Pid
    BY DEF IInv, DoneInTime
  <1>2. Absent \in ProcessRecord /\ Absent.who # "child"
    BY DEF Absent, ProcessRecord, Statuses
  <1>3. proc[wpid] \in ProcessRecord
    BY <1>0, <1>1 DEF TypeOK
  <1>4. Children' = Children \ {wpid} /\ wpid \in Children
    BY <1>0, <1>1, <1>2 DEF Reap, Children, TypeOK
  <1>5. Reaping = {} /\ Reaping' = {wpid}
    BY DEF Reap, Reaping
  <1>6. ChildrenKnown'
    BY <1>4, <1>5 DEF Reap, caller, IInv, ChildrenKnown, Children
  <1>7. TypeOK'
    BY <1>0, <1>1, <1>2, <1>3 DEF Reap, caller, TypeOK, ProcessRecord
  <1>8. DoneInTime'
    BY <1>1 DEF Reap, DoneInTime
  <1> QED
    BY <1>6, <1>7, <1>8 DEF IInv

\* A wait that is refused or gives up tells the caller nothing new about the child.
LEMMA GiveUpStep ==
  ASSUME IInv, wpc \in {"forever", "loop"}, NEW ret \in {-1, -2}, WaitEnds(ret, 0),
         UNCHANGED known
  PROVE  IInv'
  <1>1. wpid \in Pid
    BY DEF IInv, DoneInTime
  <1>2. TypeOK'
    BY <1>1, ProcessAssumption
    DEF IInv, TypeOK, WaitEnds, Returns, kernel, Statuses, KILLED
  <1>3. Reaping = {} /\ Reaping' = {}
    BY DEF WaitEnds, Reaping
  <1>4. ChildrenKnown'
    BY <1>3 DEF WaitEnds, IInv, ChildrenKnown, kernel
  <1> QED
    BY <1>2, <1>4 DEF IInv, DoneInTime, WaitEnds

LEMMA WaitStepsStep ==
  ASSUME IInv, WaitSteps \/ WaitInterrupted
  PROVE  IInv'
  <1>0. TypeOK /\ DoneInTime
    BY DEF IInv
  <1>1. CASE WaitForever
    <2>1. CASE Reap /\ UNCHANGED <<timeout, waited, slept, owed, result>>
      BY <1>0, <1>1, <2>1, ReapStep DEF WaitForever, DoneInTime
    <2>2. CASE WaitFails
      BY <1>1, <2>2, GiveUpStep DEF WaitForever, WaitFails
    <2> QED
      BY <1>1, <2>1, <2>2 DEF WaitForever
  <1>2. CASE WaitPoll
    <2>1. CASE Reap /\ UNCHANGED <<timeout, waited, slept, owed, result>>
      BY <1>2, <2>1, ReapStep DEF WaitPoll
    <2>2. CASE wpc' = "nap" /\ UNCHANGED <<kernel, caller, wpid, timeout, waited, status,
                                           slept, owed, result>>
      <3>1. Reaping = {} /\ Reaping' = {}
        BY <1>2, <2>2 DEF WaitPoll, Reaping
      <3>2. ChildrenKnown'
        BY <1>2, <2>2, <3>1 DEF WaitPoll, IInv, ChildrenKnown, kernel, caller
      <3>3. TypeOK' /\ DoneInTime'
        BY <1>0, <1>2, <2>2 DEF WaitPoll, TypeOK, DoneInTime, kernel, caller
      <3> QED
        BY <3>2, <3>3 DEF IInv
    <2>3. CASE WaitFails
      BY <1>2, <2>3, GiveUpStep DEF WaitPoll, WaitFails
    <2> QED
      BY <1>2, <2>1, <2>2, <2>3 DEF WaitPoll
  <1>3. CASE WaitNap
    <2>1. Wrap(waited + INTERVAL) \in Int
      BY <1>0, ProcessAssumption DEF TypeOK, Wrap
    <2>2. slept' \in 0 .. MAX_SLEPT /\ owed' \in 0 .. MAX_OWED
      BY <1>0, <1>3, ProcessAssumption DEF WaitNap, Nap, TypeOK, Later
    <2>3. TypeOK' /\ DoneInTime'
      BY <1>0, <1>3, <2>1, <2>2 DEF WaitNap, Nap, TypeOK, DoneInTime, kernel, caller
    <2>4. Reaping = {} /\ Reaping' = {}
      BY <1>3 DEF WaitNap, Nap, Reaping
    <2>5. ChildrenKnown'
      BY <1>3, <2>4 DEF WaitNap, Nap, IInv, ChildrenKnown, kernel, caller
    <2> QED
      BY <2>3, <2>5 DEF IInv
  <1>4. CASE WaitTimedOut
    <2>1. waited \in Int /\ timeout \in Int
      BY <1>0, ProcessAssumption DEF TypeOK
    <2>2. timeout >= 0 /\ waited >= timeout
      BY <1>4 DEF WaitTimedOut
    <2>3. wpc # "done"
      BY <1>0, <2>1, <2>2 DEF DoneInTime
    <2> QED
      BY <1>4, <2>3, GiveUpStep DEF WaitTimedOut
  <1>5. CASE WaitReported
    <2>1. wpid \in Pid /\ Reaping = {wpid} /\ Reaping' = {}
      BY <1>0, <1>5 DEF WaitReported, WaitEnds, DoneInTime, Reaping
    <2>2. ExitCode(status) \in (Statuses \ {KILLED}) \cup {-1}
      BY <1>0 DEF ExitCode, TypeOK, Statuses, KILLED
    <2>3. TypeOK' /\ DoneInTime'
      <3>1. 0 \in 0 .. MAX_SLEPT /\ 0 \in 0 .. MAX_OWED /\ 0 \in Statuses
        BY ProcessAssumption DEF Statuses
      <3> QED
        BY <1>0, <1>5, <2>1, <2>2, <3>1
        DEF WaitReported, WaitEnds, Returns, TypeOK, DoneInTime, kernel
    <2>4. ChildrenKnown'
      BY <1>5, <2>1 DEF WaitReported, WaitEnds, IInv, ChildrenKnown, kernel
    <2> QED
      BY <2>3, <2>4 DEF IInv
  <1>6. CASE WaitInterrupted
    BY <1>6, GiveUpStep DEF WaitInterrupted, WaitFails
  <1> QED
    BY <1>1, <1>2, <1>3, <1>4, <1>5, <1>6 DEF WaitSteps

LEMMA InvNext == IInv /\ [Next]_vars => IInv'
  <1> SUFFICES ASSUME IInv, [Next]_vars PROVE IInv'
    OBVIOUS
  <1>1. CASE UNCHANGED vars
    BY <1>1, TableStep DEF vars, kernel, caller, IInv, TypeOK
  <1>2. CASE Next
    BY <1>2, KernelStep, SpawnStep, SignalStep, QueryStep, WaitCallStep, WaitStepsStep
    DEF Next
  <1> QED
    BY <1>1, <1>2

LEMMA InvAlways == Spec => []IInv
  BY InvInit, InvNext, PTL DEF Spec

\* The variables keep their types, for any processes, exit codes and timeouts.
THEOREM TypeCorrect == Spec => []TypeOK
  BY InvAlways, PTL DEF IInv

\* What spawn has returned and wait has not reported is exactly what waitpid can still
\* find: no timed wait loses an exit status, and no child is forgotten.
THEOREM ChildrenCorrect == Spec => []ChildrenKnown
  BY InvAlways, PTL DEF IInv

\* A caller that keeps to its own pids never signals a process that reused one of them.
THEOREM SignalsCorrect == Spec => []NoStrangerHit
  <1>1. Init => NoStrangerHit
    BY DEF Init, NoStrangerHit
  <1>2. IInv /\ NoStrangerHit /\ [Next]_vars => NoStrangerHit'
    <2> SUFFICES ASSUME IInv, NoStrangerHit, [Next]_vars PROVE NoStrangerHit'
      OBVIOUS
    <2>1. ASSUME NEW op \in {"terminate", "suspend", "resume", "send_signal"},
                 NEW pid \in Pid \cup {0, SELF}, Signal(op, pid)
          PROVE  NoStrangerHit'
      <3>1. Reaping = {}
        BY <2>1 DEF Signal, Idle, Reaping
      <3>2. CASE pid \notin known
        BY <2>1, <3>2 DEF Signal, NoStrangerHit
      <3>3. CASE pid \in known
        <4>1. pid \in Pid /\ proc[pid].who = "child"
          BY <3>1, <3>3 DEF IInv, ChildrenKnown
        <4>2. hit' = hit /\ careless' = careless
          BY <2>1, <3>3, <4>1 DEF Signal, SelfRefused, Kill, KillGroup, KillSelf, IInv, TypeOK
        <4> QED
          BY <4>2 DEF NoStrangerHit
      <3> QED
        BY <3>2, <3>3
    <2>2. CASE UNCHANGED <<careless, hit>>
      BY <2>2 DEF NoStrangerHit
    <2>3. CASE Kernel
      BY <2>2, <2>3 DEF Kernel, Exec, ExecFails, Exit, Die, Stranger, caller
    <2>4. CASE WaitSteps \/ WaitInterrupted
      BY <2>2, <2>4 DEF WaitSteps, WaitInterrupted, WaitForever, WaitPoll, WaitFails, Reap,
                        WaitNap, Nap, WaitTimedOut, WaitReported, WaitEnds, caller
    <2>5. CASE UNCHANGED vars
      BY <2>2, <2>5 DEF vars, caller
    <2> QED
      BY <2>1, <2>2, <2>3, <2>4, <2>5
      DEF Next, SpawnFails, Spawn, Exists, WaitZero, WaitCall, caller
  <1> QED
    BY <1>1, <1>2, InvAlways, PTL DEF Spec
-----------------------------------------------------------------------------
\* While a wait is under way no more has been counted than was slept or taken by signals: the
\* counter may overflow, to a smaller number, and the clock may have reached its bound.
CountedSlept == wpc # "idle" => slept + owed >= waited \/ slept = MAX_SLEPT

LEMMA NapCounts ==
  ASSUME TypeOK, Nap, slept + owed >= waited \/ slept = MAX_SLEPT
  PROVE  slept' + owed' >= Wrap(waited + INTERVAL) \/ slept' = MAX_SLEPT
  <1>1. /\ waited \in Int /\ slept \in Nat /\ slept <= MAX_SLEPT /\ owed \in Nat
        /\ MAX_SLEPT \in Nat /\ INT_MAX \in Nat /\ INTERVAL \in Nat /\ INTERVAL >= 1
    BY ProcessAssumption DEF TypeOK
  <1>2. Wrap(waited + INTERVAL) <= waited + INTERVAL /\ Wrap(waited + INTERVAL) \in Int
    BY <1>1 DEF Wrap
  <1>3. CASE slept' = Later(slept) /\ owed' = owed
    BY <1>1, <1>2, <1>3 DEF Later
  <1>4. CASE owed' = owed + INTERVAL /\ slept' = slept
    BY <1>1, <1>2, <1>4
  <1> QED
    BY <1>3, <1>4 DEF Nap

LEMMA CountedInit == Init => CountedSlept
  BY DEF Init, CountedSlept

LEMMA CountedNext == IInv /\ CountedSlept /\ [Next]_vars => CountedSlept'
  <1> SUFFICES ASSUME IInv, CountedSlept, [Next]_vars PROVE CountedSlept'
    OBVIOUS
  <1>1. CASE UNCHANGED <<waited, slept, owed>> /\ (wpc = "idle" => wpc' = "idle")
    BY <1>1 DEF CountedSlept
  <1>2. CASE wpc' = "idle"
    BY <1>2 DEF CountedSlept
  <1>3. CASE Kernel
    BY <1>1, <1>3 DEF Kernel, Exec, ExecFails, Exit, Die, Stranger, waiting
  <1>4. ASSUME NEW p \in Pid, NEW t \in Timeouts, WaitCall(p, t)
        PROVE  CountedSlept'
    BY <1>4 DEF WaitCall, CountedSlept
  <1>5. CASE WaitNap
    BY <1>5, NapCounts DEF WaitNap, Nap, CountedSlept, IInv
  <1>6. CASE WaitForever \/ WaitPoll
    BY <1>1, <1>2, <1>6 DEF WaitForever, WaitPoll, WaitFails, WaitEnds, Reap
  <1>7. CASE WaitTimedOut \/ WaitReported \/ WaitInterrupted
    BY <1>2, <1>7 DEF WaitTimedOut, WaitReported, WaitInterrupted, WaitFails, WaitEnds
  <1>8. CASE UNCHANGED waiting
    BY <1>1, <1>8 DEF waiting
  <1> QED
    BY <1>3, <1>4, <1>5, <1>6, <1>7, <1>8
    DEF Next, WaitSteps, SpawnFails, Spawn, Signal, Exists, WaitZero, vars

\* No wait gives up before its time, less what signals took, whatever the timeout.
THEOREM TimeoutCorrect == Spec => TimeoutNotEarly
  <1>1. IInv /\ CountedSlept /\ [Next]_vars
          => [wpc # "idle" /\ wpc' = "idle" /\ result'.ret = -2 => slept + owed >= timeout]_vars
    <2> SUFFICES ASSUME IInv, CountedSlept, Next,
                        wpc # "idle", wpc' = "idle", result'.ret = -2
                 PROVE  slept + owed >= timeout
      OBVIOUS
    <2>1. WaitTimedOut
      <3>1. CASE Kernel
        BY <3>1 DEF Kernel, Exec, ExecFails, Exit, Die, Stranger, waiting
      <3>2. CASE WaitSteps \/ WaitInterrupted
        BY <3>2 DEF WaitSteps, WaitInterrupted, WaitForever, WaitPoll, WaitFails, WaitNap,
                    Nap, Reap, WaitReported, WaitEnds, Returns
      <3> QED
        BY <3>1, <3>2 DEF Next, SpawnFails, Spawn, Signal, Exists, WaitZero, WaitCall, Idle, waiting
    <2>2. slept + owed >= waited \/ slept = MAX_SLEPT
      BY DEF CountedSlept
    <2>3. timeout \in Int /\ timeout <= MAX_SLEPT /\ MAX_SLEPT \in Nat
      BY ProcessAssumption DEF IInv, TypeOK
    <2>4. waited >= timeout /\ waited \in Int /\ slept \in Nat /\ owed \in Nat
      BY <2>1, ProcessAssumption DEF WaitTimedOut, IInv, TypeOK
    <2> QED
      BY <2>2, <2>3, <2>4
  <1> QED
    BY <1>1, CountedInit, CountedNext, InvAlways, PTL DEF Spec, TimeoutNotEarly
-----------------------------------------------------------------------------
(* ProcessList *)

Reading == pc \in {"name", "stat", "statm", "status"}

\* The slot being filled is the caller's structure, or the last one that counts.
SlotRight == /\ single => slot = 1 /\ count = 0
             /\ ~single /\ count > 0 => slot = count
             /\ ~single /\ Reading => count > 0
             /\ pc = "readdir" => ~single

\* held are processes that had the pid of the slot; all of the call's are in lived.
HeldRight == /\ Reading => /\ Holders(table[slot].pid) \subseteq held
                           /\ held \subseteq lived
                           /\ \A x \in held : PidOf[x] = table[slot].pid
             /\ pc # "idle" => alive \subseteq lived

\* The list holds the pids readdir has returned, each once.
SeenRight == ~single => /\ Listed = seen
                        /\ \A i, j \in 1 .. count : table[i].pid = table[j].pid => i = j

Finished == answer.op = "list" /\ answer.ret = 0 =>
              ~single /\ pc = "idle" /\ (must \subseteq seen \/ count = MAX)

QueryInv == QueryTypeOK /\ SlotRight /\ HeldRight /\ FieldsOfHolder /\ SeenRight /\ Finished

LEMMA QueryInvInit == QueryInit => QueryInv
  <1> SUFFICES ASSUME QueryInit PROVE QueryInv
    OBVIOUS
  <1>1. NoEntry \in Entry
    BY DEF NoEntry, Entry
  <1>2. QueryTypeOK
    BY <1>1, ListAssumption DEF QueryInit, QueryTypeOK
  <1>3. 1 \in 1 .. MAX /\ table[1] = NoEntry
    BY ListAssumption DEF QueryInit
  <1>4. \A i \in Slots : Sources(table[i]) = {}
    <2>1. Sources(NoEntry) = {}
      BY DEF Sources, NoEntry
    <2> QED
      BY <1>3, <2>1 DEF QueryInit, Slots
  <1>5. FieldsOfHolder
    BY <1>4 DEF FieldsOfHolder
  <1> QED
    BY <1>2, <1>5 DEF QueryInit, QueryInv, SlotRight, HeldRight, Reading, SeenRight, Finished
-----------------------------------------------------------------------------
(* Entries *)

LEMMA ClearedTypes ==
  ASSUME NEW entry \in Entry, NEW p \in ProcPid
  PROVE  /\ Cleared(entry, p) \in Entry /\ Cleared(entry, p).pid = p
         /\ Sources(Cleared(entry, p)) = {}
  <1>1. /\ Cleared(entry, p) \in Entry /\ Cleared(entry, p).pid = p
        /\ Cleared(entry, p).from = [g \in Fields |-> UNKNOWN]
    BY DEF Cleared, NoEntry, Entry
  <1>2. Sources(Cleared(entry, p)) = {}
    BY <1>1 DEF Sources
  <1> QED
    BY <1>1, <1>2

LEMMA ReadTypes ==
  ASSUME NEW entry \in Entry, NEW f \in Fields, NEW x \in Proc \cup {UNKNOWN}
  PROVE  /\ [entry EXCEPT !.from[f] = x] \in Entry
         /\ [entry EXCEPT !.from[f] = x].pid = entry.pid
         /\ Sources([entry EXCEPT !.from[f] = x]) \subseteq Sources(entry) \cup ({x} \ {UNKNOWN})
  <1>1. /\ [entry EXCEPT !.from[f] = x] \in Entry
        /\ [entry EXCEPT !.from[f] = x].pid = entry.pid
        /\ [entry EXCEPT !.from[f] = x].from = [entry.from EXCEPT ![f] = x]
        /\ entry.from \in [Fields -> Proc \cup {UNKNOWN}]
    BY DEF Entry
  <1>2. Sources([entry EXCEPT !.from[f] = x]) \subseteq Sources(entry) \cup ({x} \ {UNKNOWN})
    <2>1. ASSUME NEW g \in Fields
          PROVE  [entry.from EXCEPT ![f] = x][g] \in {entry.from[g], x}
      BY <1>1
    <2> QED
      BY <2>1, <1>1 DEF Sources
  <1> QED
    BY <1>1, <1>2

LEMMA HoldersTypes ==
  ASSUME QueryTypeOK, NEW p
  PROVE  /\ Holders(p) \subseteq alive /\ Holders(p) \subseteq Proc
         /\ \A x \in Holders(p) : PidOf[x] = p
  BY DEF Holders, QueryTypeOK
-----------------------------------------------------------------------------
(* One lemma for each kind of step *)

LEMMA StartKeeps ==
  ASSUME QueryInv, NEW x \in Proc, Start(x)
  PROVE  QueryInv'
  <1>1. UNCHANGED <<pc, single, seen, must, table, count, slot, answer>>
    BY DEF Start
  <1>2. alive' = alive \cup {x} /\ UNCHANGED ended
    BY DEF Start
  <1>3. /\ lived \subseteq lived' /\ held \subseteq held'
        /\ lived' \subseteq lived \cup {x} /\ held' \subseteq held \cup {x}
        /\ may' \subseteq may \cup {PidOf[x]}
    BY DEF Start
  <1>4. QueryTypeOK'
    BY <1>1, <1>2, <1>3, ListAssumption DEF QueryInv, QueryTypeOK
  <1>5. SlotRight'
    BY <1>1 DEF QueryInv, SlotRight, Reading
  <1>6. HeldRight'
    <2>1. CASE pc = "idle"
      BY <1>1, <2>1 DEF HeldRight, Reading
    <2>2. CASE pc # "idle"
      <3>1. lived' = lived \cup {x} /\ held' = IF PidOf[x] = table[slot].pid THEN held \cup {x} ELSE held
        BY <2>2 DEF Start
      <3>2. ASSUME Reading
            PROVE  /\ Holders(table[slot].pid)' \subseteq held'
                   /\ held' \subseteq lived'
                   /\ \A y \in held' : PidOf[y] = table'[slot'].pid
        BY <1>1, <1>2, <3>1, <3>2 DEF QueryInv, HeldRight, Holders
      <3>3. alive' \subseteq lived'
        BY <2>2, <1>2, <3>1 DEF QueryInv, HeldRight
      <3> QED
        BY <1>1, <3>2, <3>3 DEF HeldRight, Reading
    <2> QED
      BY <2>1, <2>2
  <1>7. FieldsOfHolder'
    BY <1>1, <1>3 DEF QueryInv, FieldsOfHolder, Slots
  <1>8. SeenRight' /\ Finished'
    BY <1>1 DEF QueryInv, SeenRight, Listed, Finished
  <1> QED
    BY <1>4, <1>5, <1>6, <1>7, <1>8 DEF QueryInv

LEMMA EndKeeps ==
  ASSUME QueryInv, NEW x \in Proc, End(x)
  PROVE  QueryInv'
  <1>1. UNCHANGED <<pc, single, seen, may, lived, held, table, count, slot, answer>>
    BY DEF End
  <1>2. alive' = alive \ {x} /\ ended' = ended \cup {x} /\ must' \subseteq must
    BY DEF End
  <1>3. QueryTypeOK'
    BY <1>1, <1>2 DEF QueryInv, QueryTypeOK
  <1>4. SlotRight'
    BY <1>1 DEF QueryInv, SlotRight, Reading
  <1>5. HeldRight'
    BY <1>1, <1>2 DEF QueryInv, HeldRight, Reading, Holders
  <1>6. FieldsOfHolder'
    BY <1>1 DEF QueryInv, FieldsOfHolder, Slots
  <1>7. SeenRight' /\ Finished'
    BY <1>1, <1>2 DEF QueryInv, SeenRight, Listed, Finished
  <1> QED
    BY <1>3, <1>4, <1>5, <1>6, <1>7 DEF QueryInv

\* get_ppid, and a list whose /proc cannot be opened.
LEMMA NoEntriesKeeps ==
  ASSUME QueryInv, pc = "idle", NoEntries, UNCHANGED <<procs, pc, table>>,
         answer'.op = "list" => answer'.ret # 0
  PROVE  QueryInv'
  <1>1. 0 \in 0 .. MAX /\ 1 \in 1 .. MAX
    BY ListAssumption
  <1>2. QueryTypeOK'
    BY <1>1 DEF NoEntries, Forget, procs, QueryInv, QueryTypeOK
  <1>3. SlotRight' /\ HeldRight' /\ FieldsOfHolder'
    BY DEF NoEntries, Forget, SlotRight, HeldRight, Reading, FieldsOfHolder, Slots
  <1>4. SeenRight' /\ Finished'
    BY DEF NoEntries, Forget, SeenRight, Listed, Finished
  <1> QED
    BY <1>2, <1>3, <1>4 DEF QueryInv

\* A call to get_info by itself.
LEMMA InfoKeeps ==
  ASSUME QueryInv, NEW p \in ProcPid, InfoCall(p)
  PROVE  QueryInv'
  <1>1. /\ 1 \in 1 .. MAX /\ table[1] \in Entry
        /\ table' = [table EXCEPT ![1] = Cleared(@, p)] /\ slot' = 1
        /\ held' = Holders(p) /\ pc' = "name" /\ single' = TRUE /\ lived' = alive
        /\ answer'.op = "none" /\ count' = 0
        /\ seen' = {} /\ must' = {} /\ may' = {} /\ UNCHANGED <<alive, ended>>
    BY ListAssumption DEF InfoCall, Begin, Forget, procs, QueryInv, QueryTypeOK
  <1>2. table[1] \in Entry /\ "name" \in Fields /\ UNKNOWN \in Proc \cup {UNKNOWN}
    BY <1>1 DEF Fields
  <1>3. table'[1] = Cleared(table[1], p) /\ Cleared(table[1], p) \in Entry
        /\ Sources(Cleared(table[1], p)) = {} /\ Cleared(table[1], p).pid = p
    BY <1>1, <1>2, ClearedTypes DEF QueryInv, QueryTypeOK
  <1>4. Holders(p) \subseteq alive /\ Holders(p) \subseteq Proc /\ \A x \in Holders(p) : PidOf[x] = p
    BY HoldersTypes DEF QueryInv
  <1>5. QueryTypeOK'
    <2>1. table' \in [1 .. MAX -> Entry]
      BY <1>1, <1>3 DEF QueryInv, QueryTypeOK
    <2>2. 0 \in 0 .. MAX
      BY ListAssumption
    <2> QED
      BY <1>1, <1>4, <2>1, <2>2 DEF QueryInv, QueryTypeOK
  <1>6. SlotRight'
    BY <1>1 DEF SlotRight, Reading
  <1>7. HeldRight'
    <2>1. table'[slot'].pid = p /\ Holders(p)' = Holders(p)
      BY <1>1, <1>3 DEF Holders
    <2> QED
      BY <2>1, <1>1, <1>4 DEF HeldRight, Reading, Holders
  <1>8. FieldsOfHolder'
    BY <1>1, <1>3 DEF FieldsOfHolder, Slots
  <1> QED
    BY <1>1, <1>5, <1>6, <1>7, <1>8 DEF QueryInv, SeenRight, Finished

\* readdir returns a name, and get_info begins with the next slot.
LEMMA NextKeeps ==
  ASSUME QueryInv, NEW p \in ProcPid, ListNext(p)
  PROVE  QueryInv'
  <1>1. /\ pc = "readdir" /\ p \notin seen /\ count < MAX
        /\ table' = [table EXCEPT ![count + 1] = Cleared(@, p)] /\ slot' = count + 1
        /\ held' = Holders(p) /\ pc' = "name" /\ count' = count + 1 /\ seen' = seen \cup {p}
        /\ UNCHANGED <<alive, ended, single, must, may, lived, answer>>
    BY DEF ListNext, Begin, HasRoom, procs
  <1>2. /\ count \in Nat /\ MAX \in Nat /\ count + 1 \in 1 .. MAX /\ table[count + 1] \in Entry
    BY <1>1, ListAssumption DEF QueryInv, QueryTypeOK
  <1>3. ~single /\ alive \subseteq lived
    BY <1>1 DEF QueryInv, SlotRight, HeldRight
  <1>4. "name" \in Fields /\ UNKNOWN \in Proc \cup {UNKNOWN}
    BY DEF Fields
  <1>5. /\ table'[count + 1] = Cleared(table[count + 1], p) /\ Cleared(table[count + 1], p) \in Entry
        /\ Sources(Cleared(table[count + 1], p)) = {} /\ Cleared(table[count + 1], p).pid = p
    <2>1. table'[count + 1] = Cleared(table[count + 1], p)
      BY <1>1, <1>2 DEF QueryInv, QueryTypeOK
    <2> QED
      BY <1>2, <1>4, <2>1, ClearedTypes
  <1>6. \A i \in 1 .. count : i \in 1 .. MAX /\ i # count + 1 /\ table'[i] = table[i]
    BY <1>1, <1>2 DEF QueryInv, QueryTypeOK
  <1>7. Holders(p) \subseteq alive /\ Holders(p) \subseteq Proc /\ \A x \in Holders(p) : PidOf[x] = p
    BY HoldersTypes DEF QueryInv
  <1>8. QueryTypeOK'
    <2>1. table' \in [1 .. MAX -> Entry]
      BY <1>1, <1>5 DEF QueryInv, QueryTypeOK
    <2>2. count' \in 0 .. MAX /\ slot' \in 1 .. MAX
      BY <1>1, <1>2
    <2> QED
      BY <1>1, <1>7, <2>1, <2>2 DEF QueryInv, QueryTypeOK
  <1>9. SlotRight'
    BY <1>1, <1>2, <1>3 DEF SlotRight, Reading
  <1>10. HeldRight'
    <2>1. table'[slot'].pid = p /\ Holders(p)' = Holders(p)
      BY <1>1, <1>5 DEF Holders
    <2> QED
      BY <2>1, <1>1, <1>3, <1>7 DEF HeldRight, Reading, Holders
  <1>11. FieldsOfHolder'
    <2>1. \A i \in 1 .. count + 1 : i = count + 1 \/ i \in 1 .. count
      BY <1>2
    <2>2. \A i \in 1 .. count : \A x \in Sources(table[i]) : x \in lived /\ PidOf[x] = table[i].pid
      BY <1>3 DEF QueryInv, FieldsOfHolder, Slots
    <2> QED
      BY <1>1, <1>3, <1>5, <1>6, <2>1, <2>2 DEF FieldsOfHolder, Slots
  <1>12. SeenRight'
    <2>1. \A i \in 1 .. count + 1 : i = count + 1 \/ i \in 1 .. count
      BY <1>2
    <2>2. /\ seen = {table[i].pid : i \in 1 .. count}
          /\ \A i, j \in 1 .. count : table[i].pid = table[j].pid => i = j
      BY <1>3 DEF QueryInv, SeenRight, Listed
    <2>3. \A i \in 1 .. count : i \in 1 .. count + 1 /\ table'[i].pid = table[i].pid /\ table[i].pid # p
      BY <1>1, <1>2, <1>6, <2>2
    <2>4. count + 1 \in 1 .. count + 1 /\ table'[count + 1].pid = p
      BY <1>2, <1>5
    <2>5. {table'[i].pid : i \in 1 .. count + 1} = seen \cup {p}
      BY <2>1, <2>2, <2>3, <2>4
    <2>6. ASSUME NEW i \in 1 .. count + 1, NEW j \in 1 .. count + 1, table'[i].pid = table'[j].pid
          PROVE  i = j
      BY <2>1, <2>2, <2>3, <2>4, <2>6
    <2> QED
      BY <1>1, <2>5, <2>6 DEF SeenRight, Listed
  <1>13. Finished'
    BY <1>1 DEF QueryInv, Finished
  <1> QED
    BY <1>8, <1>9, <1>10, <1>11, <1>12, <1>13 DEF QueryInv

\* One of the four files is read.
LEMMA ReadKeeps ==
  ASSUME QueryInv, NEW at \in {"name", "stat", "statm", "status"}, NEW field \in Fields,
         NEW next \in {"stat", "statm", "status", "idle", "readdir"},
         next = "readdir" => ~single,
         Read(at, field, next), UNCHANGED answer \/ answer'.op # "list"
  PROVE  QueryInv'
  <1>1. PICK x \in Answering(table[slot].pid) : table' = [table EXCEPT ![slot].from[field] = x]
    BY DEF Read
  <1>2. /\ pc = at /\ pc' = next /\ Reading
        /\ UNCHANGED <<alive, ended, single, seen, must, may, lived, held, count, slot>>
    BY DEF Read, Reading, procs, dir
  <1>3. slot \in 1 .. MAX /\ table[slot] \in Entry /\ count \in Nat
    BY ListAssumption DEF QueryInv, QueryTypeOK
  <1>4. /\ table'[slot] = [table[slot] EXCEPT !.from[field] = x]
        /\ \A i \in 1 .. MAX \ {slot} : table'[i] = table[i]
    BY <1>1, <1>3 DEF QueryInv, QueryTypeOK
  <1>5. /\ Holders(table[slot].pid) \subseteq held /\ held \subseteq lived
        /\ \A y \in held : PidOf[y] = table[slot].pid
    BY <1>2 DEF QueryInv, HeldRight
  <1>6. x \in held \cup {UNKNOWN} /\ x \in Proc \cup {UNKNOWN}
    <2>1. x \in Holders(table[slot].pid) \cup {UNKNOWN}
      BY <1>1 DEF Answering
    <2>2. held \subseteq Proc
      BY DEF QueryInv, QueryTypeOK
    <2> QED
      BY <2>1, <2>2, <1>5
  <1>7. /\ table'[slot] \in Entry /\ table'[slot].pid = table[slot].pid
        /\ Sources(table'[slot]) \subseteq Sources(table[slot]) \cup ({x} \ {UNKNOWN})
    BY <1>3, <1>4, <1>6, ReadTypes
  <1>8. QueryTypeOK'
    <2>1. table' \in [1 .. MAX -> Entry]
      BY <1>1, <1>3, <1>4, <1>7 DEF QueryInv, QueryTypeOK
    <2> QED
      BY <1>2, <2>1 DEF QueryInv, QueryTypeOK
  <1>9. SlotRight'
    BY <1>2 DEF QueryInv, SlotRight, Reading
  <1>10. HeldRight'
    BY <1>2, <1>5, <1>7 DEF QueryInv, HeldRight, Reading, Holders
  <1>11. FieldsOfHolder'
    <2>1. slot \in Slots
      BY <1>2, <1>3 DEF QueryInv, SlotRight, Slots
    <2>2. Sources(table[slot]) \subseteq held
      BY <2>1 DEF QueryInv, FieldsOfHolder
    <2>3. Sources(table'[slot]) \subseteq held
      BY <1>6, <1>7, <2>2
    <2>4. ASSUME NEW i \in Slots, NEW y \in Sources(table'[i])
          PROVE  y \in lived /\ PidOf[y] = table'[i].pid
      <3>1. CASE i = slot
        BY <2>3, <2>4, <3>1, <1>5, <1>7
      <3>2. CASE i # slot
        <4>1. i \in 1 .. MAX
          BY <2>4, ListAssumption DEF Slots, QueryInv, QueryTypeOK
        <4>2. table'[i] = table[i]
          BY <4>1, <3>2, <1>4
        <4> QED
          BY <4>2, <2>4 DEF QueryInv, FieldsOfHolder
      <3> QED
        BY <3>1, <3>2
    <2>5. Slots' = Slots
      BY <1>2 DEF Slots
    <2> QED
      BY <1>2, <2>3, <2>4, <2>5 DEF FieldsOfHolder
  <1>12. SeenRight'
    <2>1. \A i \in 1 .. count : table'[i].pid = table[i].pid
      <3>1. \A i \in 1 .. count : i \in 1 .. MAX
        BY ListAssumption DEF QueryInv, QueryTypeOK
      <3> QED
        BY <3>1, <1>4, <1>7
    <2> QED
      BY <1>2, <2>1 DEF QueryInv, SeenRight, Listed
  <1>13. Finished'
    BY <1>2 DEF QueryInv, Finished, Reading
  <1> QED
    BY <1>8, <1>9, <1>10, <1>11, <1>12, <1>13 DEF QueryInv

\* The list is begun, fails to begin, or ends.
LEMMA ListKeeps ==
  ASSUME QueryInv, ListCall \/ OpendirFails \/ ListFull \/ ListEnd
  PROVE  QueryInv'
  <1>1. 0 \in 0 .. MAX /\ 1 \in 1 .. MAX /\ MAX \in Nat
    BY ListAssumption
  <1>2. CASE ListCall
    <2>1. /\ pc' = "readdir" /\ single' = FALSE /\ seen' = {} /\ must' = Pids(alive) /\ may' = Pids(alive)
          /\ lived' = alive /\ held' = {} /\ slot' = 1 /\ count' = 0 /\ answer'.op = "none"
          /\ UNCHANGED <<alive, ended, table>>
      BY <1>2 DEF ListCall, Opens, procs
    <2>2. Pids(alive) \subseteq ProcPid
      BY ListAssumption DEF Pids, QueryInv, QueryTypeOK
    <2>3. QueryTypeOK'
      BY <1>1, <2>1, <2>2 DEF QueryInv, QueryTypeOK
    <2> QED
      BY <2>1, <2>3 DEF QueryInv, SlotRight, HeldRight, Reading, FieldsOfHolder, Slots, SeenRight, Listed, Finished
  <1>3. CASE OpendirFails
    BY <1>3, NoEntriesKeeps DEF OpendirFails
  <1>4. CASE ListFull \/ ListEnd
    <2>1. /\ pc = "readdir" /\ pc' = "idle"
          /\ UNCHANGED <<alive, ended, single, seen, must, may, lived, held, table, count, slot>>
      BY <1>4 DEF ListFull, ListEnd, ListReturns, procs, dir
    <2>2. must \subseteq seen \/ count = MAX
      BY <1>1, <1>4 DEF ListFull, ListEnd, HasRoom, QueryInv, QueryTypeOK
    <2>3. QueryTypeOK'
      BY <2>1 DEF QueryInv, QueryTypeOK
    <2>4. SlotRight' /\ HeldRight'
      BY <2>1 DEF QueryInv, SlotRight, HeldRight, Reading
    <2>5. FieldsOfHolder' /\ SeenRight'
      BY <2>1 DEF QueryInv, FieldsOfHolder, SeenRight, Slots, Listed
    <2>6. Finished'
      BY <2>1, <2>2 DEF QueryInv, SlotRight, Finished
    <2> QED
      BY <2>3, <2>4, <2>5, <2>6 DEF QueryInv
  <1> QED
    BY <1>2, <1>3, <1>4
-----------------------------------------------------------------------------
LEMMA QueryInvNext == QueryInv /\ [QueryNext]_queryVars => QueryInv'
  <1> SUFFICES ASSUME QueryInv, [QueryNext]_queryVars PROVE QueryInv'
    OBVIOUS
  <1>1. CASE UNCHANGED queryVars
    <2>1. QueryTypeOK' /\ SlotRight' /\ HeldRight'
      BY <1>1 DEF queryVars, procs, dir, QueryInv, QueryTypeOK, SlotRight, HeldRight, Reading, Holders
    <2>2. FieldsOfHolder' /\ SeenRight' /\ Finished'
      BY <1>1 DEF queryVars, procs, dir, QueryInv, FieldsOfHolder, SeenRight, Finished, Slots, Listed
    <2> QED
      BY <2>1, <2>2 DEF QueryInv
  <1>2. CASE \E x \in Proc : Start(x) \/ End(x)
    BY <1>2, StartKeeps, EndKeeps
  <1>3. CASE \E p \in ProcPid : InfoCall(p) \/ fossil_sys_process_get_ppid(p) \/ ListNext(p)
    BY <1>3, InfoKeeps, NoEntriesKeeps, NextKeeps DEF fossil_sys_process_get_ppid
  <1>4. CASE ReadName
    BY <1>4, ReadKeeps DEF ReadName, Fields
  <1>5. CASE ReadStat
    BY <1>5, ReadKeeps DEF ReadStat, Fields
  <1>6. CASE ReadStatm
    BY <1>6, ReadKeeps DEF ReadStatm, Fields
  <1>7. CASE ReadStatus
    <2>1. UNCHANGED answer \/ answer'.op # "list"
      BY <1>7 DEF ReadStatus
    <2>2. CASE single
      BY <1>7, <2>1, <2>2, ReadKeeps DEF ReadStatus, Fields
    <2>3. CASE ~single
      BY <1>7, <2>1, <2>3, ReadKeeps DEF ReadStatus, Fields
    <2> QED
      BY <2>2, <2>3
  <1>8. CASE ListCall \/ OpendirFails \/ ListFull \/ ListEnd
    BY <1>8, ListKeeps
  <1> QED
    BY <1>1, <1>2, <1>3, <1>4, <1>5, <1>6, <1>7, <1>8 DEF QueryNext

LEMMA QueryInvAlways == QuerySpec => []QueryInv
  BY QueryInvInit, QueryInvNext, PTL DEF QuerySpec

\* The variables keep their types: the list never leaves the table.
THEOREM QueryTypeCorrect == QuerySpec => []QueryTypeOK
  <1>1. QueryInv => QueryTypeOK
    BY DEF QueryInv
  <1> QED
    BY QueryInvAlways, <1>1, PTL

\* No pid is listed twice, and a list that returns 0 has every process that was there all
\* the time or is full, whatever starts and ends meanwhile.
THEOREM ListCorrect == QuerySpec => []ListComplete
  <1>1. QueryInv => ListComplete
    BY DEF QueryInv, SeenRight, Finished, ListComplete
  <1> QED
    BY QueryInvAlways, <1>1, PTL

\* Every field of an entry was read from a process that had its pid during the call.
THEOREM FieldsCorrect == QuerySpec => []FieldsOfHolder
  <1>1. QueryInv => FieldsOfHolder
    BY DEF QueryInv
  <1> QED
    BY QueryInvAlways, <1>1, PTL
=============================================================================

------------------------------ MODULE EventWait ------------------------------
(***************************************************************************)
(* fossil_sys_event_wait spinning in one thread while another posts, at    *)
(* the grain of event.c's accesses to the static array and counter.  There *)
(* is no lock and no atomic, so increments and decrements can be lost, and *)
(* a build may go on using a counter it has read before instead of reading *)
(* it again (the calls in between cannot change a static variable).  The   *)
(* module asks what is left of the queue then: that indices stay inside    *)
(* the array, that nothing is delivered that was never posted, and that a  *)
(* wait ends, in time.  Payload ownership is EventQueue's.                 *)
(***************************************************************************)
EXTENDS Integers, EventSlots

CONSTANTS Timeouts,       \* the values of timeout_ms passed to wait
          MULT,           \* 1000: (now - start) * 1000 / CLOCKS_PER_SEC ...
          CLOCKS_PER_SEC,
          CLOCK_MOD,      \* ... computed in clock_t, 2^64 or 2^32 values ...
          UINT32_MOD,     \* ... and cast to uint32_t
          MAX_CPU         \* bound: ticks of clock() during one wait

ASSUME WaitAssumption ==
  /\ Timeouts \subseteq Nat
  /\ MULT \in Nat \ {0} /\ CLOCKS_PER_SEC \in Nat \ {0}
  /\ CLOCK_MOD \in Nat \ {0} /\ UINT32_MOD \in Nat \ {0} /\ MAX_CPU \in Nat

VARIABLES poster,      \* the posting thread's program counter ...
          post_at,     \* ... the slot it writes, and the counter it last read
          post_load,
          stores,      \* ... and whether they have been seen in order so far
          waiter,      \* the waiting thread's program counter ...
          wait_load,   \* ... the counter it last read
          timeout,     \* its timeout_ms
          cpu,         \* clock() ticks since the wait began
          out,         \* *out_event
          outcome      \* how the last wait ended

postVars == <<poster, post_at, post_load, stores>>
waitVars == <<waiter, wait_load, timeout, cpu, out, outcome>>
raceVars == <<event_queue, event_count, postVars, waitVars>>

RaceInit == /\ event_queue = [i \in Slots |-> NULL]
            /\ event_count = 0
            /\ poster = "idle" /\ post_at = 0 /\ post_load = 0
            /\ stores = "ordered"
            /\ waiter = "idle" /\ wait_load = 0
            /\ timeout = 0 /\ cpu = 0
            /\ out = NULL /\ outcome = "none"
-----------------------------------------------------------------------------
(* fossil_sys_event_post *)

\* Slips for the mutation runs: a full test off by one, a counter moved before
\* the slot is filled, ...
PostCheckLate == /\ poster = "idle"
                 /\ event_count <= MAX_EVENTS
                 /\ post_load' = event_count
                 /\ poster' = "slot"
                 /\ UNCHANGED <<event_queue, event_count, post_at, stores, waitVars>>

\* A full queue is refused without a change.
PostCheck == /\ poster = "idle"
             /\ event_count < MAX_EVENTS
             /\ post_load' = event_count
             /\ poster' = "slot"
             /\ UNCHANGED <<event_queue, event_count, post_at, stores, waitVars>>

PostSlotCountsFirst == /\ poster = "slot"
                       /\ \E n \in {event_count, post_load} : post_at' = n /\ post_load' = n
                       /\ poster' = "early_load"
                       /\ UNCHANGED <<event_queue, event_count, stores, waitVars>>

\* &event_queue[event_count].  Where stores can overtake one another the new
\* counter may be seen before the slot's fields.
PostSlot == /\ poster = "slot"
            /\ \E n \in {event_count, post_load} : post_at' = n /\ post_load' = n
            /\ \/ poster' = "write" /\ UNCHANGED stores
               \/ poster' = "early_load" /\ stores' = "reordered"
            /\ UNCHANGED <<event_queue, event_count, waitVars>>

PostWrite == /\ poster \in {"write", "late_write"}
             /\ \E id \in Id : event_queue' = [event_queue EXCEPT ![post_at] = id]
             /\ \/ poster = "write" /\ poster' = "load"
                \/ poster' = "idle"         \* no memory: -1; or the end of the post
             /\ UNCHANGED <<event_count, post_at, post_load, stores, waitVars>>

PostLoad == /\ poster \in {"load", "early_load"}
            /\ \E n \in {event_count, post_load} : post_load' = n
            /\ poster' = IF poster = "load" THEN "store" ELSE "early_store"
            /\ UNCHANGED <<event_queue, event_count, post_at, stores, waitVars>>

PostStore == /\ poster \in {"store", "early_store"}
             /\ event_count' = post_load + 1
             /\ poster' = IF poster = "store" THEN "idle" ELSE "late_write"
             /\ UNCHANGED <<event_queue, post_at, post_load, stores, waitVars>>

Post == PostCheck \/ PostSlot \/ PostWrite \/ PostLoad \/ PostStore
-----------------------------------------------------------------------------
(* fossil_sys_event_wait and the poll it ends with *)

WaitCall(t) == /\ waiter = "idle"
               /\ waiter' = "spin"
               /\ timeout' = t
               /\ cpu' = 0
               /\ outcome' = "none"
               /\ UNCHANGED <<event_queue, event_count, postVars, wait_load, out>>

\* The loop condition finds an event.
WaitSeen == /\ waiter = "spin"
            /\ event_count # 0
            /\ wait_load' = event_count
            /\ waiter' = "poll"
            /\ UNCHANGED <<event_queue, event_count, postVars, timeout, cpu, out,
                           outcome>>

\* ... the start time taken inside the loop, a difference in seconds, ...
ElapsedRestarted(ticks) == 0
ElapsedRounded(ticks) == ((ticks + CLOCKS_PER_SEC - 1) \div CLOCKS_PER_SEC) * MULT

\* (now - start) * 1000 in clock_t, the quotient truncated towards zero, as uint32_t.
Signed(x) == LET m == x % CLOCK_MOD
             IN  IF 2 * m >= CLOCK_MOD THEN m - CLOCK_MOD ELSE m
Quotient(x) == IF x >= 0 THEN x \div CLOCKS_PER_SEC ELSE -((-x) \div CLOCKS_PER_SEC)
ElapsedMs(ticks) == Quotient(Signed(ticks * MULT)) % UINT32_MOD

\* The loop body, entered because the counter was zero, now or when it was read
\* last: the clock is read, and the call gives up or goes round again.
WaitSpin(now) == /\ waiter = "spin"
                 /\ now <= MAX_CPU
                 /\ cpu' = now
                 /\ IF ElapsedMs(now) >= timeout
                      THEN waiter' = "idle" /\ outcome' = "timeout"
                      ELSE waiter' = "spin" /\ UNCHANGED outcome
                 /\ UNCHANGED <<event_queue, event_count, postVars, wait_load,
                                timeout, out>>

\* poll's own test; with one consumer it cannot find the queue empty again.
PollCheck == /\ waiter = "poll"
             /\ \E n \in {event_count, wait_load} :
                  /\ wait_load' = n
                  /\ IF n = 0 THEN waiter' = "idle" /\ outcome' = "empty"
                              ELSE waiter' = "copy" /\ UNCHANGED outcome
             /\ UNCHANGED <<event_queue, event_count, postVars, timeout, cpu, out>>

PollCopy == /\ waiter = "copy"
            /\ out' = event_queue[0]
            /\ waiter' = "move"
            /\ UNCHANGED <<event_queue, event_count, postVars, wait_load, timeout,
                           cpu, outcome>>

\* memmove of event_count - 1 slots.
PollMove == /\ waiter = "move"
            /\ \E n \in {event_count, wait_load} :
                 /\ wait_load' = n
                 /\ event_queue' = [i \in Slots |-> IF i + 1 < n THEN event_queue[i + 1]
                                                                 ELSE event_queue[i]]
            /\ waiter' = "load"
            /\ UNCHANGED <<event_count, postVars, timeout, cpu, out, outcome>>

PollLoad == /\ waiter = "load"
            /\ \E n \in {event_count, wait_load} : wait_load' = n
            /\ waiter' = "store"
            /\ UNCHANGED <<event_queue, event_count, postVars, timeout, cpu, out, outcome>>

PollStore == /\ waiter = "store"
             /\ event_count' = wait_load - 1
             /\ waiter' = "idle"
             /\ outcome' = "event"
             /\ UNCHANGED <<event_queue, postVars, wait_load, timeout, cpu, out>>

Poll == PollCheck \/ PollCopy \/ PollMove \/ PollLoad \/ PollStore

Wait == \/ \E t \in Timeouts : WaitCall(t)
        \/ WaitSeen
        \/ WaitSpin(cpu)      \* clock() has not advanced ...
        \/ WaitSpin(cpu + 1)  \* ... or it has
        \/ Poll

RaceNext == Post \/ Wait
RaceSpec == RaceInit /\ [][RaceNext]_raceVars

\* The waiting thread keeps running, and clock(), which counts the processor time
\* that its spinning uses, keeps advancing.  Nothing is assumed of the poster.
FairSpec == RaceSpec /\ WF_raceVars(WaitSpin(cpu + 1)) /\ WF_raceVars(Poll)
-----------------------------------------------------------------------------
\* The variables keep their types.
RaceTypeOK ==
  /\ event_queue \in [Slots -> Id \cup {NULL}]
  /\ event_count \in 0 .. MAX_EVENTS
  /\ poster \in {"idle", "slot", "write", "load", "store",
                 "early_load", "early_store", "late_write"}
  /\ post_at \in Slots
  /\ post_load \in 0 .. MAX_EVENTS
  /\ stores \in {"ordered", "reordered"}
  /\ waiter \in {"idle", "spin", "poll", "copy", "move", "load", "store"}
  /\ wait_load \in 0 .. MAX_EVENTS
  /\ timeout \in Timeouts \cup {0}
  /\ cpu \in 0 .. MAX_CPU
  /\ out \in Id \cup {NULL}
  /\ outcome \in {"none", "timeout", "empty", "event"}

\* With one poster and one waiter every index stays in the array, whatever updates
\* of the counter are lost: a post writes to a slot and counts up to MAX_EVENTS at
\* most, and (event_count - 1) in poll's memmove and decrement never goes below zero.
PostInBounds ==
  /\ poster \in {"slot", "write", "load", "early_load"} => event_count < MAX_EVENTS
  /\ poster # "idle" /\ poster # "late_write" => post_load < MAX_EVENTS
PollInBounds ==
  waiter \in {"poll", "copy", "move", "load", "store"} => event_count >= 1 /\ wait_load >= 1
IndicesInBounds == PostInBounds /\ PollInBounds

\* A wait or poll that returns 1 hands out an identifier some post was given, never
\* a zeroed slot, as long as the poster's stores have arrived in order.
NoPhantomEvent == stores = "ordered" /\ outcome = "event" => out \in Id

\* event.h:79: wait blocks until an event is available or the timeout expires, so with a
\* timeout it reports one only when timeout_ms of processor time have passed, as long as
\* the product fits clock_t.
ProductFits == 2 * cpu * MULT < CLOCK_MOD
TimeoutNotEarly ==
  outcome = "timeout" /\ timeout > 0 /\ ProductFits =>
    cpu * MULT >= timeout * CLOCKS_PER_SEC

\* Every wait with a timeout ends, whether or not somebody posts and clock_t overflows.
WaitReturns == (waiter = "spin" /\ timeout > 0) ~> waiter = "idle"

\* event.h:82: timeout_ms is the "Maximum time to wait in milliseconds (0 = infinite)": a
\* wait without a timeout reports none.
ZeroIsInfinite == outcome = "timeout" => timeout > 0
=============================================================================

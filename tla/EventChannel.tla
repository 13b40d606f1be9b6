---------------------------- MODULE EventChannel ----------------------------
(***************************************************************************)
(* What the event subsystem promises its callers, without slots, counters  *)
(* or heap blocks: a bounded first-in first-out channel of events, each an *)
(* identifier with the payload bytes it had when it was posted.  A call's  *)
(* outcome is in reply: the return code and, for a delivery, the event.    *)
(***************************************************************************)
EXTENDS Integers, Sequences

CONSTANTS Capacity,  \* the events the channel holds at most
          Id,        \* event identifiers
          Data,      \* payload contents
          NULL       \* "no payload", "no event"

VARIABLES queue,     \* the posted events not yet delivered, oldest first
          reply      \* what the last call returned

chan == <<queue, reply>>

Event == [id : Id, data : Data \cup {NULL}]
NoEvent == [id |-> NULL, data |-> NULL]
Reply(code, e) == [ret |-> code, event |-> e]

ChanInit == /\ queue = <<>>
            /\ reply = Reply(0, NoEvent)

\* An event is accepted: it goes to the back of the queue.
Accept == \E e \in Event :
            /\ Len(queue) < Capacity
            /\ queue' = Append(queue, e)
            /\ reply' = Reply(0, NoEvent)

\* A call fails and nothing changes: the channel is full, memory is out, or
\* the caller passed no place to put an event.
Refuse == /\ reply' = Reply(-1, NoEvent)
          /\ UNCHANGED queue

\* The oldest event is handed out, as it was posted.
Deliver == /\ queue # <<>>
           /\ queue' = Tail(queue)
           /\ reply' = Reply(1, Head(queue))

\* A poll or a wait finds the channel empty.
Empty == /\ queue = <<>>
         /\ reply' = Reply(0, NoEvent)
         /\ UNCHANGED queue

\* The subsystem is started or shut down: pending events are discarded.
Reset == /\ queue' = <<>>
         /\ reply' = Reply(0, NoEvent)

ChanNext == Accept \/ Refuse \/ Deliver \/ Empty \/ Reset

ChanSpec == ChanInit /\ [][ChanNext]_chan
=============================================================================

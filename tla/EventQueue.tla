----------------------------- MODULE EventQueue -----------------------------
(***************************************************************************)
(* The event subsystem of code/logic/event.c as one thread drives it: a    *)
(* static array of MAX_EVENTS slots with a counter, and payloads that are  *)
(* copied into malloc'ed blocks when an event is posted.  A block changes  *)
(* hands with its event: the queue owns it until poll hands the event out, *)
(* from then on the caller does, and shutdown frees what is still queued.  *)
(***************************************************************************)
EXTENDS Integers, FiniteSets, EventSlots

CONSTANTS Data,        \* payload contents
          Block        \* the addresses malloc can return

ASSUME EventAssumption == NULL \notin Data \cup Block

VARIABLES mem,         \* the heap: a block's content, or NULL when it is free
          held,        \* blocks of delivered events, now the caller's
          dropped,     \* blocks whose last pointer init erased
          result       \* the last call and what it returned

vars == <<event_queue, event_count, mem, held, dropped, result>>

Sizes == {0, 1}        \* a payload of no bytes, or of some
Events == [id : Id \cup {NULL}, type : {"NONE", "CUSTOM"},
           payload : Block \cup {NULL}, size : Sizes]
ZeroEvent == [id |-> NULL, type |-> "NONE", payload |-> NULL, size |-> 0]

Live == 0 .. event_count - 1
Allocated == {b \in Block : mem[b] # NULL}
Queued == {event_queue[i].payload : i \in Live} \ {NULL}

\* What a reader of an event sees: its identifier and its payload bytes.
Content(e) == [id |-> e.id,
               data |-> IF e.payload = NULL THEN NULL ELSE mem[e.payload]]
Nothing == [id |-> NULL, data |-> NULL]
Returns(op, code, e) == result' = [op |-> op, ret |-> code, event |-> e]

Init == /\ event_queue = [i \in Slots |-> ZeroEvent]
        /\ event_count = 0
        /\ mem = [b \in Block |-> NULL]
        /\ held = {}
        /\ dropped = {}
        /\ result = [op |-> "init", ret |-> 0, event |-> Nothing]
-----------------------------------------------------------------------------
\* memset over the array: pointers to payloads still queued are erased, not freed.
fossil_sys_event_init ==
  /\ event_count' = 0
  /\ event_queue' = [i \in Slots |-> ZeroEvent]
  /\ dropped' = dropped \cup Queued
  /\ Returns("init", 0, Nothing)
  /\ UNCHANGED <<mem, held>>

Full == event_count >= MAX_EVENTS

\* The slot the counter points at is filled; the counter moves only at the end.
Store(id, b, size) ==
  event_queue' = [event_queue EXCEPT ![event_count] =
                    [id |-> id, type |-> "CUSTOM", payload |-> b, size |-> size]]

PostFull ==
  /\ Full
  /\ Returns("post", -1, Nothing)
  /\ UNCHANGED <<event_queue, event_count, mem, held, dropped>>

PostCopy(id, data, size) ==
  /\ ~Full
  /\ data # NULL /\ size > 0
  /\ \E b \in Block \ Allocated :
       /\ mem' = [mem EXCEPT ![b] = data]
       /\ Store(id, b, size)
  /\ event_count' = event_count + 1
  /\ Returns("post", 0, Nothing)
  /\ UNCHANGED <<held, dropped>>

\* malloc returns NULL: the slot is half written, the event is not counted.
PostNoMemory(id, data, size) ==
  /\ ~Full
  /\ data # NULL /\ size > 0
  /\ Store(id, NULL, size)
  /\ Returns("post", -1, Nothing)
  /\ UNCHANGED <<event_count, mem, held, dropped>>

PostPlain(id, data, size) ==
  /\ ~Full
  /\ data = NULL \/ size = 0
  /\ Store(id, NULL, size)
  /\ event_count' = event_count + 1
  /\ Returns("post", 0, Nothing)
  /\ UNCHANGED <<mem, held, dropped>>

fossil_sys_event_post(id, data, size) ==
  \/ PostFull
  \/ PostCopy(id, data, size)
  \/ PostNoMemory(id, data, size)
  \/ PostPlain(id, data, size)
-----------------------------------------------------------------------------
NoOutEvent(op) ==
  /\ Returns(op, -1, Nothing)
  /\ UNCHANGED <<event_queue, event_count, mem, held, dropped>>

NoEvents(op) ==
  /\ event_count = 0
  /\ Returns(op, 0, Nothing)
  /\ UNCHANGED <<event_queue, event_count, mem, held, dropped>>

\* Slips substituted by the mutation runs: a shift short by one slot, a shutdown that
\* frees every slot of the array, as if the stale copies were events ...
ShiftShort == [i \in Slots |-> IF i + 2 < event_count THEN event_queue[i + 1]
                                                      ELSE event_queue[i]]

ShutdownAllSlots ==
  /\ mem' = [b \in Block |-> IF \E i \in Slots : event_queue[i].payload = b
                             THEN NULL ELSE mem[b]]
  /\ event_queue' = [i \in Slots |-> [event_queue[i] EXCEPT !.payload = NULL]]
  /\ event_count' = 0
  /\ Returns("shutdown", 0, Nothing)
  /\ UNCHANGED <<held, dropped>>

\* memmove: slots 1 .. event_count-1 move down by one.  The last live slot keeps
\* a stale copy of its event beyond the new counter.
ShiftDown == [i \in Slots |-> IF i + 1 < event_count THEN event_queue[i + 1]
                                                     ELSE event_queue[i]]

TakeFirst(op) ==
  /\ event_count > 0
  /\ Returns(op, 1, Content(event_queue[0]))
  /\ event_queue' = ShiftDown
  /\ event_count' = event_count - 1
  /\ held' = held \cup ({event_queue[0].payload} \ {NULL})
  /\ UNCHANGED <<mem, dropped>>

fossil_sys_event_poll == NoOutEvent("poll") \/ NoEvents("poll") \/ TakeFirst("poll")

\* With one thread nothing arrives while wait spins: it times out on an empty
\* queue and polls otherwise.  EventWait models the spinning itself.
fossil_sys_event_wait == NoOutEvent("wait") \/ NoEvents("wait") \/ TakeFirst("wait")

fossil_sys_event_shutdown ==
  /\ mem' = [b \in Block |-> IF b \in Queued THEN NULL ELSE mem[b]]
  /\ event_queue' = [i \in Slots |-> IF i \in Live
                       THEN [event_queue[i] EXCEPT !.payload = NULL]
                       ELSE event_queue[i]]
  /\ event_count' = 0
  /\ Returns("shutdown", 0, Nothing)
  /\ UNCHANGED <<held, dropped>>

\* The caller releases, or writes into, a payload that was delivered to it.
CallerFree == \E b \in held :
  /\ held' = held \ {b}
  /\ mem' = [mem EXCEPT ![b] = NULL]
  /\ UNCHANGED <<event_queue, event_count, dropped, result>>

CallerWrite == \E b \in held, d \in Data :
  /\ mem' = [mem EXCEPT ![b] = d]
  /\ UNCHANGED <<event_queue, event_count, held, dropped, result>>

Next == \/ fossil_sys_event_init
        \/ \E id \in Id, data \in Data \cup {NULL}, size \in Sizes :
              fossil_sys_event_post(id, data, size)
        \/ fossil_sys_event_poll
        \/ fossil_sys_event_wait
        \/ fossil_sys_event_shutdown
        \/ CallerFree
        \/ CallerWrite

Spec == Init /\ [][Next]_vars
-----------------------------------------------------------------------------
\* The variables keep their types; the counter never leaves 0..MAX_EVENTS.
TypeOK ==
  /\ event_queue \in [Slots -> Events]
  /\ event_count \in 0 .. MAX_EVENTS
  /\ mem \in [Block -> Data \cup {NULL}]
  /\ held \subseteq Block
  /\ dropped \subseteq Block
  /\ result \in [op : {"init", "post", "poll", "wait", "shutdown"}, ret : {-1, 0, 1},
                 event : [id : Id \cup {NULL}, data : Data \cup {NULL}]]

\* Two live slots never carry the same payload block: the copies memmove leaves
\* behind beyond the counter are never taken for events again.
NoSharedPayload ==
  \A i, j \in Live : event_queue[i].payload = event_queue[j].payload
                       => i = j \/ event_queue[i].payload = NULL

\* Every allocated block has exactly one owner: a live slot, the caller it was
\* delivered to, or nobody because init erased the slot.  So free is never called
\* twice on a block, no delivered payload is freed by shutdown, and posting,
\* polling and shutting down lose no memory.
OneOwner ==
  /\ NoSharedPayload
  /\ Queued \cap held = {}
  /\ Queued \cap dropped = {}
  /\ held \cap dropped = {}
  /\ Allocated = Queued \cup held \cup dropped

\* The events in the slots, oldest first, as their readers would see them.
Pending == [k \in 1 .. event_count |-> Content(event_queue[k - 1])]

Channel == INSTANCE EventChannel WITH
  Capacity <- MAX_EVENTS, queue <- Pending,
  reply <- [ret |-> result.ret, event |-> result.event]

\* The slots, the counter and the copied payloads implement the bounded FIFO
\* channel: events come out in the order they were posted, once, with the bytes
\* they had then, whatever the caller does to payloads it already received.
ImplementsChannel == Channel!ChanSpec
=============================================================================

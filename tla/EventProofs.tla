----------------------------- MODULE EventProofs -----------------------------
(***************************************************************************)
(* Proofs about the event subsystem, for any number of slots, blocks and   *)
(* identifiers.  EventQueue: its types, that every payload block has one   *)
(* owner, and that it implements EventChannel.  EventWait: with one poster *)
(* and one waiter no lost update takes an index out of the array, stores   *)
(* that arrive in order let the waiter see posted events only, and no      *)
(* timeout is reported early.                                              *)
(***************************************************************************)
EXTENDS EventQueue, EventWait, SequenceTheorems, TLAPS

\* Moving the live slots down keeps the array's type.
LEMMA ShiftDownType ==
  ASSUME TypeOK
  PROVE  ShiftDown \in [Slots -> Events]
  <1>1. ASSUME NEW i \in Slots
        PROVE  (IF i + 1 < event_count THEN event_queue[i + 1] ELSE event_queue[i]) \in Events
    <2>1. CASE i + 1 < event_count
      <3>1. i + 1 \in Slots
        BY <2>1, EventAssumption, SlotsAssumption DEF TypeOK, Slots
      <3> QED
        BY <2>1, <3>1 DEF TypeOK
    <2>2. CASE ~(i + 1 < event_count)
      BY <2>2 DEF TypeOK
    <2> QED
      BY <2>1, <2>2
  <1> QED
    BY <1>1 DEF ShiftDown

\* What a reader sees of an event has the type of a reply's event.
LEMMA ContentType ==
  ASSUME TypeOK, NEW ev \in Events
  PROVE  Content(ev) \in [id : Id \cup {NULL}, data : Data \cup {NULL}]
  BY DEF TypeOK, Events, Content

\* Storing into the slot at the counter keeps the array's type.
LEMMA StoreType ==
  ASSUME TypeOK, ~Full,
         NEW id \in Id, NEW b \in Block \cup {NULL}, NEW size \in Sizes,
         Store(id, b, size)
  PROVE  /\ event_queue' \in [Slots -> Events]
         /\ \A i \in Live : event_queue'[i] = event_queue[i]
         /\ event_queue'[event_count]
              = [id |-> id, type |-> "CUSTOM", payload |-> b, size |-> size]
  <1>1. event_count \in Slots
    BY EventAssumption, SlotsAssumption DEF TypeOK, Slots, Full
  <1>2. [id |-> id, type |-> "CUSTOM", payload |-> b, size |-> size] \in Events
    BY DEF Events
  <1>3. \A i \in Live : i \in Slots /\ i # event_count
    BY EventAssumption, SlotsAssumption DEF TypeOK, Slots, Live
  <1> QED
    BY <1>1, <1>2, <1>3 DEF TypeOK, Store

LEMMA TypeInit == Init => TypeOK
  <1> SUFFICES ASSUME Init PROVE TypeOK
    OBVIOUS
  <1>1. ZeroEvent \in Events
    BY DEF ZeroEvent, Events, Sizes
  <1>2. Nothing \in [id : Id \cup {NULL}, data : Data \cup {NULL}]
    BY DEF Nothing
  <1> QED
    BY <1>1, <1>2, EventAssumption, SlotsAssumption DEF Init, TypeOK

LEMMA TypeNext == TypeOK /\ [Next]_vars => TypeOK'
  <1> SUFFICES ASSUME TypeOK, [Next]_vars PROVE TypeOK'
    OBVIOUS
  <1>n. Nothing \in [id : Id \cup {NULL}, data : Data \cup {NULL}]
    BY DEF Nothing
  <1>1. CASE fossil_sys_event_init
    <2>1. ZeroEvent \in Events
      BY DEF ZeroEvent, Events, Sizes
    <2>2. Queued \subseteq Block
      BY EventAssumption, SlotsAssumption DEF TypeOK, Queued, Live, Events, Slots
    <2> QED
      BY <1>1, <1>n, <2>1, <2>2, EventAssumption, SlotsAssumption
      DEF TypeOK, fossil_sys_event_init, Returns
  <1>2. ASSUME NEW id \in Id, NEW data \in Data \cup {NULL}, NEW size \in Sizes,
               fossil_sys_event_post(id, data, size)
        PROVE  TypeOK'
    <2>1. CASE PostFull
      BY <2>1, <1>n DEF TypeOK, PostFull, Returns
    <2>2. CASE PostCopy(id, data, size)
      <3> PICK b \in Block \ Allocated :
            mem' = [mem EXCEPT ![b] = data] /\ Store(id, b, size)
        BY <2>2 DEF PostCopy
      <3>1. event_queue' \in [Slots -> Events]
        BY <2>2, StoreType DEF PostCopy
      <3> QED
        BY <2>2, <1>n, <3>1, EventAssumption, SlotsAssumption DEF TypeOK, PostCopy, Full, Returns
    <2>3. CASE PostNoMemory(id, data, size)
      BY <2>3, <1>n, StoreType DEF TypeOK, PostNoMemory, Returns
    <2>4. CASE PostPlain(id, data, size)
      <3>1. event_queue' \in [Slots -> Events]
        BY <2>4, StoreType DEF PostPlain
      <3> QED
        BY <2>4, <1>n, <3>1, EventAssumption, SlotsAssumption DEF TypeOK, PostPlain, Full, Returns
    <2> QED
      BY <1>2, <2>1, <2>2, <2>3, <2>4 DEF fossil_sys_event_post
  <1>3. ASSUME NEW op \in {"poll", "wait"}, NoOutEvent(op) \/ NoEvents(op)
        PROVE  TypeOK'
    BY <1>3, <1>n DEF TypeOK, NoOutEvent, NoEvents, Returns
  <1>4. ASSUME NEW op \in {"poll", "wait"}, TakeFirst(op)
        PROVE  TypeOK'
    <2>1. 0 \in Slots
      BY EventAssumption, SlotsAssumption DEF Slots
    <2>2. event_queue[0] \in Events
      BY <2>1 DEF TypeOK
    <2>3. event_queue' \in [Slots -> Events]
      BY <1>4, ShiftDownType DEF TakeFirst
    <2>4. Content(event_queue[0]) \in [id : Id \cup {NULL}, data : Data \cup {NULL}]
      BY <2>2, ContentType
    <2>5. held' \subseteq Block
      BY <1>4, <2>2 DEF TakeFirst, TypeOK, Events
    <2>6. event_count' \in 0 .. MAX_EVENTS
      BY <1>4, EventAssumption, SlotsAssumption DEF TakeFirst, TypeOK
    <2> QED
      BY <1>4, <2>3, <2>4, <2>5, <2>6 DEF TakeFirst, TypeOK, Returns
  <1>5. CASE fossil_sys_event_shutdown
    <2>1. event_queue' \in [Slots -> Events]
      BY <1>5 DEF fossil_sys_event_shutdown, TypeOK, Events
    <2> QED
      BY <1>5, <1>n, <2>1, EventAssumption, SlotsAssumption DEF fossil_sys_event_shutdown, TypeOK, Returns
  <1>6. CASE CallerFree
    BY <1>6 DEF CallerFree, TypeOK
  <1>7. CASE CallerWrite
    BY <1>7 DEF CallerWrite, TypeOK
  <1>8. CASE UNCHANGED vars
    BY <1>8 DEF vars, TypeOK
  <1> QED
    BY <1>1, <1>2, <1>3, <1>4, <1>5, <1>6, <1>7, <1>8
    DEF Next, fossil_sys_event_poll, fossil_sys_event_wait

\* The variables keep their types and the counter stays in 0 .. MAX_EVENTS, for every
\* size of the array.
THEOREM TypeCorrect == Spec => []TypeOK
  BY TypeInit, TypeNext, PTL DEF Spec
-----------------------------------------------------------------------------
\* What TypeOK says of a live slot's payload.
LEMMA LivePayload ==
  ASSUME TypeOK, NEW i \in Live
  PROVE  /\ i \in Slots
         /\ event_queue[i] \in Events
         /\ event_queue[i].payload \in Block \cup {NULL}
  BY EventAssumption, SlotsAssumption DEF TypeOK, Live, Slots, Events

\* A step that leaves the live slots and every set of blocks alone keeps the owners.
LEMMA OwnersKept ==
  ASSUME OneOwner, event_count' = event_count, UNCHANGED <<held, dropped>>,
         \A i \in Live : event_queue'[i].payload = event_queue[i].payload,
         Allocated' = Allocated
  PROVE  OneOwner'
  <1>1. Live' = Live
    BY DEF Live
  <1>2. Queued' = Queued
    BY <1>1 DEF Queued
  <1> QED
    BY <1>1, <1>2 DEF OneOwner, NoSharedPayload

\* Allocated depends on the heap only.
LEMMA SameHeap == ASSUME mem' = mem PROVE Allocated' = Allocated
  BY DEF Allocated

LEMMA OwnerInit == Init => OneOwner
  <1> SUFFICES ASSUME Init PROVE OneOwner
    OBVIOUS
  <1>1. Live = {}
    BY DEF Init, Live
  <1>2. Queued = {}
    BY <1>1 DEF Queued
  <1>3. Allocated = {}
    BY DEF Init, Allocated
  <1> QED
    BY <1>1, <1>2, <1>3 DEF Init, OneOwner, NoSharedPayload

\* Posting an event whose slot gets payload b, which nobody owned, or none at all.
LEMMA OwnerPosted ==
  ASSUME TypeOK, OneOwner, ~Full,
         NEW id \in Id, NEW b \in (Block \ Allocated) \cup {NULL}, NEW size \in Sizes,
         Store(id, b, size), event_count' = event_count + 1, UNCHANGED <<held, dropped>>,
         Allocated' = Allocated \cup ({b} \ {NULL})
  PROVE  OneOwner'
  <1>1. /\ \A i \in Live : event_queue'[i] = event_queue[i]
        /\ event_queue'[event_count].payload = b
    <2>1. b \in Block \cup {NULL}
      OBVIOUS
    <2>2. event_queue'[event_count]
            = [id |-> id, type |-> "CUSTOM", payload |-> b, size |-> size]
      BY <2>1, StoreType
    <2> QED
      BY <2>1, <2>2, StoreType
  <1>2. event_count \in Nat
    BY EventAssumption, SlotsAssumption DEF TypeOK
  <1>3. Live' = Live \cup {event_count} /\ event_count \notin Live
    BY <1>2 DEF Live
  <1>4. Queued' = Queued \cup ({b} \ {NULL})
    BY <1>1, <1>3 DEF Queued
  <1>5. Queued \subseteq Allocated /\ held \subseteq Allocated /\ dropped \subseteq Allocated
    BY DEF OneOwner
  <1>6. b = NULL \/ (b \notin Queued /\ b \notin held /\ b \notin dropped)
    BY <1>5
  <1>7. NoSharedPayload'
    <2> SUFFICES ASSUME NEW i \in Live', NEW j \in Live',
                        event_queue'[i].payload = event_queue'[j].payload
                 PROVE  i = j \/ event_queue'[i].payload = NULL
      BY DEF NoSharedPayload
    <2>1. CASE i \in Live /\ j \in Live
      BY <2>1, <1>1 DEF OneOwner, NoSharedPayload
    <2>2. CASE i = event_count /\ j \in Live
      BY <2>2, <1>1, <1>6 DEF Queued
    <2>3. CASE j = event_count /\ i \in Live
      BY <2>3, <1>1, <1>6 DEF Queued
    <2> QED
      BY <2>1, <2>2, <2>3, <1>3
  <1> QED
    BY <1>4, <1>6, <1>7 DEF OneOwner

\* Handing out the first event passes its block on to the caller.
LEMMA OwnerTaken ==
  ASSUME TypeOK, OneOwner, NEW op \in {"poll", "wait"}, TakeFirst(op)
  PROVE  OneOwner'
  <1> DEFINE first == event_queue[0].payload
  <1>1. event_count \in Nat \ {0} /\ event_count <= MAX_EVENTS
    BY EventAssumption, SlotsAssumption DEF TypeOK, TakeFirst
  <1>2. Live' = 0 .. event_count - 2
    BY <1>1 DEF TakeFirst, Live
  <1>3. \A i \in Live' : i + 1 \in Live /\ event_queue'[i] = event_queue[i + 1]
    BY <1>1, <1>2, EventAssumption, SlotsAssumption DEF TakeFirst, ShiftDown, Live, Slots
  <1>4. 0 \in Live
    BY <1>1 DEF Live
  <1>5. \A i \in Live : i = 0 \/ (i - 1 \in Live' /\ (i - 1) + 1 = i)
    <2>1. \A i \in 0 .. event_count - 1 :
            i = 0 \/ (i - 1 \in 0 .. event_count - 2 /\ (i - 1) + 1 = i)
      BY <1>1
    <2> QED
      BY <1>2, <2>1 DEF Live
  <1>6. Queued' = Queued \ {first}
    <2>1. ASSUME NEW b \in Queued' PROVE b \in Queued \ {first}
      <3>1. PICK i \in Live' : b = event_queue'[i].payload /\ b # NULL
        BY <2>1 DEF Queued
      <3>2. i + 1 \in Live /\ b = event_queue[i + 1].payload
        BY <3>1, <1>3
      <3>3. i + 1 # 0
        BY <1>2, <1>1
      <3> QED
        BY <3>1, <3>2, <3>3, <1>4 DEF OneOwner, NoSharedPayload, Queued
    <2>2. ASSUME NEW b \in Queued \ {first} PROVE b \in Queued'
      <3>1. PICK i \in Live : b = event_queue[i].payload /\ b # NULL
        BY <2>2 DEF Queued
      <3>2. i # 0
        BY <3>1, <2>2
      <3>3. i - 1 \in Live' /\ event_queue'[i - 1] = event_queue[i]
        BY <3>2, <1>3, <1>5
      <3> QED
        BY <3>1, <3>3 DEF Queued
    <2> QED
      BY <2>1, <2>2
  <1>7. NoSharedPayload'
    <2> SUFFICES ASSUME NEW i \in Live', NEW j \in Live',
                        event_queue'[i].payload = event_queue'[j].payload
                 PROVE  i = j \/ event_queue'[i].payload = NULL
      BY DEF NoSharedPayload
    <2>1. i + 1 = j + 1 => i = j
      BY <1>1, <1>2
    <2> QED
      BY <2>1, <1>3 DEF OneOwner, NoSharedPayload
  <1>8. first = NULL \/ first \in Queued
    BY <1>4 DEF Queued
  <1>9. held' = held \cup ({first} \ {NULL}) /\ dropped' = dropped
    BY DEF TakeFirst
  <1>10. Allocated' = Allocated
    BY SameHeap DEF TakeFirst
  <1> QED
    BY <1>6, <1>7, <1>8, <1>9, <1>10 DEF OneOwner, Queued

LEMMA OwnerNext == TypeOK /\ OneOwner /\ [Next]_vars => OneOwner'
  <1> SUFFICES ASSUME TypeOK, OneOwner, [Next]_vars PROVE OneOwner'
    OBVIOUS
  <1>1. CASE fossil_sys_event_init
    <2>1. Live' = {}
      BY <1>1 DEF fossil_sys_event_init, Live
    <2>2. Queued' = {}
      BY <2>1 DEF Queued
    <2>3. Allocated' = Allocated
      BY <1>1, SameHeap DEF fossil_sys_event_init
    <2> QED
      BY <1>1, <2>1, <2>2, <2>3 DEF fossil_sys_event_init, OneOwner, NoSharedPayload
  <1>2. ASSUME NEW id \in Id, NEW data \in Data \cup {NULL}, NEW size \in Sizes,
               fossil_sys_event_post(id, data, size)
        PROVE  OneOwner'
    <2>1. CASE PostFull
      BY <2>1, OwnersKept, SameHeap DEF PostFull
    <2>2. CASE PostCopy(id, data, size)
      <3> PICK b \in Block \ Allocated :
            mem' = [mem EXCEPT ![b] = data] /\ Store(id, b, size)
        BY <2>2 DEF PostCopy
      <3>1. Allocated' = Allocated \cup {b}
        BY <2>2 DEF PostCopy, Allocated, TypeOK
      <3>2. b # NULL
        BY EventAssumption, SlotsAssumption
      <3> QED
        BY <2>2, <3>1, <3>2, OwnerPosted DEF PostCopy
    <2>3. CASE PostNoMemory(id, data, size)
      <3>1. \A i \in Live : event_queue'[i] = event_queue[i]
        BY <2>3, StoreType DEF PostNoMemory
      <3> QED
        BY <2>3, <3>1, OwnersKept, SameHeap DEF PostNoMemory
    <2>4. CASE PostPlain(id, data, size)
      <3>1. Allocated' = Allocated
        BY <2>4, SameHeap DEF PostPlain
      <3> QED
        BY <2>4, <3>1, OwnerPosted DEF PostPlain
    <2> QED
      BY <1>2, <2>1, <2>2, <2>3, <2>4 DEF fossil_sys_event_post
  <1>3. ASSUME NEW op \in {"poll", "wait"}, NoOutEvent(op) \/ NoEvents(op)
        PROVE  OneOwner'
    BY <1>3, OwnersKept, SameHeap DEF NoOutEvent, NoEvents
  <1>4. ASSUME NEW op \in {"poll", "wait"}, TakeFirst(op)
        PROVE  OneOwner'
    BY <1>4, OwnerTaken
  <1>5. CASE fossil_sys_event_shutdown
    <2>1. Live' = {}
      BY <1>5 DEF fossil_sys_event_shutdown, Live
    <2>2. Queued' = {}
      BY <2>1 DEF Queued
    <2>3. Allocated' = Allocated \ Queued
      BY <1>5 DEF fossil_sys_event_shutdown, Allocated, TypeOK
    <2> QED
      BY <1>5, <2>1, <2>2, <2>3 DEF fossil_sys_event_shutdown, OneOwner, NoSharedPayload
  <1>6. CASE CallerFree
    <2> PICK b \in held : held' = held \ {b} /\ mem' = [mem EXCEPT ![b] = NULL]
      BY <1>6 DEF CallerFree
    <2>1. Live' = Live /\ Queued' = Queued
      BY <1>6 DEF CallerFree, Live, Queued
    <2>2. Allocated' = Allocated \ {b}
      BY DEF Allocated, TypeOK
    <2> QED
      BY <1>6, <2>1, <2>2 DEF CallerFree, OneOwner, NoSharedPayload
  <1>7. CASE CallerWrite
    <2> PICK b \in held, d \in Data : mem' = [mem EXCEPT ![b] = d]
      BY <1>7 DEF CallerWrite
    <2>1. b \in Allocated
      BY DEF OneOwner
    <2>2. Allocated' = Allocated
      BY <2>1, EventAssumption, SlotsAssumption DEF Allocated, TypeOK
    <2> QED
      BY <1>7, <2>2, OwnersKept DEF CallerWrite
  <1>8. CASE UNCHANGED vars
    BY <1>8, OwnersKept, SameHeap DEF vars
  <1> QED
    BY <1>1, <1>2, <1>3, <1>4, <1>5, <1>6, <1>7, <1>8
    DEF Next, fossil_sys_event_poll, fossil_sys_event_wait

\* Every payload block is owned by exactly one live slot, the caller, or nobody that
\* init left it to; so none is freed twice, whatever the calls and their order.
THEOREM OwnersCorrect == Spec => []OneOwner
  BY TypeCorrect, OwnerInit, OwnerNext, PTL DEF Spec

-----------------------------------------------------------------------------
(* The refinement *)

LEMMA AppendIs ==
  ASSUME NEW C, NEW s \in Seq(C), NEW t \in Seq(C), NEW x \in C,
         Len(t) = Len(s) + 1, t[Len(t)] = x, \A k \in 1 .. Len(s) : t[k] = s[k]
  PROVE  t = Append(s, x)
  <1>1. Append(s, x) \in Seq(C) /\ Len(Append(s, x)) = Len(t)
    OBVIOUS
  <1>2. \A k \in 1 .. Len(t) : t[k] = Append(s, x)[k]
    OBVIOUS
  <1> QED
    BY <1>1, <1>2, SeqEqual

LEMMA TailIs ==
  ASSUME NEW C, NEW s \in Seq(C), NEW t \in Seq(C),
         Len(s) = Len(t) + 1, \A k \in 1 .. Len(t) : t[k] = s[k + 1]
  PROVE  s # <<>> /\ t = Tail(s) /\ Head(s) = s[1]
  <1>1. s # <<>>
    OBVIOUS
  <1>2. Tail(s) \in Seq(C) /\ Len(Tail(s)) = Len(t)
    BY <1>1
  <1>3. \A k \in 1 .. Len(t) : t[k] = Tail(s)[k]
    BY <1>1
  <1> QED
    BY <1>1, <1>2, <1>3, SeqEqual

Seen == [id : Id \cup {NULL}, data : Data \cup {NULL}]
PendingIsSeq == /\ Pending \in Seq(Seen)
                /\ Len(Pending) = event_count
                /\ \A k \in 1 .. event_count : Pending[k] = Content(event_queue[k - 1])

LEMMA PendingSeq == TypeOK => PendingIsSeq
  <1> SUFFICES ASSUME TypeOK PROVE PendingIsSeq
    OBVIOUS
  <1>1. event_count \in Nat
    BY EventAssumption, SlotsAssumption DEF TypeOK
  <1>2. ASSUME NEW k \in 1 .. event_count PROVE Content(event_queue[k - 1]) \in Seen
    <2>1. k - 1 \in Live
      BY <1>1 DEF Live
    <2> QED
      BY <2>1, LivePayload, ContentType DEF Seen
  <1>3. Pending \in [1 .. event_count -> Seen]
    BY <1>2 DEF Pending
  <1>4. Pending \in Seq(Seen)
    BY <1>1, <1>3, SeqDef
  <1>5. DOMAIN Pending = 1 .. event_count
    BY DEF Pending
  <1>6. Len(Pending) = event_count
    BY <1>1, <1>4, <1>5, LenProperties
  <1> QED
    BY <1>4, <1>6 DEF Pending, PendingIsSeq

LEMMA PendingSeqNext == TypeOK' => PendingIsSeq'
  BY PendingSeq, PTL

\* Content, with the heap as a parameter.
View(ev, heap) == [id |-> ev.id, data |-> IF ev.payload = NULL THEN NULL ELSE heap[ev.payload]]

LEMMA PendingViews ==
  /\ PendingIsSeq => \A k \in 1 .. event_count : Pending[k] = View(event_queue[k - 1], mem)
  /\ PendingIsSeq' =>
       \A k \in 1 .. event_count' : Pending'[k] = View(event_queue'[k - 1], mem')
  BY DEF PendingIsSeq, Content, View

LEMMA PendingEmpty == PendingIsSeq /\ event_count = 0 => Pending = <<>>
  BY EmptySeq DEF PendingIsSeq

LEMMA PendingEmptyNext == PendingIsSeq' /\ event_count' = 0 => Pending' = <<>>
  BY EmptySeq DEF PendingIsSeq

\* The live slots are seen after the step as they were before it.
LiveKept == \A i \in Live : View(event_queue'[i], mem') = View(event_queue[i], mem)

LEMMA PendingSame ==
  ASSUME TypeOK, TypeOK', event_count' = event_count, LiveKept
  PROVE  Pending' = Pending
  <1>1. event_count \in Nat
    BY EventAssumption, SlotsAssumption DEF TypeOK
  <1>2. PendingIsSeq /\ PendingIsSeq'
    BY PendingSeq, PendingSeqNext
  <1>3. ASSUME NEW k \in 1 .. event_count PROVE Pending'[k] = Pending[k]
    <2>1. k - 1 \in Live
      BY <1>1 DEF Live
    <2> QED
      BY <1>2, <2>1, PendingViews DEF LiveKept
  <1> QED
    BY <1>2, <1>3, SeqEqual DEF PendingIsSeq

\* An accepted post appends what it was given.
LEMMA PendingAppended ==
  ASSUME TypeOK, TypeOK', event_count' = event_count + 1, LiveKept,
         NEW x \in Seen, View(event_queue'[event_count], mem') = x
  PROVE  Pending' = Append(Pending, x)
  <1>1. event_count \in Nat
    BY EventAssumption, SlotsAssumption DEF TypeOK
  <1>2. PendingIsSeq /\ PendingIsSeq'
    BY PendingSeq, PendingSeqNext
  <1>3. Pending'[event_count + 1] = x
    <2>1. event_count + 1 \in 1 .. event_count' /\ (event_count + 1) - 1 = event_count
      BY <1>1
    <2> QED
      BY <1>2, <2>1, PendingViews
  <1>4. ASSUME NEW k \in 1 .. event_count PROVE Pending'[k] = Pending[k]
    <2>1. k - 1 \in Live /\ k \in 1 .. event_count'
      BY <1>1 DEF Live
    <2> QED
      BY <1>2, <2>1, PendingViews DEF LiveKept
  <1>5. /\ Pending \in Seq(Seen) /\ Pending' \in Seq(Seen)
        /\ Len(Pending) = event_count /\ Len(Pending') = event_count + 1
    BY <1>2 DEF PendingIsSeq
  <1>6. /\ Len(Pending') = Len(Pending) + 1
        /\ Pending'[Len(Pending')] = x
        /\ \A k \in 1 .. Len(Pending) : Pending'[k] = Pending[k]
    BY <1>3, <1>4, <1>5
  <1> QED
    BY <1>5, <1>6, AppendIs, Zenon

\* A delivery takes the head.
LEMMA PendingTaken ==
  ASSUME TypeOK, TypeOK', NEW op \in {"poll", "wait"}, TakeFirst(op)
  PROVE  /\ Pending # <<>> /\ Pending' = Tail(Pending)
         /\ Content(event_queue[0]) = Head(Pending)
  <1>1. event_count \in Nat \ {0} /\ event_count <= MAX_EVENTS /\ event_count' = event_count - 1
    BY EventAssumption, SlotsAssumption DEF TypeOK, TakeFirst
  <1>2. PendingIsSeq /\ PendingIsSeq'
    BY PendingSeq, PendingSeqNext
  <1>3. ASSUME NEW k \in 1 .. event_count' PROVE Pending'[k] = Pending[k + 1]
    <2>1. k - 1 \in Slots /\ (k - 1) + 1 < event_count /\ (k - 1) + 1 = k
      BY <1>1, EventAssumption, SlotsAssumption DEF Slots
    <2>2. event_queue'[k - 1] = event_queue[k]
      BY <2>1 DEF TakeFirst, ShiftDown
    <2>3. mem' = mem
      BY DEF TakeFirst
    <2>4. k + 1 \in 1 .. event_count /\ (k + 1) - 1 = k
      BY <1>1
    <2>5. Pending'[k] = View(event_queue'[k - 1], mem')
      BY <1>2, PendingViews
    <2>6. Pending[k + 1] = View(event_queue[k], mem)
      BY <1>2, <2>4, PendingViews
    <2> QED
      BY <2>2, <2>3, <2>5, <2>6
  <1>4. /\ Pending \in Seq(Seen) /\ Pending' \in Seq(Seen)
        /\ Len(Pending) = Len(Pending') + 1 /\ Len(Pending') = event_count'
    BY <1>1, <1>2 DEF PendingIsSeq
  <1>5. Pending[1] = Content(event_queue[0])
    <2>1. 1 \in 1 .. event_count /\ 1 - 1 = 0
      BY <1>1
    <2> QED
      BY <1>2, <2>1 DEF PendingIsSeq
  <1>6. \A k \in 1 .. Len(Pending') : Pending'[k] = Pending[k + 1]
    BY <1>3, <1>4
  <1>7. Pending # <<>> /\ Pending' = Tail(Pending) /\ Head(Pending) = Pending[1]
    BY <1>4, <1>6, TailIs, Zenon
  <1> QED
    BY <1>5, <1>7, Zenon

\* Every step of the queue is a step of the channel, or leaves it alone.
LEMMA RefineInit == Init => Channel!ChanInit
  <1> SUFFICES ASSUME Init PROVE Channel!ChanInit
    OBVIOUS
  <1>1. Pending = <<>>
    BY TypeInit, PendingSeq, PendingEmpty DEF Init
  <1> QED
    BY <1>1 DEF Init, Channel!ChanInit, Channel!Reply, Channel!NoEvent, Nothing

LEMMA RefineReset ==
  ASSUME TypeOK', fossil_sys_event_init \/ fossil_sys_event_shutdown
  PROVE  Channel!Reset
  <1>1. Pending' = <<>>
    BY PendingSeqNext, PendingEmptyNext DEF fossil_sys_event_init, fossil_sys_event_shutdown
  <1> QED
    BY <1>1 DEF fossil_sys_event_init, fossil_sys_event_shutdown, Returns, Nothing,
                Channel!Reset, Channel!Reply, Channel!NoEvent

\* A step that touches neither the counter, nor a live slot, nor a queued block.
LEMMA LiveViews ==
  ASSUME TypeOK, \A i \in Live : event_queue'[i] = event_queue[i],
         \A b \in Queued : mem'[b] = mem[b]
  PROVE  LiveKept
  BY DEF LiveKept, View, Queued

LEMMA RefineRefuse ==
  ASSUME TypeOK, TypeOK', event_count' = event_count, LiveKept,
         result'.ret = -1, result'.event = Nothing
  PROVE  Channel!Refuse
  BY PendingSame DEF Channel!Refuse, Channel!Reply, Channel!NoEvent, Nothing

LEMMA RefineAccept ==
  ASSUME TypeOK, TypeOK', ~Full, event_count' = event_count + 1, LiveKept,
         NEW id \in Id, NEW data \in Data \cup {NULL},
         View(event_queue'[event_count], mem') = [id |-> id, data |-> data],
         result'.ret = 0, result'.event = Nothing
  PROVE  Channel!Accept
  <1> DEFINE x == [id |-> id, data |-> data]
  <1>1. x \in Seen /\ x \in Channel!Event
    BY DEF Seen, Channel!Event
  <1>2. Pending' = Append(Pending, x)
    BY <1>1, PendingAppended
  <1>3. Len(Pending) < MAX_EVENTS
    <2>1. Len(Pending) = event_count
      BY PendingSeq DEF PendingIsSeq
    <2> QED
      BY <2>1, EventAssumption, SlotsAssumption DEF Full, TypeOK
  <1> HIDE DEF x
  <1> QED
    BY <1>1, <1>2, <1>3 DEF Channel!Accept, Channel!Reply, Channel!NoEvent, Nothing

LEMMA RefinePost ==
  ASSUME TypeOK, TypeOK', OneOwner,
         NEW id \in Id, NEW data \in Data \cup {NULL}, NEW size \in Sizes,
         fossil_sys_event_post(id, data, size)
  PROVE  Channel!Refuse \/ Channel!Accept
  <1>1. CASE PostFull
    <2>1. LiveKept
      BY <1>1, LiveViews DEF PostFull
    <2> QED
      BY <1>1, <2>1, RefineRefuse DEF PostFull, Returns
  <1>2. CASE PostNoMemory(id, data, size)
    <2>1. LiveKept
      BY <1>2, StoreType, LiveViews DEF PostNoMemory
    <2> QED
      BY <1>2, <2>1, RefineRefuse DEF PostNoMemory, Returns
  <1>3. CASE PostPlain(id, data, size)
    <2>1. /\ \A i \in Live : event_queue'[i] = event_queue[i]
          /\ event_queue'[event_count]
               = [id |-> id, type |-> "CUSTOM", payload |-> NULL, size |-> size]
      BY <1>3, StoreType DEF PostPlain
    <2>2. LiveKept
      BY <1>3, <2>1, LiveViews DEF PostPlain
    <2>3. View(event_queue'[event_count], mem') = [id |-> id, data |-> NULL]
      BY <2>1 DEF View
    <2> QED
      BY <1>3, <2>2, <2>3, RefineAccept DEF PostPlain, Returns
  <1>4. CASE PostCopy(id, data, size)
    <2> PICK b \in Block \ Allocated :
          mem' = [mem EXCEPT ![b] = data] /\ Store(id, b, size)
      BY <1>4 DEF PostCopy
    <2>1. /\ \A i \in Live : event_queue'[i] = event_queue[i]
          /\ event_queue'[event_count]
               = [id |-> id, type |-> "CUSTOM", payload |-> b, size |-> size]
      BY <1>4, StoreType DEF PostCopy
    <2>2. LiveKept
      <3>1. \A q \in Queued : mem'[q] = mem[q]
        BY DEF OneOwner, TypeOK, Allocated
      <3> QED
        BY <2>1, <3>1, LiveViews
    <2>3. View(event_queue'[event_count], mem') = [id |-> id, data |-> data]
      <3>1. b # NULL /\ mem'[b] = data
        BY EventAssumption, SlotsAssumption DEF TypeOK
      <3> QED
        BY <2>1, <3>1 DEF View
    <2> QED
      BY <1>4, <2>2, <2>3, RefineAccept DEF PostCopy, Returns
  <1> QED
    BY <1>1, <1>2, <1>3, <1>4 DEF fossil_sys_event_post

LEMMA RefineTake ==
  ASSUME TypeOK, TypeOK', NEW op \in {"poll", "wait"},
         NoOutEvent(op) \/ NoEvents(op) \/ TakeFirst(op)
  PROVE  Channel!Refuse \/ Channel!Empty \/ Channel!Deliver
  <1>1. CASE NoOutEvent(op)
    <2>1. LiveKept
      BY <1>1, LiveViews DEF NoOutEvent
    <2> QED
      BY <1>1, <2>1, RefineRefuse DEF NoOutEvent, Returns
  <1>2. CASE NoEvents(op)
    <2>1. LiveKept
      BY <1>2, LiveViews DEF NoEvents
    <2>2. Pending' = Pending
      BY <1>2, <2>1, PendingSame DEF NoEvents
    <2>3. Pending = <<>>
      BY <1>2, PendingSeq, PendingEmpty DEF NoEvents
    <2> QED
      BY <1>2, <2>2, <2>3
      DEF NoEvents, Returns, Nothing, Channel!Empty, Channel!Reply, Channel!NoEvent
  <1>3. CASE TakeFirst(op)
    <2>1. /\ Pending # <<>> /\ Pending' = Tail(Pending)
          /\ Content(event_queue[0]) = Head(Pending)
      BY <1>3, PendingTaken
    <2>2. result'.ret = 1 /\ result'.event = Content(event_queue[0])
      BY <1>3 DEF TakeFirst, Returns
    <2> QED
      BY <2>1, <2>2 DEF Channel!Deliver, Channel!Reply
  <1> QED
    BY <1>1, <1>2, <1>3

\* What a caller does to blocks that were delivered to it is not seen in the queue.
LEMMA RefineCaller ==
  ASSUME TypeOK, TypeOK', OneOwner, CallerFree \/ CallerWrite \/ UNCHANGED vars
  PROVE  UNCHANGED Channel!chan
  <1>1. /\ event_count' = event_count /\ event_queue' = event_queue /\ result' = result
        /\ \A q \in Queued : mem'[q] = mem[q]
    <2>1. /\ \A q \in Queued : q \in Block /\ q \notin held
          /\ held \subseteq Block /\ mem \in [Block -> Data \cup {NULL}]
      BY DEF OneOwner, TypeOK, Allocated
    <2>2. CASE CallerFree
      <3> PICK b \in held : mem' = [mem EXCEPT ![b] = NULL]
        BY <2>2 DEF CallerFree
      <3> QED
        BY <2>1, <2>2 DEF CallerFree
    <2>3. CASE CallerWrite
      <3> PICK b \in held, d \in Data : mem' = [mem EXCEPT ![b] = d]
        BY <2>3 DEF CallerWrite
      <3> QED
        BY <2>1, <2>3 DEF CallerWrite
    <2>4. CASE UNCHANGED vars
      BY <2>4 DEF vars
    <2> QED
      BY <2>2, <2>3, <2>4
  <1>2. LiveKept
    BY <1>1, LiveViews
  <1>3. Pending' = Pending
    BY <1>1, <1>2, PendingSame
  <1> QED
    BY <1>1, <1>3 DEF Channel!chan

\* The slots, the counter and the copied payloads implement the bounded FIFO channel, for
\* any capacity and any callers.
THEOREM ChannelImplemented == Spec => ImplementsChannel
  <1>1. TypeOK /\ TypeOK' /\ OneOwner /\ [Next]_vars => [Channel!ChanNext]_(Channel!chan)
    <2> SUFFICES ASSUME TypeOK, TypeOK', OneOwner, [Next]_vars
                 PROVE  Channel!ChanNext \/ UNCHANGED Channel!chan
      OBVIOUS
    <2>1. CASE fossil_sys_event_init \/ fossil_sys_event_shutdown
      BY <2>1, RefineReset DEF Channel!ChanNext
    <2>2. ASSUME NEW id \in Id, NEW data \in Data \cup {NULL}, NEW size \in Sizes,
                 fossil_sys_event_post(id, data, size)
          PROVE  Channel!ChanNext
      BY <2>2, RefinePost DEF Channel!ChanNext
    <2>3. CASE fossil_sys_event_poll \/ fossil_sys_event_wait
      BY <2>3, RefineTake DEF fossil_sys_event_poll, fossil_sys_event_wait, Channel!ChanNext
    <2>4. CASE CallerFree \/ CallerWrite \/ UNCHANGED vars
      BY <2>4, RefineCaller
    <2> QED
      BY <2>1, <2>2, <2>3, <2>4 DEF Next
  <1> QED
    BY RefineInit, <1>1, TypeCorrect, OwnersCorrect, PTL
    DEF Spec, ImplementsChannel, Channel!ChanSpec
-----------------------------------------------------------------------------
(* EventWait *)

Bounded == RaceTypeOK /\ IndicesInBounds

LEMMA BoundedInit == RaceInit => Bounded
  BY WaitAssumption, SlotsAssumption
  DEF RaceInit, Bounded, RaceTypeOK, IndicesInBounds, PostInBounds, PollInBounds, Slots

LEMMA BoundedPost == Bounded /\ Post => Bounded'
  <1> SUFFICES ASSUME Bounded, Post PROVE Bounded'
    OBVIOUS
  <1>0. MAX_EVENTS \in Nat \ {0} /\ MAX_CPU \in Nat
    BY WaitAssumption, SlotsAssumption
  <1> USE <1>0 DEF Bounded, RaceTypeOK, IndicesInBounds, PostInBounds,
                   PollInBounds, Slots, waitVars
  <1>1. CASE PostCheck
    BY <1>1 DEF PostCheck
  <1>2. CASE PostSlot
    BY <1>2 DEF PostSlot
  <1>3. CASE PostWrite
    BY <1>3 DEF PostWrite
  <1>4. CASE PostLoad
    BY <1>4 DEF PostLoad
  <1>5. CASE PostStore
    BY <1>5 DEF PostStore
  <1> QED
    BY <1>1, <1>2, <1>3, <1>4, <1>5 DEF Post

LEMMA BoundedWait == Bounded /\ Wait => Bounded'
  <1> SUFFICES ASSUME Bounded, Wait PROVE Bounded'
    OBVIOUS
  <1>0. MAX_EVENTS \in Nat \ {0} /\ MAX_CPU \in Nat
    BY WaitAssumption, SlotsAssumption
  <1> USE <1>0 DEF Bounded, RaceTypeOK, IndicesInBounds, PostInBounds,
                   PollInBounds, Slots, postVars
  <1>1. ASSUME NEW t \in Timeouts, WaitCall(t) PROVE Bounded'
    BY <1>1 DEF WaitCall
  <1>2. CASE WaitSeen
    BY <1>2 DEF WaitSeen
  <1>3. ASSUME NEW now \in {cpu, cpu + 1}, WaitSpin(now) PROVE Bounded'
    <2>1. cpu' \in 0 .. MAX_CPU
      BY <1>3 DEF WaitSpin
    <2>2. /\ waiter' \in {"idle", "spin"}
          /\ outcome' \in {"timeout", outcome}
          /\ UNCHANGED <<event_queue, event_count, poster, post_at, post_load,
                         stores, wait_load, timeout, out>>
      BY <1>3 DEF WaitSpin
    <2> QED
      BY <2>1, <2>2
  <1>4. CASE PollCheck
    BY <1>4 DEF PollCheck
  <1>5. CASE PollCopy
    BY <1>5 DEF PollCopy
  <1>6. CASE PollMove
    <2>1. PICK n \in {event_count, wait_load} :
            /\ wait_load' = n
            /\ event_queue' = [i \in Slots |-> IF i + 1 < n THEN event_queue[i + 1]
                                                            ELSE event_queue[i]]
      BY <1>6 DEF PollMove
    <2>2. event_queue' \in [Slots -> Id \cup {NULL}]
      BY <2>1
    <2> QED
      BY <1>6, <2>1, <2>2 DEF PollMove
  <1>7. CASE PollLoad
    BY <1>7 DEF PollLoad
  <1>8. CASE PollStore
    BY <1>8 DEF PollStore
  <1> QED
    BY <1>1, <1>2, <1>3, <1>4, <1>5, <1>6, <1>7, <1>8 DEF Wait, Poll

LEMMA BoundedNext == Bounded /\ [RaceNext]_raceVars => Bounded'
  <1>1. Bounded /\ UNCHANGED raceVars => Bounded'
    BY DEF raceVars, postVars, waitVars, Bounded, RaceTypeOK, IndicesInBounds, PostInBounds,
           PollInBounds
  <1> QED
    BY <1>1, BoundedPost, BoundedWait DEF RaceNext

LEMMA BoundedAlways == RaceSpec => []Bounded
  BY BoundedInit, BoundedNext, PTL DEF RaceSpec

\* The variables keep their types, for every size of the array.
THEOREM RaceTypeCorrect == RaceSpec => []RaceTypeOK
  BY BoundedAlways, PTL DEF Bounded

\* No interleaving of one poster and one waiter moves the counter or a slot index out
\* of the array, whether or not stores overtake one another.
THEOREM BoundsCorrect == RaceSpec => []IndicesInBounds
  BY BoundedAlways, PTL DEF Bounded
-----------------------------------------------------------------------------
\* What NoPhantomEvent rests on.  Each thread's last reading of the counter bounds it
\* from one side, because only the poster counts up and only the waiter down; the
\* slots below every such bound hold posted events, since a slot that was once filled
\* is never zeroed again.
Filled(n) == \A i \in Slots : i < n => event_queue[i] \in Id

PosterAhead ==
  /\ poster \in {"idle", "slot", "write", "load", "store"}
  /\ poster # "idle" => event_count <= post_load /\ Filled(post_load)
  /\ poster = "write" => post_at = post_load
  /\ poster \in {"load", "store"} => Filled(post_load + 1)

WaiterBehind ==
  /\ waiter \in {"poll", "copy", "move", "load", "store"} => wait_load <= event_count
  /\ waiter \in {"move", "load", "store"} \/ outcome = "event" => out \in Id

Posted == stores = "ordered" => Filled(event_count) /\ PosterAhead /\ WaiterBehind

LEMMA PostedInit == RaceInit => Posted
  BY WaitAssumption, SlotsAssumption DEF RaceInit, Posted, Filled, PosterAhead, WaiterBehind, Slots

LEMMA PostedPost == Bounded /\ Posted /\ Post => Posted'
  <1> SUFFICES ASSUME Bounded, Posted, Post, stores' = "ordered"
               PROVE  (Filled(event_count) /\ PosterAhead /\ WaiterBehind)'
    BY DEF Posted
  <1>0. MAX_EVENTS \in Nat \ {0} /\ MAX_CPU \in Nat
    BY WaitAssumption, SlotsAssumption
  <1> USE <1>0 DEF Posted, Filled, PosterAhead, WaiterBehind, Bounded,
                   RaceTypeOK, IndicesInBounds, PostInBounds, PollInBounds, Slots,
                   waitVars
  <1>1. CASE PostCheck
    BY <1>1 DEF PostCheck
  <1>2. CASE PostSlot
    BY <1>2 DEF PostSlot
  <1>3. CASE PostWrite
    BY <1>3 DEF PostWrite
  <1>4. CASE PostLoad
    BY <1>4 DEF PostLoad
  <1>5. CASE PostStore
    BY <1>5 DEF PostStore
  <1> QED
    BY <1>1, <1>2, <1>3, <1>4, <1>5 DEF Post

LEMMA PostedWait == Bounded /\ Posted /\ Wait => Posted'
  <1> SUFFICES ASSUME Bounded, Posted, Wait, stores' = "ordered"
               PROVE  (Filled(event_count) /\ PosterAhead /\ WaiterBehind)'
    BY DEF Posted
  <1>0. MAX_EVENTS \in Nat \ {0} /\ MAX_CPU \in Nat
    BY WaitAssumption, SlotsAssumption
  <1> USE <1>0 DEF Posted, Filled, PosterAhead, WaiterBehind, Bounded,
                   RaceTypeOK, IndicesInBounds, PostInBounds, PollInBounds, Slots,
                   postVars
  <1>1. ASSUME NEW t \in Timeouts, WaitCall(t)
        PROVE  (Filled(event_count) /\ PosterAhead /\ WaiterBehind)'
    BY <1>1 DEF WaitCall
  <1>2. CASE WaitSeen
    BY <1>2 DEF WaitSeen
  <1>3. ASSUME NEW now \in {cpu, cpu + 1}, WaitSpin(now)
        PROVE  (Filled(event_count) /\ PosterAhead /\ WaiterBehind)'
    <2>1. /\ waiter' \in {"idle", "spin"}
          /\ outcome' \in {"timeout", outcome}
          /\ UNCHANGED <<event_queue, event_count, poster, post_at, post_load,
                         stores, wait_load, out>>
      BY <1>3 DEF WaitSpin
    <2> QED
      BY <2>1
  <1>4. CASE PollCheck
    BY <1>4 DEF PollCheck
  <1>5. CASE PollCopy
    BY <1>5 DEF PollCopy
  <1>6. CASE PollMove
    <2>1. PICK n \in {event_count, wait_load} :
            /\ wait_load' = n
            /\ event_queue' = [i \in Slots |-> IF i + 1 < n THEN event_queue[i + 1]
                                                            ELSE event_queue[i]]
      BY <1>6 DEF PollMove
    <2>2. UNCHANGED <<event_count, poster, post_at, post_load, stores, out, outcome>>
      BY <1>6 DEF PollMove
    <2>3. n \in Nat /\ n <= event_count /\ event_count <= MAX_EVENTS
      BY <1>6, <2>1 DEF PollMove
    <2>4. ASSUME NEW i \in Slots, event_queue[i] \in Id
          PROVE  event_queue'[i] \in Id
      <3>1. CASE i + 1 < n
        <4>1. i + 1 \in Slots /\ i + 1 < event_count
          BY <2>2, <2>3, <3>1
        <4> QED
          BY <2>1, <2>2, <2>3, <3>1, <4>1
      <3> QED
        BY <2>1, <2>4, <3>1
    <2> QED
      BY <1>6, <2>1, <2>2, <2>3, <2>4 DEF PollMove
  <1>7. CASE PollLoad
    BY <1>7 DEF PollLoad
  <1>8. CASE PollStore
    BY <1>8 DEF PollStore
  <1> QED
    BY <1>1, <1>2, <1>3, <1>4, <1>5, <1>6, <1>7, <1>8 DEF Wait, Poll

LEMMA PostedNext == Bounded /\ Posted /\ [RaceNext]_raceVars => Posted'
  <1>1. Posted /\ UNCHANGED raceVars => Posted'
    BY DEF raceVars, postVars, waitVars, Posted, Filled, PosterAhead, WaiterBehind
  <1> QED
    BY <1>1, PostedPost, PostedWait DEF RaceNext

\* A wait or poll never hands out a slot that no post has filled, as long as stores
\* have arrived in order: what lost updates can do to the queue is repeat or drop events.
THEOREM NoPhantomCorrect == RaceSpec => []NoPhantomEvent
  <1>1. Posted => NoPhantomEvent
    BY DEF Posted, WaiterBehind, NoPhantomEvent
  <1> QED
    BY <1>1, BoundedAlways, PostedInit, PostedNext, PTL DEF RaceSpec
-----------------------------------------------------------------------------
(* Remainders and quotients of the elapsed time *)

LEMMA SmallMod ==
  ASSUME NEW x \in Nat, NEW m \in Nat \ {0}, x < m
  PROVE  x % m = x
  OBVIOUS

LEMMA ModBound ==
  ASSUME NEW x \in Nat, NEW m \in Nat \ {0}
  PROVE  x % m \in Nat /\ x % m <= x
  OBVIOUS

LEMMA DivBound ==
  ASSUME NEW x \in Nat, NEW c \in Nat \ {0}
  PROVE  x \div c \in Nat /\ (x \div c) * c <= x
  OBVIOUS

LEMMA ProductGrows ==
  ASSUME NEW a \in Nat, NEW b \in Nat, NEW c \in Nat, a <= b
  PROVE  a * c \in Nat /\ b * c \in Nat /\ a * c <= b * c
  OBVIOUS

\* What the loop compares with timeout_ms is no more than the time that has passed.
LEMMA ElapsedBound ==
  ASSUME NEW ticks \in Nat, 2 * ticks * MULT < CLOCK_MOD
  PROVE  ElapsedMs(ticks) \in Nat /\ ElapsedMs(ticks) * CLOCKS_PER_SEC <= ticks * MULT
  <1> DEFINE x == ticks * MULT
  <1>1. x \in Nat /\ 2 * x = 2 * ticks * MULT
    BY WaitAssumption, SlotsAssumption
  <1>2. CLOCK_MOD \in Nat \ {0} /\ CLOCKS_PER_SEC \in Nat \ {0} /\ UINT32_MOD \in Nat \ {0}
    BY WaitAssumption, SlotsAssumption
  <1> HIDE DEF x
  <1>3. x < CLOCK_MOD /\ 2 * x < CLOCK_MOD
    BY <1>1, <1>2
  <1>4. x % CLOCK_MOD = x
    BY <1>1, <1>2, <1>3, SmallMod
  <1>5. Signed(x) = x
    BY <1>1, <1>2, <1>3, <1>4 DEF Signed
  <1>6. x \div CLOCKS_PER_SEC \in Nat /\ (x \div CLOCKS_PER_SEC) * CLOCKS_PER_SEC <= x
    BY <1>1, <1>2, DivBound
  <1>7. ElapsedMs(ticks) = (x \div CLOCKS_PER_SEC) % UINT32_MOD
    BY <1>1, <1>5 DEF ElapsedMs, Quotient, x
  <1>8. ElapsedMs(ticks) \in Nat /\ ElapsedMs(ticks) <= x \div CLOCKS_PER_SEC
    BY <1>2, <1>6, <1>7, ModBound
  <1>9. ElapsedMs(ticks) * CLOCKS_PER_SEC <= (x \div CLOCKS_PER_SEC) * CLOCKS_PER_SEC
        /\ ElapsedMs(ticks) * CLOCKS_PER_SEC \in Nat
        /\ (x \div CLOCKS_PER_SEC) * CLOCKS_PER_SEC \in Nat
    BY <1>2, <1>6, <1>8, ProductGrows
  <1>10. ElapsedMs(ticks) * CLOCKS_PER_SEC <= x
    BY <1>1, <1>6, <1>9
  <1> QED
    BY <1>8, <1>10 DEF x

\* A wait that still spins has reported nothing.
Unreported == waiter = "spin" => outcome # "timeout"

LEMMA UnreportedNext == Unreported /\ [RaceNext]_raceVars => Unreported'
  <1>1. Unreported /\ Post => Unreported'
    BY DEF Unreported, Post, PostCheck, PostSlot, PostWrite, PostLoad, PostStore, waitVars
  <1>2. ASSUME NEW now PROVE Unreported /\ WaitSpin(now) => Unreported'
    BY DEF Unreported, WaitSpin
  <1>3. Unreported /\ Wait => Unreported'
    BY <1>2 DEF Unreported, Wait, WaitCall, WaitSeen, Poll, PollCheck, PollCopy, PollMove,
                PollLoad, PollStore
  <1>4. Unreported /\ UNCHANGED raceVars => Unreported'
    BY DEF Unreported, raceVars, waitVars
  <1> QED
    BY <1>1, <1>3, <1>4 DEF RaceNext

\* A wait reports a timeout only after timeout_ms of processor time, whatever the
\* frequency of the clock and the widths of clock_t and the cast, while the product fits.
THEOREM TimeoutCorrect == RaceSpec => []TimeoutNotEarly
  <1>1. RaceInit => Unreported /\ TimeoutNotEarly
    BY DEF RaceInit, Unreported, TimeoutNotEarly
  <1>2. Bounded /\ Unreported /\ TimeoutNotEarly /\ [RaceNext]_raceVars => TimeoutNotEarly'
    <2> SUFFICES ASSUME Bounded, Unreported, TimeoutNotEarly, [RaceNext]_raceVars PROVE TimeoutNotEarly'
      OBVIOUS
    <2>1. CASE UNCHANGED <<outcome, timeout, cpu>>
      BY <2>1 DEF TimeoutNotEarly, ProductFits
    <2>2. CASE outcome' # "timeout"
      BY <2>2 DEF TimeoutNotEarly
    <2>3. CASE Post
      BY <2>1, <2>3 DEF Post, PostCheck, PostSlot, PostWrite, PostLoad, PostStore, waitVars
    <2>4. ASSUME NEW now \in Nat, WaitSpin(now)
          PROVE  TimeoutNotEarly'
      <3> SUFFICES ASSUME outcome' = "timeout", 2 * now * MULT < CLOCK_MOD
                   PROVE  now * MULT >= timeout * CLOCKS_PER_SEC
        BY <2>4 DEF WaitSpin, TimeoutNotEarly, ProductFits
      <3>1. UINT32_MOD \in Nat \ {0} /\ CLOCKS_PER_SEC \in Nat /\ MULT \in Nat
        BY WaitAssumption, SlotsAssumption
      <3>2. ElapsedMs(now) \in Nat /\ ElapsedMs(now) * CLOCKS_PER_SEC <= now * MULT
        BY <3>1, ElapsedBound
      <3>3. CASE ElapsedMs(now) >= timeout
        <4>1. timeout \in Nat
          BY WaitAssumption, SlotsAssumption DEF Bounded, RaceTypeOK
        <4>2. /\ timeout * CLOCKS_PER_SEC \in Nat /\ ElapsedMs(now) * CLOCKS_PER_SEC \in Nat
              /\ timeout * CLOCKS_PER_SEC <= ElapsedMs(now) * CLOCKS_PER_SEC
          BY <3>1, <3>2, <3>3, <4>1, ProductGrows
        <4>3. now * MULT \in Nat
          BY <3>1
        <4> QED
          BY <3>2, <4>2, <4>3
      <3>4. CASE ~(ElapsedMs(now) >= timeout)
        <4>1. waiter = "spin" /\ outcome = "timeout"
          BY <2>4, <3>4 DEF WaitSpin
        <4> QED
          BY <4>1 DEF Unreported
      <3> QED
        BY <3>3, <3>4
    <2>5. cpu \in Nat
      BY WaitAssumption, SlotsAssumption DEF Bounded, RaceTypeOK
    <2>6. CASE Wait
      BY <2>1, <2>2, <2>4, <2>5, <2>6
      DEF Wait, WaitCall, WaitSeen, Poll, PollCheck, PollCopy, PollMove, PollLoad, PollStore
    <2>7. CASE UNCHANGED raceVars
      BY <2>1, <2>7 DEF raceVars, waitVars
    <2> QED
      BY <2>3, <2>6, <2>7 DEF RaceNext
  <1> QED
    BY <1>1, <1>2, UnreportedNext, BoundedAlways, PTL DEF RaceSpec
=============================================================================

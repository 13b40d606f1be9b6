----------------------------- MODULE EventSlots -----------------------------
(***************************************************************************)
(* The static data of code/logic/event.c: an array of slots and the number *)
(* of those in use.  What a slot holds is for the modules that extend this *)
(* one: whole events in EventQueue, only their identifiers in EventWait.   *)
(***************************************************************************)
EXTENDS Integers

CONSTANTS MAX_EVENTS,  \* the slots of event_queue
          Id,          \* event identifiers (char pointers, kept as given)
          NULL

ASSUME SlotsAssumption == MAX_EVENTS \in Nat \ {0} /\ NULL \notin Id

VARIABLES event_queue, \* the slots
          event_count  \* the number of live slots

Slots == 0 .. MAX_EVENTS - 1
=============================================================================

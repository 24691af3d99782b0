------------------------------ MODULE KeyQueue ------------------------------
(***************************************************************************)
(* The ring of key events between the keyboard interrupt and the main loop *)
(* (src/src/keyboard.c).  The interrupt handler enqueues; it may run       *)
(* between any two instructions of kbd_get_event, whose copy of the event  *)
(* and whose store of the new head are therefore two steps.  The handler   *)
(* itself is not interrupted (its gate clears IF) and is one step.         *)
(***************************************************************************)
EXTENDS Naturals, Sequences

CONSTANTS
  EVENT_QUEUE,   \* slots in the ring
  Event,         \* key events
  NoEvent        \* an event that was never enqueued: a zeroed slot

VARIABLES
  queue,   \* the slots
  q_head,  \* the next slot to read
  q_tail,  \* the next slot to write
  copied,  \* kbd_get_event has copied the event and not yet moved the head
  kev,     \* the caller's struct key_event
  got      \* the event kbd_get_event returned last

keyVars == <<queue, q_head, q_tail, copied, kev, got>>

Slot == 0 .. (EVENT_QUEUE - 1)

After(slot) == (slot + 1) % EVENT_QUEUE

Init ==
  /\ queue = [s \in Slot |-> NoEvent]
  /\ q_head = 0 /\ q_tail = 0
  /\ copied = FALSE /\ kev = NoEvent /\ got = NoEvent

\* A full ring keeps one slot free and drops the event.
enqueue(ev) ==
  /\ IF After(q_tail) = q_head
     THEN UNCHANGED <<queue, q_tail>>
     ELSE /\ queue' = [queue EXCEPT ![q_tail] = ev]
          /\ q_tail' = After(q_tail)
  /\ UNCHANGED <<q_head, copied, kev, got>>

\* kbd_get_event: the empty test returns 0 ...
Empty == q_head = q_tail

\* ... otherwise the event is copied out ...
get_copy ==
  /\ ~Empty /\ ~copied
  /\ kev' = queue[q_head]
  /\ copied' = TRUE
  /\ UNCHANGED <<queue, q_head, q_tail, got>>

\* Mutant of get_advance.
get_advance_ReadsAgain ==
  /\ copied
  /\ q_head' = After(q_head)
  /\ got' = queue[q_head']
  /\ copied' = FALSE
  /\ UNCHANGED <<queue, q_tail, kev>>

\* ... and then its slot is given back.
get_advance ==
  /\ copied
  /\ q_head' = After(q_head)
  /\ got' = kev
  /\ copied' = FALSE
  /\ UNCHANGED <<queue, q_tail, kev>>

Next == get_copy \/ get_advance \/ \E ev \in Event : enqueue(ev)

Spec == Init /\ [][Next]_keyVars

-----------------------------------------------------------------------------
(* Properties *)

\* Number of events in the ring, and the i-th of them.
Waiting ==
  IF q_head <= q_tail THEN q_tail - q_head ELSE q_tail + EVENT_QUEUE - q_head

Place(i) ==
  IF q_head + i - 1 < EVENT_QUEUE THEN q_head + i - 1
                                  ELSE q_head + i - 1 - EVENT_QUEUE

Fifo == [i \in 1 .. Waiting |-> queue[Place(i)]]

\* Slots between head and tail hold events that were enqueued.
TypeOK ==
  /\ queue \in [Slot -> Event \cup {NoEvent}]
  /\ q_head \in Slot /\ q_tail \in Slot
  /\ copied \in BOOLEAN
  /\ kev \in Event \cup {NoEvent} /\ got \in Event \cup {NoEvent}
  /\ \A i \in 1 .. Waiting : queue[Place(i)] \in Event

\* The ring with its racing reader is a queue of EVENT_QUEUE - 1 events: in
\* order, none twice, none lost but those that find it full.
BF == INSTANCE BoundedFifo WITH Capacity <- EVENT_QUEUE - 1, fifo <- Fifo
ImplementsBoundedFifo == BF!Spec
=============================================================================

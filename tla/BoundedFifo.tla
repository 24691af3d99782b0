---------------------------- MODULE BoundedFifo -----------------------------
(***************************************************************************)
(* What the keyboard driver promises its reader (src/src/keyboard.h): a    *)
(* queue of events that come out in the order they went in, each once; an  *)
(* event that finds the queue full is dropped whole.                       *)
(***************************************************************************)
EXTENDS Naturals, Sequences

CONSTANTS
  Event,      \* key events
  NoEvent,    \* what the reader has before it reads anything
  Capacity    \* events that fit

VARIABLES
  fifo,   \* the events waiting, oldest first
  got     \* the event the reader received last

fifoVars == <<fifo, got>>

Init == fifo = <<>> /\ got = NoEvent

Put(ev) ==
  /\ fifo' = IF Len(fifo) < Capacity THEN Append(fifo, ev) ELSE fifo
  /\ UNCHANGED got

Get ==
  /\ fifo # <<>>
  /\ got' = Head(fifo)
  /\ fifo' = Tail(fifo)

Next == Get \/ \E ev \in Event : Put(ev)

Spec == Init /\ [][Next]_fifoVars
=============================================================================

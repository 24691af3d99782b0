--------------------------- MODULE ConsoleProofs ----------------------------
(***************************************************************************)
(* Proofs about what is typed, from the bytes the keyboard sends through   *)
(* the ring of key events to the lines of the terminal.                    *)
(*                                                                         *)
(* The ring, used by the main loop and interrupted by the keyboard at any  *)
(* instruction, implements a bounded first-in first-out queue, for every   *)
(* number of slots and every set of events.  Its inductive invariant adds  *)
(* to type correctness that the event kbd_get_event has copied is still    *)
(* the one at the head: between the copy and the store of the new head an  *)
(* interrupt may fill other slots only.  The driver is correct for any set *)
(* of keys and any number of bytes that wait, the terminal for buffers and *)
(* windows of every size and any output.                                   *)
(***************************************************************************)
EXTENDS InputLoop, Keyboard, Terminal, SequenceTheorems, WellFoundedInduction, TLAPS

-----------------------------------------------------------------------------
(* THE RING: modules KeyQueue, InputLoop *)

CopyCurrent == copied => ~K!Empty /\ kev = queue[q_head]

IInv == K!TypeOK /\ CopyCurrent

\* One slot further is the next one, or the first after the last.
LEMMA AfterSlot ==
  ASSUME NEW s \in K!Slot
  PROVE  /\ K!After(s) = IF s + 1 = EVENT_QUEUE THEN 0 ELSE s + 1
         /\ K!After(s) \in K!Slot
<1>1. EVENT_QUEUE \in Nat /\ EVENT_QUEUE > 1 /\ s \in 0 .. (EVENT_QUEUE - 1)
  BY QueueAssumption DEF K!Slot
<1>2. CASE s + 1 = EVENT_QUEUE
  <2>1. EVENT_QUEUE % EVENT_QUEUE = 0
    BY <1>1, SMT
  <2> QED
    BY <1>1, <1>2, <2>1 DEF K!After, K!Slot
<1>3. CASE s + 1 < EVENT_QUEUE
  <2>1. (s + 1) % EVENT_QUEUE = s + 1
    BY <1>1, <1>3, SMT
  <2> QED
    BY <1>1, <1>3, <2>1 DEF K!After, K!Slot
<1> QED
  BY <1>1, <1>2, <1>3

\* The ring is empty, or full, exactly when its two tests say so; a waiting event
\* lies in a slot that is not the one written next.
LEMMA RingPlaces ==
  ASSUME K!TypeOK
  PROVE  /\ K!Waiting \in 0 .. (EVENT_QUEUE - 1)
         /\ K!Waiting = 0 <=> K!Empty
         /\ K!Waiting = EVENT_QUEUE - 1 <=> K!After(q_tail) = q_head
         /\ \A i \in 1 .. K!Waiting : K!Place(i) \in K!Slot \ {q_tail}
         /\ K!Place(K!Waiting + 1) = q_tail
         /\ K!Place(1) = q_head
<1>1. /\ EVENT_QUEUE \in Nat /\ EVENT_QUEUE > 1
      /\ q_head \in 0 .. (EVENT_QUEUE - 1) /\ q_tail \in 0 .. (EVENT_QUEUE - 1)
  BY QueueAssumption DEF K!TypeOK, K!Slot
<1>2. K!After(q_tail) = IF q_tail + 1 = EVENT_QUEUE THEN 0 ELSE q_tail + 1
  BY AfterSlot DEF K!TypeOK
<1> USE <1>1
<1>3. K!Waiting \in 0 .. (EVENT_QUEUE - 1)
  BY SMT DEF K!Waiting
<1>4. K!Waiting = 0 <=> K!Empty
  BY SMT DEF K!Waiting, K!Empty
<1>5. K!Waiting = EVENT_QUEUE - 1 <=> K!After(q_tail) = q_head
  BY <1>2, SMT DEF K!Waiting
<1>6. ASSUME NEW i \in 1 .. K!Waiting
      PROVE  K!Place(i) \in K!Slot \ {q_tail}
  BY <1>3, SMT DEF K!Waiting, K!Place, K!Slot
<1>7. K!Place(K!Waiting + 1) = q_tail
  BY <1>3, SMT DEF K!Waiting, K!Place
<1>8. K!Place(1) = q_head
  BY SMT DEF K!Place
<1> QED
  BY <1>3, <1>4, <1>5, <1>6, <1>7, <1>8, SMT DEF K!Empty

\* The waiting events, oldest first.
FifoIsSequence ==
  /\ K!Fifo \in Seq(Event)
  /\ Len(K!Fifo) = K!Waiting
  /\ \A i \in 1 .. K!Waiting : K!Fifo[i] = queue[K!Place(i)]

\* The waiting events are a sequence of events ...
LEMMA FifoSequence == K!TypeOK => FifoIsSequence
<1> SUFFICES ASSUME K!TypeOK PROVE FifoIsSequence
  OBVIOUS
<1>1. K!Waiting \in Nat
  BY RingPlaces, QueueAssumption
<1>2. K!Fifo \in [1 .. K!Waiting -> Event]
  BY DEF K!Fifo, K!TypeOK
<1>3. K!Fifo \in Seq(Event)
  BY <1>1, <1>2, SeqDef
<1>4. Len(K!Fifo) = K!Waiting
  BY <1>1, <1>2, <1>3, LenProperties
<1> QED
  BY <1>3, <1>4 DEF K!Fifo, FifoIsSequence

\* ... and they are one after a step.
LEMMA FifoSequenceNext == K!TypeOK' => FifoIsSequence'
<1> QED
  BY FifoSequence, PTL

-----------------------------------------------------------------------------
(* The reader's two steps *)

\* Copying the event out changes nothing the abstract queue has.
LEMMA CopyStep ==
  ASSUME IInv, K!get_copy
  PROVE  IInv' /\ UNCHANGED K!BF!fifoVars
<1>1. UNCHANGED <<queue, q_head, q_tail, got>> /\ kev' = queue[q_head] /\ copied'
      /\ ~K!Empty
  BY DEF K!get_copy
<1>2. queue[q_head] \in Event
  <2>1. 1 \in 1 .. K!Waiting
    BY RingPlaces, <1>1, QueueAssumption DEF IInv
  <2> QED
    BY <2>1, RingPlaces DEF IInv, K!TypeOK
<1>3. K!Waiting' = K!Waiting /\ \A i : K!Place(i)' = K!Place(i)
  BY <1>1 DEF K!Waiting, K!Place
<1>4. K!TypeOK'
  BY <1>1, <1>2, <1>3 DEF IInv, K!TypeOK, K!get_copy
<1>5. CopyCurrent'
  BY <1>1 DEF CopyCurrent, K!Empty
<1>6. K!Fifo' = K!Fifo
  BY <1>1, <1>3 DEF K!Fifo
<1> QED
  BY <1>1, <1>4, <1>5, <1>6 DEF IInv, K!BF!fifoVars

\* Giving the slot back takes the oldest event out of the abstract queue.
LEMMA AdvanceStep ==
  ASSUME IInv, K!get_advance
  PROVE  IInv' /\ K!BF!Get
<1>1. /\ UNCHANGED <<queue, q_tail, kev>> /\ ~copied' /\ q_head' = K!After(q_head)
      /\ ~K!Empty /\ got' = queue[q_head]
  BY DEF K!get_advance, IInv, CopyCurrent
<1>2. /\ EVENT_QUEUE \in Nat /\ EVENT_QUEUE > 1
      /\ q_head \in 0 .. (EVENT_QUEUE - 1) /\ q_tail \in 0 .. (EVENT_QUEUE - 1)
  BY QueueAssumption DEF IInv, K!TypeOK, K!Slot
<1>3. /\ q_head' = IF q_head + 1 = EVENT_QUEUE THEN 0 ELSE q_head + 1
      /\ q_head' \in K!Slot
  BY <1>1, AfterSlot DEF IInv, K!TypeOK
<1>4. K!Waiting \in 1 .. (EVENT_QUEUE - 1) /\ K!Waiting' = K!Waiting - 1
  BY <1>1, <1>2, <1>3, SMT DEF K!Waiting, K!Empty
<1>5. ASSUME NEW i \in 1 .. K!Waiting'
      PROVE  i + 1 \in 1 .. K!Waiting /\ K!Place(i)' = K!Place(i + 1)
  BY <1>1, <1>2, <1>3, <1>4, SMT DEF K!Waiting, K!Place
<1>6. K!TypeOK'
  <2>1. \A i \in 1 .. K!Waiting' : queue'[K!Place(i)'] \in Event
    BY <1>1, <1>5 DEF IInv, K!TypeOK
  <2>2. got' \in Event
    <3>1. 1 \in 1 .. K!Waiting
      BY <1>4
    <3> QED
      BY <1>1, <3>1, RingPlaces DEF IInv, K!TypeOK
  <2>3. /\ queue' \in [K!Slot -> Event \cup {NoEvent}]
        /\ q_head' \in K!Slot /\ q_tail' \in K!Slot
        /\ copied' \in BOOLEAN
        /\ kev' \in Event \cup {NoEvent} /\ got' \in Event \cup {NoEvent}
    BY <1>1, <1>3, <2>2 DEF IInv, K!TypeOK, K!get_advance
  <2> QED
    BY <2>1, <2>3 DEF K!TypeOK
<1>7. /\ K!Fifo # <<>> /\ K!Fifo \in Seq(Event) /\ Len(K!Fifo) = K!Waiting
      /\ K!Fifo[1] = queue[q_head]
  BY <1>4, FifoSequence, RingPlaces, EmptySeq DEF IInv, FifoIsSequence
<1>8. K!Fifo' = Tail(K!Fifo)
  <2>1. /\ Tail(K!Fifo) \in Seq(Event) /\ Len(Tail(K!Fifo)) = K!Waiting'
        /\ \A i \in 1 .. K!Waiting' : Tail(K!Fifo)[i] = K!Fifo[i + 1]
    BY <1>4, <1>7, HeadTailProperties
  <2>2. /\ K!Fifo' \in Seq(Event) /\ Len(K!Fifo') = K!Waiting'
        /\ \A i \in 1 .. K!Waiting' : K!Fifo'[i] = queue'[K!Place(i)']
    BY <1>6, FifoSequenceNext DEF FifoIsSequence
  <2>3. \A i \in 1 .. K!Waiting' : K!Fifo'[i] = Tail(K!Fifo)[i]
    BY <1>1, <1>5, <1>7, <2>1, <2>2, FifoSequence DEF IInv, FifoIsSequence
  <2> QED
    BY <2>1, <2>2, <2>3, SeqEqual
<1>9. Head(K!Fifo) = K!Fifo[1]
  BY <1>7
<1> QED
  BY <1>1, <1>6, <1>7, <1>8, <1>9 DEF IInv, CopyCurrent, K!BF!Get

-----------------------------------------------------------------------------
(* The interrupt *)

\* A ring with room takes the event behind the others; a full one drops it.
\* The slot written is never the one the reader may have copied from.
LEMMA EnqueueStep ==
  ASSUME IInv, NEW ev \in Event, K!enqueue(ev)
  PROVE  IInv' /\ K!BF!Put(ev)
<1>1. UNCHANGED <<q_head, copied, kev, got>>
  BY DEF K!enqueue
<1>2. K!Fifo \in Seq(Event) /\ Len(K!Fifo) = K!Waiting
  BY FifoSequence DEF IInv, FifoIsSequence
<1>3. CASE K!After(q_tail) = q_head
  <2>1. UNCHANGED <<queue, q_tail>> /\ Len(K!Fifo) = EVENT_QUEUE - 1
    BY <1>2, <1>3, RingPlaces DEF K!enqueue, IInv
  <2>2. K!Waiting' = K!Waiting /\ \A i : K!Place(i)' = K!Place(i)
    BY <1>1, <2>1 DEF K!Waiting, K!Place
  <2>3. K!Fifo' = K!Fifo
    BY <2>1, <2>2 DEF K!Fifo
  <2>4. K!TypeOK'
    BY <1>1, <2>1, <2>2 DEF IInv, K!TypeOK
  <2>5. CopyCurrent'
    BY <1>1, <2>1 DEF IInv, CopyCurrent, K!Empty
  <2>6. ~(Len(K!Fifo) < EVENT_QUEUE - 1)
    BY <2>1, QueueAssumption
  <2> QED
    BY <1>1, <2>3, <2>4, <2>5, <2>6 DEF IInv, K!BF!Put
<1>4. CASE K!After(q_tail) # q_head
  <2>1. queue' = [queue EXCEPT ![q_tail] = ev] /\ q_tail' = K!After(q_tail)
    BY <1>4 DEF K!enqueue
  <2>2. /\ EVENT_QUEUE \in Nat /\ EVENT_QUEUE > 1
        /\ q_head \in 0 .. (EVENT_QUEUE - 1) /\ q_tail \in 0 .. (EVENT_QUEUE - 1)
    BY QueueAssumption DEF IInv, K!TypeOK, K!Slot
  <2>3. /\ q_tail' = IF q_tail + 1 = EVENT_QUEUE THEN 0 ELSE q_tail + 1
        /\ q_tail' \in K!Slot /\ q_tail' # q_head
    BY <1>4, <2>1, AfterSlot DEF IInv, K!TypeOK
  <2>4. /\ K!Waiting \in 0 .. (EVENT_QUEUE - 2) /\ K!Waiting' = K!Waiting + 1
    BY <1>1, <2>2, <2>3, SMT DEF K!Waiting
  <2>5. \A i : K!Place(i)' = K!Place(i)
    BY <1>1 DEF K!Place
  <2>6. /\ \A i \in 1 .. K!Waiting : queue'[K!Place(i)'] = queue[K!Place(i)]
        /\ queue'[K!Place(K!Waiting + 1)] = ev
    <3>1. \A s \in K!Slot : queue'[s] = IF s = q_tail THEN ev ELSE queue[s]
      BY <2>1 DEF IInv, K!TypeOK
    <3>2. \A i \in 1 .. K!Waiting : K!Place(i)' \in K!Slot /\ K!Place(i)' # q_tail
      BY <2>5, RingPlaces DEF IInv
    <3>3. K!Place(K!Waiting + 1) = q_tail /\ q_tail \in K!Slot
      BY RingPlaces DEF IInv, K!TypeOK
    <3> QED
      BY <2>5, <3>1, <3>2, <3>3
  <2>7. K!TypeOK'
    <3>1. \A i \in 1 .. K!Waiting' : i \in 1 .. K!Waiting \/ i = K!Waiting'
      BY <2>2, <2>4
    <3>2. \A i \in 1 .. K!Waiting' : queue'[K!Place(i)'] \in Event
      <4> SUFFICES ASSUME NEW i \in 1 .. K!Waiting'
                   PROVE  queue'[K!Place(i)'] \in Event
        OBVIOUS
      <4>1. CASE i \in 1 .. K!Waiting
        BY <2>6, <4>1 DEF IInv, K!TypeOK
      <4>2. CASE i = K!Waiting'
        BY <2>4, <2>5, <2>6, <4>2
      <4> QED
        BY <3>1, <4>1, <4>2
    <3>3. queue' \in [K!Slot -> Event \cup {NoEvent}]
      BY <2>1 DEF IInv, K!TypeOK
    <3> QED
      BY <1>1, <2>3, <3>2, <3>3 DEF IInv, K!TypeOK
  <2>8. CopyCurrent'
    <3>1. ~K!Empty => queue'[q_head] = queue[q_head]
      BY <2>1 DEF K!Empty, IInv, K!TypeOK
    <3> QED
      BY <1>1, <2>3, <3>1 DEF IInv, CopyCurrent, K!Empty
  <2>9. K!Fifo' = Append(K!Fifo, ev)
    <3>1. /\ Append(K!Fifo, ev) \in Seq(Event) /\ Len(Append(K!Fifo, ev)) = K!Waiting'
          /\ \A i \in 1 .. K!Waiting : Append(K!Fifo, ev)[i] = K!Fifo[i]
          /\ Append(K!Fifo, ev)[K!Waiting'] = ev
      BY <1>2, <2>4, AppendProperties
    <3>2. /\ K!Fifo' \in Seq(Event) /\ Len(K!Fifo') = K!Waiting'
          /\ \A i \in 1 .. K!Waiting' : K!Fifo'[i] = queue'[K!Place(i)']
      BY <2>7, FifoSequenceNext DEF FifoIsSequence
    <3>3. \A i \in 1 .. K!Waiting' : i \in 1 .. K!Waiting \/ i = K!Waiting'
      BY <2>2, <2>4
    <3>4. \A i \in 1 .. K!Waiting' : K!Fifo'[i] = Append(K!Fifo, ev)[i]
      <4> SUFFICES ASSUME NEW i \in 1 .. K!Waiting'
                   PROVE  K!Fifo'[i] = Append(K!Fifo, ev)[i]
        OBVIOUS
      <4>1. CASE i \in 1 .. K!Waiting
        BY <2>6, <3>1, <3>2, <4>1, FifoSequence DEF IInv, FifoIsSequence
      <4>2. CASE i = K!Waiting'
        BY <2>4, <2>5, <2>6, <3>1, <3>2, <4>2
      <4> QED
        BY <3>3, <4>1, <4>2
    <3> QED
      BY <3>1, <3>2, <3>4, SeqEqual
  <2>10. Len(K!Fifo) < EVENT_QUEUE - 1
    BY <1>2, <2>2, <2>4
  <2> QED
    BY <1>1, <2>7, <2>8, <2>9, <2>10 DEF IInv, K!BF!Put
<1> QED
  BY <1>3, <1>4

\* A step that leaves the ring and its reader alone leaves all this alone.
LEMMA OtherStep ==
  ASSUME IInv, UNCHANGED keyVars
  PROVE  IInv' /\ UNCHANGED K!BF!fifoVars
<1>1. UNCHANGED <<queue, q_head, q_tail, copied, kev, got>>
  BY DEF keyVars
<1>2. K!Waiting' = K!Waiting /\ \A i : K!Place(i)' = K!Place(i)
  BY <1>1 DEF K!Waiting, K!Place
<1>3. K!TypeOK'
  BY <1>1, <1>2 DEF IInv, K!TypeOK
<1>4. CopyCurrent'
  BY <1>1 DEF IInv, CopyCurrent, K!Empty
<1>5. K!Fifo' = K!Fifo
  BY <1>1, <1>2 DEF K!Fifo
<1> QED
  BY <1>1, <1>3, <1>4, <1>5 DEF IInv, K!BF!fifoVars

-----------------------------------------------------------------------------
(* The theorems *)

\* At start the ring is empty and nothing has been copied.
LEMMA InitInvariant == Init => IInv /\ K!BF!Init
<1> SUFFICES ASSUME Init PROVE IInv /\ K!BF!Init
  OBVIOUS
<1>1. /\ queue = [s \in K!Slot |-> NoEvent] /\ q_head = 0 /\ q_tail = 0
      /\ copied = FALSE /\ kev = NoEvent /\ got = NoEvent
  BY DEF Init, K!Init
<1>2. K!Waiting = 0 /\ 0 \in K!Slot
  BY <1>1, QueueAssumption DEF K!Waiting, K!Slot
<1>3. K!TypeOK
  <2>1. queue \in [K!Slot -> Event \cup {NoEvent}]
    BY <1>1
  <2>2. 1 .. K!Waiting = {}
    BY <1>2
  <2> QED
    BY <1>1, <1>2, <2>1, <2>2 DEF K!TypeOK
<1>4. K!Fifo = <<>>
  BY <1>2, <1>3, FifoSequence, EmptySeq DEF FifoIsSequence
<1> QED
  BY <1>1, <1>3, <1>4 DEF IInv, CopyCurrent, K!BF!Init

\* Every step of the main loop and of the interrupts keeps the invariant and is
\* a step of the abstract queue or none.
LEMMA NextStep ==
  ASSUME IInv, [Next]_vars
  PROVE  IInv' /\ [K!BF!Next]_(K!BF!fifoVars)
<1>1. CASE key_copy
  BY <1>1, CopyStep DEF key_copy
<1>2. CASE key_take
  BY <1>2, AdvanceStep DEF key_take, K!BF!Next
<1>3. ASSUME NEW ev \in Event, kbd_irq(ev)
      PROVE  IInv' /\ K!BF!Next
  BY <1>3, EnqueueStep DEF kbd_irq, K!BF!Next
<1>4. CASE UNCHANGED keyVars
  BY <1>4, OtherStep
<1>5. ASSUME Main PROVE key_copy \/ key_take \/ UNCHANGED keyVars
  BY <1>5 DEF Main, loop_top, wm_handle_key, keys_done, mouse_get_position,
     mouse_get_buttons, wm_handle_mouse, mouse_clear_dirty, mouse_clean, paint,
     wm_redraw, hlt
<1>6. ASSUME NEW state \in MouseState, mouse_irq(state) PROVE UNCHANGED keyVars
  BY <1>6 DEF mouse_irq
<1>7. ASSUME timer_irq PROVE UNCHANGED keyVars
  BY <1>7 DEF timer_irq
<1>8. ASSUME UNCHANGED vars PROVE UNCHANGED keyVars
  BY <1>8 DEF vars
<1> QED
  BY <1>1, <1>2, <1>3, <1>4, <1>5, <1>6, <1>7, <1>8 DEF Next

\* The invariant holds of every state of the main loop and the interrupts.
THEOREM Invariant == Spec => []IInv
<1> QED
  BY InitInvariant, NextStep, PTL DEF Spec

\* Keys come out of the ring in the order they were typed, each once, and none
\* is lost but those that find it full, wherever the interrupts fall in
\* kbd_get_event and in the main loop around it.
THEOREM KeysInOrder == Spec => KeysComeInOrder
<1> QED
  BY InitInvariant, NextStep, Invariant, PTL DEF Spec, KeysComeInOrder, K!BF!Spec

-----------------------------------------------------------------------------
(* THE DRIVER: module Keyboard *)

KeyByte == [code : Code \cup {"E0"}, press : BOOLEAN, key : Keys, held : SUBSET Keys]

KbdTypes ==
  /\ down \subseteq Keys
  /\ wire \in Seq(KeyByte)
  /\ extended \in BOOLEAN

\* A byte names its key, which is an extended one exactly if the byte is the
\* prefix or comes behind it.
Framed(b, after) ==
  /\ b.code = "E0" => b.key.ext /\ ~after
  /\ b.code # "E0" => b.code = b.key.code /\ (b.key.ext <=> after)

FramedFrom(w, before) ==
  \A i \in DOMAIN w : Framed(w[i], IF i = 1 THEN before ELSE w[i - 1].code = "E0")

PrefixLast(w, before) == IF w = <<>> THEN before ELSE w[Len(w)].code = "E0"

\* Whether k is held changes with its own bytes only.
Follows(b, k, before) ==
  (k \in b.held) <=> IF b.code = k.code /\ ~b.key.ext THEN b.press ELSE before

FollowsFrom(w, k, before) ==
  \A i \in DOMAIN w : Follows(w[i], k, IF i = 1 THEN before ELSE k \in w[i - 1].held)

HeldLast(w, k, before) == IF w = <<>> THEN before ELSE k \in w[Len(w)].held

\* The driver's flag is what the key was before the first byte that waits, and
\* the key is what it was when the last was sent.
FlagFollows(flag, k) ==
  /\ FollowsFrom(wire, k, flag \in modifiers)
  /\ (k \in down) <=> HeldLast(wire, k, flag \in modifiers)

\* `extended` says what came before the first byte that waits, and the keyboard
\* has sent whole codes.
KbdInv ==
  /\ KbdTypes
  /\ FramedFrom(wire, extended) /\ ~PrefixLast(wire, extended)
  /\ FlagFollows("CTRL", CtrlKey)
  /\ FlagFollows("ALT", AltKey)

-----------------------------------------------------------------------------
(* Bytes that come and go *)

\* A byte comes behind those that wait.
LEMMA Appended ==
  ASSUME NEW s \in Seq(KeyByte), NEW b \in KeyByte
  PROVE  LET w == s \o <<b>>
         IN  /\ w \in Seq(KeyByte) /\ w # <<>>
             /\ DOMAIN w = 1 .. (Len(s) + 1) /\ Len(w) = Len(s) + 1
             /\ Len(s) \in Nat /\ DOMAIN s = 1 .. Len(s)
             /\ w[Len(s) + 1] = b
             /\ \A i \in DOMAIN s : w[i] = s[i]
<1> DEFINE w == s \o <<b>>
<1>1. <<b>> \in Seq(KeyByte) /\ Len(<<b>>) = 1 /\ <<b>>[1] = b
  OBVIOUS
<1>2. Len(s) \in Nat /\ DOMAIN s = 1 .. Len(s)
  BY LenProperties
<1>3. /\ w \in Seq(KeyByte) /\ Len(w) = Len(s) + Len(<<b>>)
      /\ \A i \in 1 .. (Len(s) + Len(<<b>>)) :
           w[i] = IF i <= Len(s) THEN s[i] ELSE <<b>>[i - Len(s)]
  BY <1>1, ConcatProperties
<1> HIDE DEF w
<1>4. Len(w) = Len(s) + 1 /\ DOMAIN w = 1 .. (Len(s) + 1)
  BY <1>1, <1>2, <1>3, LenProperties
<1>5. w[Len(s) + 1] = b
  <2>1. /\ Len(s) + 1 \in 1 .. (Len(s) + 1) /\ ~(Len(s) + 1 <= Len(s))
        /\ (Len(s) + 1) - Len(s) = 1
    BY <1>2
  <2> QED
    BY <1>1, <1>3, <2>1
<1>6. ASSUME NEW i \in DOMAIN s PROVE w[i] = s[i]
  <2>1. i \in 1 .. (Len(s) + 1) /\ i <= Len(s)
    BY <1>2
  <2> QED
    BY <1>1, <1>3, <2>1
<1>7. w # <<>>
  BY <1>2, <1>4, EmptySeq
<1> QED
  BY <1>2, <1>3, <1>4, <1>5, <1>6, <1>7 DEF w

LEMMA TwoOfOne ==
  ASSUME NEW a \in KeyByte, NEW b \in KeyByte
  PROVE  <<a, b>> = <<a>> \o <<b>>
<1>1. /\ <<a>> \in Seq(KeyByte) /\ Len(<<a>>) = 1 /\ <<a>>[1] = a
      /\ <<b>> \in Seq(KeyByte) /\ Len(<<b>>) = 1 /\ <<b>>[1] = b
      /\ <<a, b>> \in Seq(KeyByte) /\ Len(<<a, b>>) = 2
      /\ <<a, b>>[1] = a /\ <<a, b>>[2] = b
  OBVIOUS
<1> DEFINE v == <<a, b>>
           u == <<a>> \o <<b>>
<1>2. /\ u \in Seq(KeyByte) /\ Len(u) = 2
      /\ u[1] = a /\ u[2] = b
  <2>1. /\ u \in Seq(KeyByte) /\ Len(u) = 1 + 1
        /\ \A i \in 1 .. (1 + 1) : u[i] = IF i <= 1 THEN <<a>>[i] ELSE <<b>>[i - 1]
    BY <1>1, ConcatProperties
  <2> HIDE DEF u
  <2> QED
    BY <1>1, <2>1
<1>3. v \in Seq(KeyByte) /\ Len(v) = 2 /\ v[1] = a /\ v[2] = b
  BY <1>1
<1> HIDE DEF v, u
<1>4. \A i \in 1 .. Len(v) : v[i] = u[i]
  BY <1>2, <1>3
<1>5. v = u
  BY <1>2, <1>3, <1>4, SeqEqual
<1> QED
  BY <1>5 DEF v, u

\* The first byte is taken.
LEMMA TakenOff ==
  ASSUME NEW w \in Seq(KeyByte), w # <<>>
  PROVE  /\ Tail(w) \in Seq(KeyByte) /\ Head(w) = w[1] /\ Head(w) \in KeyByte
         /\ Len(w) \in Nat \ {0} /\ DOMAIN w = 1 .. Len(w)
         /\ Len(Tail(w)) = Len(w) - 1 /\ DOMAIN Tail(w) = 1 .. (Len(w) - 1)
         /\ \A i \in DOMAIN Tail(w) : Tail(w)[i] = w[i + 1]
         /\ Tail(w) = <<>> <=> Len(w) = 1
<1>1. /\ Head(w) \in KeyByte /\ Tail(w) \in Seq(KeyByte) /\ Len(Tail(w)) = Len(w) - 1
      /\ \A i \in 1 .. Len(Tail(w)) : Tail(w)[i] = w[i + 1]
  BY HeadTailProperties
<1>2. Len(w) \in Nat \ {0} /\ DOMAIN w = 1 .. Len(w)
  BY EmptySeq, LenProperties
<1>3. DOMAIN Tail(w) = 1 .. (Len(w) - 1)
  BY <1>1, LenProperties
<1>4. Tail(w) = <<>> <=> Len(w) = 1
  <2>1. Tail(w) # <<>> => Len(Tail(w)) # 0
    BY <1>1, EmptySeq
  <2>2. Tail(w) = <<>> => Len(Tail(w)) = 0
    BY EmptySeq
  <2> QED
    BY <1>1, <1>2, <2>1, <2>2
<1>5. Head(w) = w[1]
  BY <1>2
<1> QED
  BY <1>1, <1>2, <1>3, <1>4, <1>5

LEMMA FramedAppended ==
  ASSUME NEW s \in Seq(KeyByte), NEW b \in KeyByte, NEW before \in BOOLEAN,
         FramedFrom(s, before), Framed(b, PrefixLast(s, before))
  PROVE  /\ FramedFrom(s \o <<b>>, before)
         /\ PrefixLast(s \o <<b>>, before) <=> b.code = "E0"
<1> DEFINE w == s \o <<b>>
<1>1. /\ w # <<>>
      /\ DOMAIN w = 1 .. (Len(s) + 1) /\ Len(w) = Len(s) + 1
      /\ Len(s) \in Nat /\ DOMAIN s = 1 .. Len(s)
      /\ w[Len(s) + 1] = b
      /\ \A i \in DOMAIN s : w[i] = s[i]
  BY Appended
<1> HIDE DEF w
<1>2. ASSUME NEW i \in DOMAIN s
      PROVE  Framed(w[i], IF i = 1 THEN before ELSE w[i - 1].code = "E0")
  <2>1. i # 1 => i - 1 \in DOMAIN s
    BY <1>1
  <2>2. w[i] = s[i] /\ (i # 1 => w[i - 1] = s[i - 1])
    BY <1>1, <2>1
  <2> QED
    BY <2>2 DEF FramedFrom
<1>3. Framed(w[Len(s) + 1], IF Len(s) + 1 = 1 THEN before ELSE w[Len(s)].code = "E0")
  <2>1. CASE s = <<>>
    <3>1. Len(s) + 1 = 1
      BY <2>1
    <3> QED
      BY <1>1, <2>1, <3>1 DEF PrefixLast
  <2>2. CASE s # <<>>
    <3>1. Len(s) + 1 # 1 /\ Len(s) \in DOMAIN s
      BY <1>1, <2>2, EmptySeq
    <3> QED
      BY <1>1, <2>2, <3>1 DEF PrefixLast
  <2> QED
    BY <2>1, <2>2
<1>4. FramedFrom(w, before)
  <2> SUFFICES ASSUME NEW i \in DOMAIN w
               PROVE  Framed(w[i], IF i = 1 THEN before ELSE w[i - 1].code = "E0")
    BY DEF FramedFrom
  <2>1. CASE i \in DOMAIN s
    BY <1>2, <2>1
  <2>2. CASE i = Len(s) + 1
    <3>1. i - 1 = Len(s)
      BY <1>1, <2>2
    <3> QED
      BY <1>3, <2>2, <3>1
  <2> QED
    BY <1>1, <2>1, <2>2
<1> QED
  BY <1>1, <1>4 DEF w, PrefixLast

LEMMA FollowsAppended ==
  ASSUME NEW s \in Seq(KeyByte), NEW b \in KeyByte, NEW k, NEW before \in BOOLEAN,
         FollowsFrom(s, k, before), Follows(b, k, HeldLast(s, k, before))
  PROVE  /\ FollowsFrom(s \o <<b>>, k, before)
         /\ HeldLast(s \o <<b>>, k, before) <=> k \in b.held
<1> DEFINE w == s \o <<b>>
<1>1. /\ w # <<>>
      /\ DOMAIN w = 1 .. (Len(s) + 1) /\ Len(w) = Len(s) + 1
      /\ Len(s) \in Nat /\ DOMAIN s = 1 .. Len(s)
      /\ w[Len(s) + 1] = b
      /\ \A i \in DOMAIN s : w[i] = s[i]
  BY Appended
<1> HIDE DEF w
<1>2. ASSUME NEW i \in DOMAIN s
      PROVE  Follows(w[i], k, IF i = 1 THEN before ELSE k \in w[i - 1].held)
  <2>1. i # 1 => i - 1 \in DOMAIN s
    BY <1>1
  <2>2. w[i] = s[i] /\ (i # 1 => w[i - 1] = s[i - 1])
    BY <1>1, <2>1
  <2> QED
    BY <2>2 DEF FollowsFrom
<1>3. Follows(w[Len(s) + 1], k, IF Len(s) + 1 = 1 THEN before ELSE k \in w[Len(s)].held)
  <2>1. CASE s = <<>>
    <3>1. Len(s) + 1 = 1
      BY <2>1
    <3> QED
      BY <1>1, <2>1, <3>1 DEF HeldLast
  <2>2. CASE s # <<>>
    <3>1. Len(s) + 1 # 1 /\ Len(s) \in DOMAIN s
      BY <1>1, <2>2, EmptySeq
    <3> QED
      BY <1>1, <2>2, <3>1 DEF HeldLast
  <2> QED
    BY <2>1, <2>2
<1>4. FollowsFrom(w, k, before)
  <2> SUFFICES ASSUME NEW i \in DOMAIN w
               PROVE  Follows(w[i], k, IF i = 1 THEN before ELSE k \in w[i - 1].held)
    BY DEF FollowsFrom
  <2>1. CASE i \in DOMAIN s
    BY <1>2, <2>1
  <2>2. CASE i = Len(s) + 1
    <3>1. i - 1 = Len(s)
      BY <1>1, <2>2
    <3> QED
      BY <1>3, <2>2, <3>1
  <2> QED
    BY <1>1, <2>1, <2>2
<1> QED
  BY <1>1, <1>4 DEF w, HeldLast

LEMMA FramedTaken ==
  ASSUME NEW w \in Seq(KeyByte), w # <<>>, NEW before \in BOOLEAN, FramedFrom(w, before)
  PROVE  /\ Framed(Head(w), before)
         /\ FramedFrom(Tail(w), Head(w).code = "E0")
         /\ PrefixLast(Tail(w), Head(w).code = "E0") <=> PrefixLast(w, before)
<1>1. /\ Head(w) = w[1] /\ Len(w) \in Nat \ {0} /\ DOMAIN w = 1 .. Len(w)
      /\ Len(Tail(w)) = Len(w) - 1 /\ DOMAIN Tail(w) = 1 .. (Len(w) - 1)
      /\ \A i \in DOMAIN Tail(w) : Tail(w)[i] = w[i + 1]
      /\ Tail(w) = <<>> <=> Len(w) = 1
  BY TakenOff
<1>2. Framed(Head(w), before)
  <2>1. 1 \in DOMAIN w
    BY <1>1
  <2> QED
    BY <1>1, <2>1 DEF FramedFrom
<1>3. FramedFrom(Tail(w), Head(w).code = "E0")
  <2> SUFFICES ASSUME NEW i \in DOMAIN Tail(w)
               PROVE  Framed(Tail(w)[i], IF i = 1 THEN Head(w).code = "E0"
                                                  ELSE Tail(w)[i - 1].code = "E0")
    BY DEF FramedFrom
  <2>1. i + 1 \in DOMAIN w /\ i + 1 # 1 /\ (i + 1) - 1 = i /\ (i # 1 => i - 1 \in DOMAIN Tail(w))
    BY <1>1
  <2>2. Framed(w[i + 1], w[i].code = "E0")
    BY <2>1 DEF FramedFrom
  <2>3. i # 1 => Tail(w)[i - 1] = w[i]
    <3>1. i # 1 => (i - 1) + 1 = i
      BY <1>1
    <3> QED
      BY <1>1, <2>1, <3>1
  <2> QED
    BY <1>1, <2>2, <2>3
<1>4. PrefixLast(Tail(w), Head(w).code = "E0") <=> PrefixLast(w, before)
  <2>1. CASE Len(w) = 1
    BY <1>1, <2>1 DEF PrefixLast
  <2>2. CASE Len(w) # 1
    <3>1. Len(w) - 1 \in DOMAIN Tail(w) /\ (Len(w) - 1) + 1 = Len(w)
      BY <1>1, <2>2
    <3>2. Tail(w)[Len(Tail(w))] = w[Len(w)]
      BY <1>1, <3>1
    <3> QED
      BY <1>1, <2>2, <3>2 DEF PrefixLast
  <2> QED
    BY <2>1, <2>2
<1> QED
  BY <1>2, <1>3, <1>4

LEMMA FollowsTaken ==
  ASSUME NEW w \in Seq(KeyByte), w # <<>>, NEW k, NEW before \in BOOLEAN,
         FollowsFrom(w, k, before)
  PROVE  /\ Follows(Head(w), k, before)
         /\ FollowsFrom(Tail(w), k, k \in Head(w).held)
         /\ HeldLast(Tail(w), k, k \in Head(w).held) <=> HeldLast(w, k, before)
<1>1. /\ Head(w) = w[1] /\ Len(w) \in Nat \ {0} /\ DOMAIN w = 1 .. Len(w)
      /\ Len(Tail(w)) = Len(w) - 1 /\ DOMAIN Tail(w) = 1 .. (Len(w) - 1)
      /\ \A i \in DOMAIN Tail(w) : Tail(w)[i] = w[i + 1]
      /\ Tail(w) = <<>> <=> Len(w) = 1
  BY TakenOff
<1>2. Follows(Head(w), k, before)
  <2>1. 1 \in DOMAIN w
    BY <1>1
  <2> QED
    BY <1>1, <2>1 DEF FollowsFrom
<1>3. FollowsFrom(Tail(w), k, k \in Head(w).held)
  <2> SUFFICES ASSUME NEW i \in DOMAIN Tail(w)
               PROVE  Follows(Tail(w)[i], k, IF i = 1 THEN k \in Head(w).held
                                                      ELSE k \in Tail(w)[i - 1].held)
    BY DEF FollowsFrom
  <2>1. i + 1 \in DOMAIN w /\ i + 1 # 1 /\ (i + 1) - 1 = i /\ (i # 1 => i - 1 \in DOMAIN Tail(w))
    BY <1>1
  <2>2. Follows(w[i + 1], k, k \in w[i].held)
    BY <2>1 DEF FollowsFrom
  <2>3. i # 1 => Tail(w)[i - 1] = w[i]
    <3>1. i # 1 => (i - 1) + 1 = i
      BY <1>1
    <3> QED
      BY <1>1, <2>1, <3>1
  <2> QED
    BY <1>1, <2>2, <2>3
<1>4. HeldLast(Tail(w), k, k \in Head(w).held) <=> HeldLast(w, k, before)
  <2>1. CASE Len(w) = 1
    BY <1>1, <2>1 DEF HeldLast
  <2>2. CASE Len(w) # 1
    <3>1. Len(w) - 1 \in DOMAIN Tail(w) /\ (Len(w) - 1) + 1 = Len(w)
      BY <1>1, <2>2
    <3>2. Tail(w)[Len(Tail(w))] = w[Len(w)]
      BY <1>1, <3>1
    <3> QED
      BY <1>1, <2>2, <3>2 DEF HeldLast
  <2> QED
    BY <2>1, <2>2
<1> QED
  BY <1>2, <1>3, <1>4
-----------------------------------------------------------------------------
(* A key is moved *)

\* One byte more keeps the wire in order: its frame and what it says of the two
\* modifier keys fit the end of what waits.
WireOK(w, ctrl, alt, before) ==
  /\ w \in Seq(KeyByte)
  /\ FramedFrom(w, before)
  /\ FollowsFrom(w, CtrlKey, ctrl)
  /\ FollowsFrom(w, AltKey, alt)

LEMMA OneMore ==
  ASSUME NEW s, NEW b \in KeyByte,
         NEW ctrl \in BOOLEAN, NEW alt \in BOOLEAN, NEW before \in BOOLEAN,
         WireOK(s, ctrl, alt, before),
         Framed(b, PrefixLast(s, before)),
         Follows(b, CtrlKey, HeldLast(s, CtrlKey, ctrl)),
         Follows(b, AltKey, HeldLast(s, AltKey, alt))
  PROVE  /\ WireOK(s \o <<b>>, ctrl, alt, before)
         /\ PrefixLast(s \o <<b>>, before) <=> b.code = "E0"
         /\ HeldLast(s \o <<b>>, CtrlKey, ctrl) <=> CtrlKey \in b.held
         /\ HeldLast(s \o <<b>>, AltKey, alt) <=> AltKey \in b.held
<1>1. s \in Seq(KeyByte)
  BY DEF WireOK
<1>2. s \o <<b>> \in Seq(KeyByte)
  BY <1>1, Appended
<1>3. /\ FramedFrom(s \o <<b>>, before)
      /\ PrefixLast(s \o <<b>>, before) <=> b.code = "E0"
  BY <1>1, FramedAppended DEF WireOK
<1>4. /\ FollowsFrom(s \o <<b>>, CtrlKey, ctrl)
      /\ HeldLast(s \o <<b>>, CtrlKey, ctrl) <=> CtrlKey \in b.held
  BY <1>1, FollowsAppended DEF WireOK
<1>5. /\ FollowsFrom(s \o <<b>>, AltKey, alt)
      /\ HeldLast(s \o <<b>>, AltKey, alt) <=> AltKey \in b.held
  BY <1>1, FollowsAppended DEF WireOK
<1> QED
  BY <1>2, <1>3, <1>4, <1>5 DEF WireOK

\* A key of the keyboard is none of the two modifier keys, or exactly one.
LEMMA KeyOfCode ==
  ASSUME NEW k \in Keys
  PROVE  /\ k \in Key /\ k.code \in Code /\ k.ext \in BOOLEAN /\ k.code # "E0"
         /\ k = CtrlKey <=> k.code = CtrlKey.code /\ ~k.ext
         /\ k = AltKey <=> k.code = AltKey.code /\ ~k.ext
         /\ CtrlKey.code = "ctrl" /\ AltKey.code = "alt"
<1>1. k \in Key
  BY KeysAssumption
<1>2. k.code \in Code /\ k.ext \in BOOLEAN /\ k = [code |-> k.code, ext |-> k.ext]
  BY <1>1 DEF Key
<1>3. k.code # "E0"
  BY <1>2 DEF Code
<1> QED
  BY <1>1, <1>2, <1>3 DEF CtrlKey, AltKey

\* Pressing or releasing a key sends bytes that fit.
LEMMA Sent ==
  ASSUME KbdInv, NEW k \in Keys, NEW press \in BOOLEAN,
         down' = IF press THEN down \cup {k} ELSE down \ {k},
         Send(k, press)
  PROVE  KbdInv'
<1> DEFINE ctrl == "CTRL" \in modifiers
           alt == "ALT" \in modifiers
           b1 == Byte("E0", TRUE, k)
           b2 == Byte(k.code, press, k)
<1>1. /\ UNCHANGED <<modifiers, extended>>
      /\ wire' = wire \o Bytes(k, press)
  BY DEF Send
<1>2. /\ k \in Key /\ k.code \in Code /\ k.ext \in BOOLEAN /\ k.code # "E0"
      /\ k = CtrlKey <=> k.code = CtrlKey.code /\ ~k.ext
      /\ k = AltKey <=> k.code = AltKey.code /\ ~k.ext
      /\ CtrlKey.code = "ctrl" /\ AltKey.code = "alt"
  BY KeyOfCode
<1>3. down \subseteq Keys /\ wire \in Seq(KeyByte) /\ extended \in BOOLEAN
  BY DEF KbdInv, KbdTypes
<1>4. down' \subseteq Keys
  BY <1>3
<1>5. /\ b1 = [code |-> "E0", press |-> TRUE, key |-> k, held |-> down']
      /\ b2 = [code |-> k.code, press |-> press, key |-> k, held |-> down']
  BY DEF Byte
<1> HIDE DEF b1, b2, ctrl, alt
<1>6. b1 \in KeyByte /\ b2 \in KeyByte
  BY <1>2, <1>4, <1>5 DEF KeyByte
<1>7. /\ b1.code = "E0" /\ b1.key = k /\ b1.held = down'
      /\ b2.code = k.code /\ b2.key = k /\ b2.held = down' /\ b2.press = press
  BY <1>5
<1>8. ctrl \in BOOLEAN /\ alt \in BOOLEAN
  BY DEF ctrl, alt
<1>9. /\ WireOK(wire, ctrl, alt, extended)
      /\ ~PrefixLast(wire, extended)
      /\ CtrlKey \in down <=> HeldLast(wire, CtrlKey, ctrl)
      /\ AltKey \in down <=> HeldLast(wire, AltKey, alt)
  BY DEF KbdInv, KbdTypes, FlagFollows, WireOK, ctrl, alt
<1>10. /\ CtrlKey \in down' <=> IF k = CtrlKey THEN press ELSE CtrlKey \in down
       /\ AltKey \in down' <=> IF k = AltKey THEN press ELSE AltKey \in down
  OBVIOUS
<1>11. SUFFICES /\ WireOK(wire', ctrl, alt, extended)
                /\ ~PrefixLast(wire', extended)
                /\ CtrlKey \in down' <=> HeldLast(wire', CtrlKey, ctrl)
                /\ AltKey \in down' <=> HeldLast(wire', AltKey, alt)
  <2>1. (ctrl <=> "CTRL" \in modifiers') /\ (alt <=> "ALT" \in modifiers')
    BY <1>1 DEF ctrl, alt
  <2>2. ctrl = ("CTRL" \in modifiers') /\ alt = ("ALT" \in modifiers')
    BY <1>1 DEF ctrl, alt
  <2>3. extended' = extended
    BY <1>1
  <2> QED
    BY <1>3, <1>4, <2>2, <2>3 DEF KbdInv, KbdTypes, FlagFollows, WireOK
<1>12. CASE ~k.ext
  <2>1. wire' = wire \o <<b2>>
    BY <1>1, <1>12 DEF Bytes, b2
  <2>2. Framed(b2, PrefixLast(wire, extended))
    BY <1>2, <1>7, <1>9, <1>12 DEF Framed
  <2>3. Follows(b2, CtrlKey, HeldLast(wire, CtrlKey, ctrl))
    BY <1>2, <1>7, <1>9, <1>10, <1>12 DEF Follows
  <2>4. Follows(b2, AltKey, HeldLast(wire, AltKey, alt))
    BY <1>2, <1>7, <1>9, <1>10, <1>12 DEF Follows
  <2>5. /\ WireOK(wire \o <<b2>>, ctrl, alt, extended)
        /\ PrefixLast(wire \o <<b2>>, extended) <=> b2.code = "E0"
        /\ HeldLast(wire \o <<b2>>, CtrlKey, ctrl) <=> CtrlKey \in b2.held
        /\ HeldLast(wire \o <<b2>>, AltKey, alt) <=> AltKey \in b2.held
    BY <1>3, <1>6, <1>8, <1>9, <2>2, <2>3, <2>4, OneMore
  <2> QED
    BY <1>2, <1>7, <2>1, <2>5
<1>13. CASE k.ext
  <2> DEFINE w == wire \o <<b1>>
  <2>1. wire' = w \o <<b2>>
    <3>1. wire' = wire \o <<b1, b2>>
      BY <1>1, <1>13 DEF Bytes, b1, b2
    <3>2. <<b1>> \in Seq(KeyByte) /\ <<b2>> \in Seq(KeyByte)
      BY <1>6
    <3>3. <<b1, b2>> = <<b1>> \o <<b2>>
      BY <1>6, TwoOfOne
    <3> QED
      BY <1>3, <3>1, <3>2, <3>3, ConcatAssociative
  <2>2. k # CtrlKey /\ k # AltKey
    BY <1>2, <1>13
  <2>3. Framed(b1, PrefixLast(wire, extended))
    BY <1>2, <1>7, <1>9, <1>13 DEF Framed
  <2>4. Follows(b1, CtrlKey, HeldLast(wire, CtrlKey, ctrl))
    BY <1>2, <1>7, <1>9, <1>10, <1>13, <2>2 DEF Follows
  <2>5. Follows(b1, AltKey, HeldLast(wire, AltKey, alt))
    BY <1>2, <1>7, <1>9, <1>10, <1>13, <2>2 DEF Follows
  <2>6. /\ WireOK(w, ctrl, alt, extended)
        /\ PrefixLast(w, extended) <=> b1.code = "E0"
        /\ HeldLast(w, CtrlKey, ctrl) <=> CtrlKey \in b1.held
        /\ HeldLast(w, AltKey, alt) <=> AltKey \in b1.held
    BY <1>3, <1>6, <1>8, <1>9, <2>3, <2>4, <2>5, OneMore
  <2> HIDE DEF w
  <2>7. Framed(b2, PrefixLast(w, extended))
    BY <1>2, <1>7, <1>13, <2>6 DEF Framed
  <2>8. Follows(b2, CtrlKey, HeldLast(w, CtrlKey, ctrl))
    BY <1>2, <1>7, <1>13, <2>6 DEF Follows
  <2>9. Follows(b2, AltKey, HeldLast(w, AltKey, alt))
    BY <1>2, <1>7, <1>13, <2>6 DEF Follows
  <2>10. /\ WireOK(w \o <<b2>>, ctrl, alt, extended)
         /\ PrefixLast(w \o <<b2>>, extended) <=> b2.code = "E0"
         /\ HeldLast(w \o <<b2>>, CtrlKey, ctrl) <=> CtrlKey \in b2.held
         /\ HeldLast(w \o <<b2>>, AltKey, alt) <=> AltKey \in b2.held
    BY <1>3, <1>6, <1>8, <2>6, <2>7, <2>8, <2>9, OneMore
  <2> QED
    BY <1>2, <1>7, <2>1, <2>10
<1> QED
  BY <1>2, <1>12, <1>13

-----------------------------------------------------------------------------
(* A byte is handled *)

\* What the driver does with the first byte: the flags follow the two keys,
\* bytes of extended keys change nothing, and an event carries the flags.
Handled(b) ==
  /\ extended' \in BOOLEAN /\ (extended' <=> b.code = "E0")
  /\ "CTRL" \in modifiers' <=> CtrlKey \in b.held
  /\ "ALT" \in modifiers' <=> AltKey \in b.held
  /\ b.key.ext => UNCHANGED <<modifiers, event>>
  /\ event' # event => event'.modifiers = modifiers /\ UNCHANGED modifiers

LEMMA FirstByte ==
  ASSUME KbdInv, wire # <<>>,
         NEW b, b = Head(wire), Prefix(b) \/ SkipExtended(b) \/ Decode(b)
  PROVE  Handled(b)
<1>1. /\ b \in KeyByte
      /\ Framed(b, extended)
      /\ Follows(b, CtrlKey, "CTRL" \in modifiers)
      /\ Follows(b, AltKey, "ALT" \in modifiers)
      /\ extended \in BOOLEAN
  <2>1. wire \in Seq(KeyByte) /\ extended \in BOOLEAN
    BY DEF KbdInv, KbdTypes
  <2>2. FramedFrom(wire, extended)
    BY DEF KbdInv
  <2>3. /\ FollowsFrom(wire, CtrlKey, "CTRL" \in modifiers)
        /\ FollowsFrom(wire, AltKey, "ALT" \in modifiers)
    BY DEF KbdInv, FlagFollows
  <2>4. ("CTRL" \in modifiers) \in BOOLEAN /\ ("ALT" \in modifiers) \in BOOLEAN
    OBVIOUS
  <2> QED
    BY <2>1, <2>2, <2>3, <2>4, TakenOff, FramedTaken, FollowsTaken
<1>2. CtrlKey.code = "ctrl" /\ AltKey.code = "alt"
  BY DEF CtrlKey, AltKey
<1>3. b.key \in Keys /\ b.key.ext \in BOOLEAN /\ b.press \in BOOLEAN
  BY <1>1, KeyOfCode DEF KeyByte
<1>4. CASE Prefix(b)
  BY <1>1, <1>2, <1>3, <1>4 DEF Prefix, Handled, Framed, Follows
<1>5. CASE SkipExtended(b)
  BY <1>1, <1>2, <1>3, <1>5 DEF SkipExtended, Handled, Framed, Follows
<1>6. CASE Decode(b)
  <2>1. b.code # "E0" /\ ~extended /\ extended' = extended /\ ~b.key.ext
    BY <1>1, <1>3, <1>6 DEF Decode, Framed
  <2>2. /\ b.code = "ctrl" => (CtrlKey \in b.held <=> b.press)
        /\ b.code # "ctrl" => (CtrlKey \in b.held <=> "CTRL" \in modifiers)
        /\ b.code = "alt" => (AltKey \in b.held <=> b.press)
        /\ b.code # "alt" => (AltKey \in b.held <=> "ALT" \in modifiers)
    BY <1>1, <1>2, <2>1 DEF Follows
  <2>3. /\ Modifier("ctrl") = {"CTRL"} /\ Modifier("alt") = {"ALT"}
        /\ b.code \notin {"ctrl", "alt"} => Modifier(b.code) \in {{}, {"SHIFT"}}
    BY DEF Modifier, Shift
  <2>4. CASE SetModifier(b)
    <3>1. event' = event
      BY <2>4 DEF SetModifier
    <3>2. modifiers' = IF b.press THEN modifiers \cup Modifier(b.code)
                                  ELSE modifiers \ Modifier(b.code)
      BY <2>4 DEF SetModifier
    <3>3. /\ "CTRL" \in modifiers' <=> CtrlKey \in b.held
          /\ "ALT" \in modifiers' <=> AltKey \in b.held
      BY <1>3, <2>2, <2>3, <3>2
    <3> QED
      BY <1>1, <2>1, <3>1, <3>3 DEF Handled
  <2>5. CASE ToggleCaps(b)
    <3>1. event' = event /\ modifiers' = Toggle("CAPS", modifiers) /\ b.code = "caps"
      BY <2>5 DEF ToggleCaps
    <3>2. /\ "CTRL" \in modifiers' <=> "CTRL" \in modifiers
          /\ "ALT" \in modifiers' <=> "ALT" \in modifiers
      BY <3>1 DEF Toggle
    <3> QED
      BY <1>1, <2>1, <2>2, <3>1, <3>2 DEF Handled
  <2>6. CASE Deliver(b)
    <3>1. /\ modifiers' = modifiers /\ Modifier(b.code) = {}
          /\ event'.modifiers = modifiers
      BY <2>6 DEF Deliver
    <3>2. b.code # "ctrl" /\ b.code # "alt"
      BY <2>3, <3>1
    <3> QED
      BY <1>1, <2>1, <2>2, <3>1, <3>2 DEF Handled
  <2> QED
    BY <1>6, <2>4, <2>5, <2>6 DEF Decode
<1> QED
  BY <1>4, <1>5, <1>6

LEMMA Taken ==
  ASSUME KbdInv, handle_byte
  PROVE  KbdInv' /\ wire # <<>> /\ wire' = Tail(wire) /\ Handled(Head(wire))
<1>1. wire # <<>> /\ wire' = Tail(wire) /\ down' = down
  BY DEF handle_byte
<1>2. Handled(Head(wire))
  BY <1>1, FirstByte DEF handle_byte
<1>3. wire \in Seq(KeyByte) /\ extended \in BOOLEAN /\ down \subseteq Keys
  BY DEF KbdInv, KbdTypes
<1>4. ("CTRL" \in modifiers) \in BOOLEAN /\ ("ALT" \in modifiers) \in BOOLEAN
  OBVIOUS
<1>5. /\ FramedFrom(wire', Head(wire).code = "E0")
      /\ ~PrefixLast(wire', Head(wire).code = "E0")
  BY <1>1, <1>3, FramedTaken DEF KbdInv
<1>6. /\ FollowsFrom(wire', CtrlKey, CtrlKey \in Head(wire).held)
      /\ (CtrlKey \in down) <=> HeldLast(wire', CtrlKey, CtrlKey \in Head(wire).held)
  BY <1>1, <1>3, <1>4, FollowsTaken DEF KbdInv, FlagFollows
<1>7. /\ FollowsFrom(wire', AltKey, AltKey \in Head(wire).held)
      /\ (AltKey \in down) <=> HeldLast(wire', AltKey, AltKey \in Head(wire).held)
  BY <1>1, <1>3, <1>4, FollowsTaken DEF KbdInv, FlagFollows
<1>8. /\ extended' = (Head(wire).code = "E0") /\ extended' \in BOOLEAN
      /\ ("CTRL" \in modifiers') = (CtrlKey \in Head(wire).held)
      /\ ("ALT" \in modifiers') = (AltKey \in Head(wire).held)
  BY <1>2 DEF Handled
<1>9. wire' \in Seq(KeyByte)
  BY <1>1, <1>3, TakenOff
<1>10. FlagFollows("CTRL", CtrlKey)' /\ FlagFollows("ALT", AltKey)'
  BY <1>1, <1>6, <1>7, <1>8 DEF FlagFollows
<1>11. FramedFrom(wire', extended') /\ ~PrefixLast(wire', extended')
  BY <1>5, <1>8
<1> QED
  BY <1>1, <1>2, <1>3, <1>8, <1>9, <1>10, <1>11 DEF KbdInv, KbdTypes

-----------------------------------------------------------------------------
(* The theorems *)

LEMMA KbdBegins == KbdInit => KbdInv
<1> SUFFICES ASSUME KbdInit PROVE KbdInv
  OBVIOUS
<1>1. /\ down = {} /\ wire = <<>> /\ modifiers = {} /\ extended = FALSE
  BY DEF KbdInit
<1>2. wire \in Seq(KeyByte) /\ DOMAIN wire = {}
  BY <1>1
<1> QED
  BY <1>1, <1>2 DEF KbdInv, KbdTypes, FramedFrom, PrefixLast, FlagFollows, FollowsFrom, HeldLast

\* A step of the keyboard makes the wire longer.
LEMMA KbdStep ==
  ASSUME KbdInv, [KbdNext]_kbdVars
  PROVE  /\ KbdInv'
         /\ \/ UNCHANGED <<modifiers, event>>
            \/ wire # <<>> /\ wire' = Tail(wire) /\ Handled(Head(wire))
<1>1. CASE UNCHANGED kbdVars
  BY <1>1 DEF kbdVars, KbdInv, KbdTypes, FlagFollows
<1>2. ASSUME NEW k \in Keys, Press(k) \/ Release(k)
      PROVE  KbdInv' /\ UNCHANGED <<modifiers, event>>
  <2>1. CASE Press(k)
    BY <2>1, Sent DEF Press, Send
  <2>2. CASE Release(k)
    BY <2>2, Sent DEF Release, Send
  <2> QED
    BY <1>2, <2>1, <2>2
<1>3. CASE handle_byte
  BY <1>3, Taken
<1> QED
  BY <1>1, <1>2, <1>3 DEF KbdNext, kbdVars

\* The invariant holds however keys are pressed and bytes are read.
THEOREM KbdInvariant == KbdSpec => []KbdInv
<1>1. KbdInv /\ [KbdNext]_kbdVars => KbdInv'
  BY KbdStep
<1> QED
  BY KbdBegins, <1>1, PTL DEF KbdSpec

\* The bytes of an extended key, its prefix and its code, change no flag and
\* deliver no event: the driver drops the code behind the prefix, and only it.
THEOREM Ignored == KbdSpec => ExtendedIgnored
<1>1. ASSUME KbdInv, [KbdNext]_kbdVars
      PROVE  [wire # <<>> /\ wire' = Tail(wire) /\ Head(wire).key.ext =>
                UNCHANGED <<modifiers, event>>]_kbdVars
  BY <1>1, KbdStep DEF Handled
<1> QED
  BY <1>1, KbdInvariant, PTL DEF KbdSpec, ExtendedIgnored

\* Every event carries the control and alt flags of the moment its key was
\* moved, whatever was sent before its byte was read.
THEOREM AsTyped == KbdSpec => ModifiersAsTyped
<1>1. ASSUME KbdInv, [KbdNext]_kbdVars
      PROVE  [event' # event =>
                /\ "CTRL" \in event'.modifiers <=> CtrlKey \in Head(wire).held
                /\ "ALT" \in event'.modifiers <=> AltKey \in Head(wire).held]_kbdVars
  BY <1>1, KbdStep DEF Handled
<1> QED
  BY <1>1, KbdInvariant, PTL DEF KbdSpec, ModifiersAsTyped

-----------------------------------------------------------------------------
(* THE TERMINAL: module Terminal *)

(* Counting *)

\* A set of natural numbers that is not empty has a least element.
LEMMA LeastNat ==
  ASSUME NEW T, T \subseteq Nat, T # {}
  PROVE  \E m \in T : \A k \in T : m <= k
<1> DEFINE R == OpToRel(<, Nat)
<1>1. IsWellFoundedOn(R, Nat)
  BY NatLessThanWellFounded
<1>2. \E x \in T : \A y \in T : ~ (<<y, x>> \in R)
  <2> HIDE DEF R
  <2> QED BY <1>1, WFMin
<1>3. \A a, b \in Nat : <<a, b>> \in R <=> a < b
  BY DEF OpToRel
<1> HIDE DEF R
<1>4. PICK m \in T : \A y \in T : ~ (<<y, m>> \in R)
  BY <1>2
<1>5. \A k \in T : ~ (k < m) /\ k \in Nat /\ m \in Nat
  BY <1>3, <1>4
<1> QED
  BY <1>5

\* ... which is its Min.
LEMMA Least ==
  ASSUME NEW T, T \subseteq Nat, T # {}
  PROVE  Min(T) \in T
BY LeastNat DEF Min

\* What holds of 0 and of each next number up to n holds of them all.
LEMMA UpTo ==
  ASSUME NEW n \in Nat, NEW P, 0 \in P,
         \A k \in 1 .. n : k - 1 \in P => k \in P
  PROVE  0 .. n \subseteq P
<1> DEFINE T == {k \in 0 .. n : k \notin P}
<1>1. SUFFICES ASSUME T # {} PROVE FALSE
  OBVIOUS
<1>2. PICK m \in T : \A k \in T : m <= k
  <2>1. T \subseteq Nat
    OBVIOUS
  <2> HIDE DEF T
  <2> QED BY <1>1, <2>1, LeastNat
<1>3. m # 0 /\ m \in 1 .. n /\ m \notin P
  OBVIOUS
<1>4. m - 1 \in P
  <2>1. m - 1 \in 0 .. n /\ ~ (m <= m - 1)
    BY <1>3
  <2> QED BY <1>2, <2>1
<1> QED
  BY <1>3, <1>4

-----------------------------------------------------------------------------
(* A line *)

\* A character behind the first n of a line, and the first n alone.
LEMMA LineWritten ==
  ASSUME NEW s \in Seq(Char), NEW n \in 0 .. Len(s), NEW c \in Char
  PROVE  LET w == Append(SubSeq(s, 1, n), c)
         IN  /\ w \in Seq(Char) /\ Len(w) = n + 1
             /\ w[n + 1] = c
             /\ \A i \in 1 .. n : w[i] = s[i]
<1>1. /\ Len(s) \in Nat /\ n \in Nat /\ n <= Len(s)
  BY LenProperties
<1>2. /\ SubSeq(s, 1, n) \in Seq(Char) /\ Len(SubSeq(s, 1, n)) = n
      /\ \A i \in 1 .. n : SubSeq(s, 1, n)[i] = s[i]
  BY <1>1, SubSeqProperties, SMTT(30)
<1> DEFINE u == SubSeq(s, 1, n)
<1> HIDE DEF u
<1>3. /\ Append(u, c) \in Seq(Char) /\ Len(Append(u, c)) = n + 1
      /\ Append(u, c)[n + 1] = c
      /\ \A i \in 1 .. n : Append(u, c)[i] = u[i]
  BY <1>1, <1>2, AppendProperties DEF u
<1> QED
  BY <1>2, <1>3 DEF u

LEMMA LineCut ==
  ASSUME NEW s \in Seq(Char), NEW n \in 0 .. Len(s)
  PROVE  LET w == SubSeq(s, 1, n)
         IN  /\ w \in Seq(Char) /\ Len(w) = n
             /\ \A i \in 1 .. n : w[i] = s[i]
<1>1. /\ Len(s) \in Nat /\ n \in Nat /\ n <= Len(s)
  BY LenProperties
<1> QED
  BY <1>1, SubSeqProperties, SMTT(30)

-----------------------------------------------------------------------------
(* The buffer *)

\* Lines fit the window, the cursor is within its line, and the lines counted
\* are those up to the cursor, or none after `clear`.
Fits(b) ==
  /\ b \in [lines : [Line -> Seq(Char)], nlines : Nat, cur_line : Line, cur_col : Nat]
  /\ \A l \in Line : Len(b.lines[l]) <= Cols
  /\ b.cur_col <= Len(b.lines[b.cur_line])
  /\ b.nlines = b.cur_line + 1 \/ (b.nlines = 0 /\ b.cur_line = 0)

\* What scrolls off when n lines are added.
Dropped(b, n) ==
  IF b.cur_line + n < TERM_MAXLINES THEN 0 ELSE b.cur_line + n + 1 - TERM_MAXLINES

Moved(b, x, n) ==
  /\ x.cur_line = b.cur_line + n - Dropped(b, n)
  /\ \A l \in Dropped(b, n) .. (b.cur_line - 1) : x.lines[l - Dropped(b, n)] = b.lines[l]

LEMMA Lines ==
  /\ TERM_MAXLINES \in Nat /\ TERM_MAXLINES > 1 /\ Line = 0 .. (TERM_MAXLINES - 1)
  /\ Cols \in Nat /\ Cols > 0 /\ Cols <= TERM_COLS /\ TERM_COLS \in Nat
  /\ Rows \in Nat /\ Rows > 0
BY TerminalAssumption DEF Line

LEMMA MovedTwice ==
  ASSUME NEW a, NEW b, NEW c, Fits(a), Fits(b), NEW m \in Nat, NEW n \in Nat,
         Moved(a, b, m), Moved(b, c, n)
  PROVE  Moved(a, c, m + n)
<1>1. /\ a.cur_line \in 0 .. (TERM_MAXLINES - 1) /\ b.cur_line \in 0 .. (TERM_MAXLINES - 1)
      /\ TERM_MAXLINES \in Nat
  BY Lines DEF Fits
<1>2. /\ Dropped(a, m) \in Nat /\ Dropped(b, n) \in Nat
      /\ Dropped(a, m + n) = Dropped(a, m) + Dropped(b, n)
      /\ c.cur_line = a.cur_line + (m + n) - Dropped(a, m + n)
  BY <1>1 DEF Moved, Dropped
<1>3. ASSUME NEW l \in Dropped(a, m + n) .. (a.cur_line - 1)
      PROVE  c.lines[l - Dropped(a, m + n)] = a.lines[l]
  <2> DEFINE k == l - Dropped(a, m)
  <2>1. /\ l \in Dropped(a, m) .. (a.cur_line - 1)
        /\ k \in Dropped(b, n) .. (b.cur_line - 1)
        /\ k - Dropped(b, n) = l - Dropped(a, m + n)
    BY <1>1, <1>2, <1>3 DEF Moved
  <2>2. b.lines[k] = a.lines[l] /\ c.lines[k - Dropped(b, n)] = b.lines[k]
    BY <2>1 DEF Moved
  <2> QED BY <2>1, <2>2
<1> QED
  BY <1>2, <1>3 DEF Moved

\* The cursor is at the beginning of a line that is new.
LEMMA NewLine ==
  ASSUME NEW b, Fits(b)
  PROVE  LET x == new_line(b)
         IN  /\ Fits(x) /\ Moved(b, x, 1)
             /\ x.cur_col = 0 /\ x.nlines > 0
<1> DEFINE x == new_line(b)
           full == b.cur_line + 1 >= TERM_MAXLINES
           l == IF full THEN b.cur_line ELSE b.cur_line + 1
           moved == IF full THEN [i \in Line |-> b.lines[IF i < l THEN i + 1 ELSE i]]
                            ELSE b.lines
<1>1. /\ b.cur_line \in Line /\ b.cur_line \in Nat /\ b.nlines \in Nat
      /\ b.lines \in [Line -> Seq(Char)] /\ TERM_MAXLINES \in Nat
      /\ Line = 0 .. (TERM_MAXLINES - 1) /\ TERM_MAXLINES > 1
  BY Lines DEF Fits
<1>2. l \in Line /\ \A i \in Line : i < l => i + 1 \in Line
  BY <1>1
<1>3. moved \in [Line -> Seq(Char)] /\ \A i \in Line : Len(moved[i]) <= Cols
  BY <1>1, <1>2 DEF Fits
<1>4. /\ x.lines = [moved EXCEPT ![l] = <<>>] /\ x.cur_line = l /\ x.cur_col = 0
      /\ x.nlines = IF l + 1 > b.nlines THEN l + 1 ELSE b.nlines
      /\ x = [lines |-> x.lines, nlines |-> x.nlines, cur_line |-> l, cur_col |-> 0]
  BY DEF new_line
<1>5. <<>> \in Seq(Char) /\ Len(<<>>) = 0 /\ Cols \in Nat
  BY EmptySeq, Lines
<1>6. x.nlines = l + 1 /\ x.nlines \in Nat
  BY <1>1, <1>2, <1>4 DEF Fits
<1>7. Moved(b, x, 1)
  <2>1. Dropped(b, 1) = IF full THEN 1 ELSE 0
    BY <1>1 DEF Dropped
  <2>2. x.cur_line = b.cur_line + 1 - Dropped(b, 1)
    BY <1>1, <1>4, <2>1
  <2>3. ASSUME NEW i \in Dropped(b, 1) .. (b.cur_line - 1)
        PROVE  x.lines[i - Dropped(b, 1)] = b.lines[i]
    <3>1. CASE full
      <4>1. i \in Line /\ i - 1 \in Line /\ i - 1 < l /\ (i - 1) + 1 = i /\ i - 1 # l
        BY <1>1, <2>1, <3>1
      <4>2. moved[i - 1] = b.lines[i]
        BY <3>1, <4>1
      <4> HIDE DEF moved, x
      <4> QED BY <1>3, <1>4, <2>1, <3>1, <4>1, <4>2
    <3>2. CASE ~full
      <4>1. i \in Line /\ i - 0 = i /\ i # l
        BY <1>1, <2>1, <3>2
      <4>2. moved[i] = b.lines[i]
        BY <3>2
      <4> HIDE DEF moved, x
      <4> QED BY <1>3, <1>4, <2>1, <3>2, <4>1, <4>2
    <3> QED BY <3>1, <3>2
  <2> QED BY <2>2, <2>3 DEF Moved
<1> HIDE DEF x, moved, l
<1>8. Fits(x)
  <2>1. x.lines \in [Line -> Seq(Char)] /\ x.lines[l] = <<>>
    BY <1>2, <1>3, <1>4, <1>5
  <2>2. \A i \in Line : Len(x.lines[i]) <= Cols
    BY <1>2, <1>3, <1>4, <1>5
  <2>3. x \in [lines : [Line -> Seq(Char)], nlines : Nat, cur_line : Line, cur_col : Nat]
    <3>1. l \in Line /\ 0 \in Nat
      BY <1>2
    <3>2. [lines |-> x.lines, nlines |-> x.nlines, cur_line |-> l, cur_col |-> 0]
            \in [lines : [Line -> Seq(Char)], nlines : Nat, cur_line : Line, cur_col : Nat]
      BY <1>6, <2>1, <3>1
    <3> QED BY <1>4, <3>2
  <2>4. x.cur_col <= Len(x.lines[x.cur_line])
    BY <1>4, <1>5, <2>1
  <2> QED BY <1>4, <1>6, <2>2, <2>3, <2>4 DEF Fits
<1> QED
  BY <1>1, <1>2, <1>4, <1>6, <1>7, <1>8 DEF x, l

\* The characters before the cursor.
Before(b, i) == b.lines[b.cur_line][i]

\* A character is written behind them.
LEMMA Written ==
  ASSUME NEW b, Fits(b), b.cur_col < Cols, NEW c \in Char
  PROVE  LET x == Write(b, c)
         IN  /\ Fits(x) /\ Moved(b, x, 0)
             /\ x.cur_col = b.cur_col + 1 /\ x.nlines = b.nlines /\ x.cur_line = b.cur_line
             /\ Before(x, b.cur_col + 1) = c
             /\ \A i \in 1 .. b.cur_col : Before(x, i) = Before(b, i)
<1> DEFINE x == Write(b, c)
           s == b.lines[b.cur_line]
           w == Append(SubSeq(s, 1, b.cur_col), c)
<1>1. /\ b.cur_line \in Line /\ b.cur_col \in Nat /\ b.lines \in [Line -> Seq(Char)]
      /\ s \in Seq(Char) /\ b.cur_col <= Len(s) /\ Len(s) \in Nat /\ Cols \in Nat
      /\ b.cur_line \in Nat
  BY LenProperties, Lines DEF Fits
<1>2. /\ w \in Seq(Char) /\ Len(w) = b.cur_col + 1
      /\ w[b.cur_col + 1] = c
      /\ \A i \in 1 .. b.cur_col : w[i] = s[i]
  BY <1>1, LineWritten
<1>3. x = [b EXCEPT !.lines = [@ EXCEPT ![b.cur_line] = w], !.cur_col = @ + 1]
  BY DEF Write
<1> HIDE DEF w, x
<1>4. /\ x.lines = [b.lines EXCEPT ![b.cur_line] = w] /\ x.cur_line = b.cur_line
      /\ x.nlines = b.nlines /\ x.cur_col = b.cur_col + 1
      /\ x = [lines |-> x.lines, nlines |-> x.nlines, cur_line |-> x.cur_line,
              cur_col |-> x.cur_col]
  BY <1>3 DEF Fits
<1>5. x.lines \in [Line -> Seq(Char)] /\ x.lines[b.cur_line] = w
  BY <1>1, <1>2, <1>4
<1>6. \A l \in Line : Len(x.lines[l]) <= Cols
  BY <1>1, <1>2, <1>4 DEF Fits
<1>7. Fits(x)
  BY <1>1, <1>2, <1>4, <1>5, <1>6 DEF Fits
<1>8. Moved(b, x, 0)
  BY <1>1, <1>4, Lines DEF Moved, Dropped
<1> QED
  BY <1>1, <1>2, <1>4, <1>5, <1>7, <1>8 DEF Before, x, s

\* The last of them is taken away.
LEMMA Erased ==
  ASSUME NEW b, Fits(b), b.cur_col # 0
  PROVE  LET x == terminal_putc(b, "backspace")
         IN  /\ Fits(x) /\ Moved(b, x, 0)
             /\ x.cur_col = b.cur_col - 1 /\ x.nlines = b.nlines
             /\ \A i \in 1 .. (b.cur_col - 1) : Before(x, i) = Before(b, i)
<1> DEFINE x == terminal_putc(b, "backspace")
           s == b.lines[b.cur_line]
           w == SubSeq(s, 1, b.cur_col - 1)
<1>1. /\ b.cur_line \in Line /\ b.cur_col \in Nat /\ b.lines \in [Line -> Seq(Char)]
      /\ s \in Seq(Char) /\ b.cur_col <= Len(s) /\ Len(s) \in Nat /\ Cols \in Nat
      /\ Len(s) <= Cols /\ b.cur_line \in Nat
  BY LenProperties, Lines DEF Fits
<1>2. /\ w \in Seq(Char) /\ Len(w) = b.cur_col - 1
      /\ \A i \in 1 .. (b.cur_col - 1) : w[i] = s[i]
  BY <1>1, LineCut
<1>3. x = [b EXCEPT !.cur_col = @ - 1, !.lines = [@ EXCEPT ![b.cur_line] = w]]
  BY DEF terminal_putc
<1> HIDE DEF w, x
<1>4. /\ x.lines = [b.lines EXCEPT ![b.cur_line] = w] /\ x.cur_line = b.cur_line
      /\ x.nlines = b.nlines /\ x.cur_col = b.cur_col - 1
      /\ x = [lines |-> x.lines, nlines |-> x.nlines, cur_line |-> x.cur_line,
              cur_col |-> x.cur_col]
  BY <1>3 DEF Fits
<1>5. x.lines \in [Line -> Seq(Char)] /\ x.lines[b.cur_line] = w
  BY <1>1, <1>2, <1>4
<1>6. \A l \in Line : Len(x.lines[l]) <= Cols
  BY <1>1, <1>2, <1>4 DEF Fits
<1>7. Fits(x)
  BY <1>1, <1>2, <1>4, <1>5, <1>6 DEF Fits
<1>8. Moved(b, x, 0)
  BY <1>1, <1>4, Lines, SMTT(60) DEF Moved, Dropped
<1> QED
  BY <1>1, <1>2, <1>4, <1>5, <1>7, <1>8 DEF Before, x, s

\* A character moves the cursor, and the lines with it, as Advanced says.
LEMMA Put ==
  ASSUME NEW b, Fits(b), NEW c \in Char \cup Control,
         NEW p \in [down : Nat, col : Nat], p.col = b.cur_col
  PROVE  LET x == terminal_putc(b, c)
             q == Advanced(p, c)
         IN  /\ Fits(x)
             /\ q \in [down : Nat, col : Nat] /\ q.col = x.cur_col
             /\ q.down - p.down \in Nat /\ Moved(b, x, q.down - p.down)
<1> DEFINE x == terminal_putc(b, c)
           q == Advanced(p, c)
           Goal == /\ Fits(x)
                   /\ q \in [down : Nat, col : Nat] /\ q.col = x.cur_col
                   /\ q.down - p.down \in Nat /\ Moved(b, x, q.down - p.down)
<1> SUFFICES Goal
  OBVIOUS
<1>0. /\ b.cur_line \in Nat /\ b.cur_col \in Nat /\ Cols \in Nat
      /\ p.down \in Nat /\ p.col = b.cur_col
  BY Lines DEF Fits
<1>1. ASSUME NEW n \in {0, 1}, Fits(x), Moved(b, x, n),
             q = [down |-> p.down + n, col |-> x.cur_col]
      PROVE  Goal
  <2> HIDE DEF x, q
  <2>1. q.down = p.down + n /\ q.col = x.cur_col /\ q.down - p.down = n /\ x.cur_col \in Nat
    BY <1>0, <1>1 DEF Fits
  <2>2. q \in [down : Nat, col : Nat]
    BY <1>0, <1>1, <2>1
  <2>3. q.down - p.down \in Nat /\ Moved(b, x, q.down - p.down)
    BY <1>1, <2>1
  <2> QED BY <1>1, <2>1, <2>2, <2>3
<1>2. Moved(b, b, 0)
  BY <1>0, Lines, SMTT(60) DEF Moved, Dropped, Fits
<1>3. p.down + 0 = p.down
  BY <1>0
<1>4. CASE c = "newline"
  <2>1. x = new_line(b) /\ q = [down |-> p.down + 1, col |-> 0]
    BY <1>4 DEF terminal_putc, Advanced
  <2>2. Fits(x) /\ Moved(b, x, 1) /\ x.cur_col = 0
    <3> HIDE DEF x
    <3> QED BY <2>1, NewLine
  <2> HIDE DEF x, q, Goal
  <2> QED BY <1>1, <2>1, <2>2
<1>5. CASE c = "return"
  <2>1. x = [b EXCEPT !.cur_col = 0] /\ q = [down |-> p.down, col |-> 0]
    BY <1>5 DEF terminal_putc, Advanced
  <2>2. /\ x.lines = b.lines /\ x.nlines = b.nlines /\ x.cur_line = b.cur_line
        /\ x.cur_col = 0
        /\ x = [lines |-> x.lines, nlines |-> x.nlines, cur_line |-> x.cur_line,
                cur_col |-> x.cur_col]
    BY <2>1 DEF Fits
  <2> HIDE DEF x, q, Goal
  <2>3. Len(x.lines[x.cur_line]) \in Nat
    BY <2>2, LenProperties DEF Fits
  <2>4. Fits(x)
    BY <2>2, <2>3 DEF Fits
  <2>5. Moved(b, x, 0)
    BY <1>2, <2>2 DEF Moved
  <2> QED BY <1>1, <1>3, <2>1, <2>2, <2>4, <2>5
<1>6. CASE c = "backspace"
  <2>1. q = [down |-> p.down, col |-> IF b.cur_col = 0 THEN 0 ELSE b.cur_col - 1]
    BY <1>0, <1>6 DEF Advanced
  <2>2. CASE b.cur_col = 0
    <3>1. x = b
      BY <1>6, <2>2 DEF terminal_putc
    <3> HIDE DEF x, q, Goal
    <3> QED BY <1>1, <1>2, <1>3, <2>1, <2>2, <3>1
  <2>3. CASE b.cur_col # 0
    <3>1. Fits(x) /\ Moved(b, x, 0) /\ x.cur_col = b.cur_col - 1
      BY <1>6, <2>3, Erased
    <3> HIDE DEF x, q, Goal
    <3> QED BY <1>1, <1>3, <2>1, <2>3, <3>1
  <2> QED BY <2>2, <2>3
<1>7. CASE c \in Char
  <2>1. c \notin Control
    BY <1>7, TerminalAssumption DEF Char, Control, Blank
  <2>2. CASE b.cur_col < Cols
    <3>1. x = Write(b, c) /\ q = [down |-> p.down, col |-> b.cur_col + 1]
      BY <1>0, <2>1, <2>2 DEF terminal_putc, Advanced, Control
    <3>2. Fits(x) /\ Moved(b, x, 0) /\ x.cur_col = b.cur_col + 1
      <4> HIDE DEF x
      <4> QED BY <1>7, <2>2, <3>1, Written
    <3> HIDE DEF x, q, Goal
    <3> QED BY <1>1, <1>3, <3>1, <3>2
  <2>3. CASE ~ (b.cur_col < Cols)
    <3> DEFINE y == new_line(b)
    <3>1. x = Write(y, c) /\ q = [down |-> p.down + 1, col |-> 1]
      BY <1>0, <2>1, <2>3 DEF terminal_putc, Advanced, Control
    <3>2. Fits(y) /\ Moved(b, y, 1) /\ y.cur_col = 0
      BY NewLine
    <3> HIDE DEF x, y, q, Goal
    <3>3. y.cur_col < Cols
      BY <3>2, Lines
    <3>4. Fits(x) /\ Moved(y, x, 0) /\ x.cur_col = 0 + 1
      BY <1>7, <3>1, <3>2, <3>3, Written
    <3>5. Moved(b, x, 1 + 0)
      BY <3>2, <3>4, MovedTwice
    <3> QED BY <1>1, <3>1, <3>4, <3>5
  <2> QED BY <2>2, <2>3
<1> QED
  BY <1>4, <1>5, <1>6, <1>7 DEF Control

-----------------------------------------------------------------------------
(* Printing *)

\* f is the buffer after each character of s.
Puts(f, b, s, n) ==
  f = [k \in 0 .. n |-> IF k = 0 THEN b ELSE terminal_putc(f[k - 1], s[k])]

LEMMA PutsExist ==
  ASSUME NEW b, NEW s, NEW n \in Nat
  PROVE  \E f : Puts(f, b, s, n)
<1> DEFINE P == {m \in 0 .. n : \E f : Puts(f, b, s, m)}
<1>1. 0 \in P
  <2> DEFINE f == [k \in 0 .. 0 |-> b]
  <2>1. Puts(f, b, s, 0)
    BY DEF Puts
  <2> QED BY <2>1
<1>2. ASSUME NEW m \in 1 .. n, m - 1 \in P PROVE m \in P
  <2>1. PICK f : Puts(f, b, s, m - 1)
    BY <1>2
  <2> DEFINE last == terminal_putc(f[m - 1], s[m])
             g == [k \in 0 .. m |-> IF k = m THEN last ELSE f[k]]
  <2>2. /\ DOMAIN f = 0 .. (m - 1) /\ f[0] = b
        /\ \A k \in 1 .. (m - 1) : f[k] = terminal_putc(f[k - 1], s[k])
    BY <2>1 DEF Puts
  <2>3. \A k \in 0 .. m : IF k = 0 THEN g[k] = b ELSE g[k] = terminal_putc(g[k - 1], s[k])
    <3> SUFFICES ASSUME NEW k \in 0 .. m
                 PROVE  IF k = 0 THEN g[k] = b ELSE g[k] = terminal_putc(g[k - 1], s[k])
      OBVIOUS
    <3>1. k # 0 => k - 1 \in 0 .. m /\ k - 1 # m
      OBVIOUS
    <3>2. CASE k = 0
      BY <2>2, <3>2
    <3>3. CASE k = m
      <4>1. g[k] = last /\ g[k - 1] = f[m - 1]
        BY <3>1, <3>3
      <4> QED BY <3>3, <4>1
    <3>4. CASE k # 0 /\ k # m
      <4>1. g[k] = f[k] /\ g[k - 1] = f[k - 1] /\ k \in 1 .. (m - 1)
        BY <3>1, <3>4
      <4> HIDE DEF g
      <4> QED BY <2>2, <3>4, <4>1
    <3> QED BY <3>2, <3>3, <3>4
  <2>4. g = [k \in 0 .. m |-> g[k]]
    OBVIOUS
  <2> HIDE DEF g
  <2>5. Puts(g, b, s, m)
    BY <2>3, <2>4 DEF Puts
  <2> QED BY <2>5
<1>3. n \in P
  <2> HIDE DEF P
  <2> QED BY <1>1, <1>2, UpTo
<1> QED
  BY <1>3

\* What terminal_print returns is the last of them.
LEMMA PrintIs ==
  ASSUME NEW b, NEW s, Len(s) \in Nat
  PROVE  \E f : /\ terminal_print(b, s) = f[Len(s)] /\ f[0] = b
                /\ \A k \in 1 .. Len(s) : f[k] = terminal_putc(f[k - 1], s[k])
<1> DEFINE G(f) == f = [k \in 0 .. Len(s) |-> IF k = 0 THEN b ELSE terminal_putc(f[k - 1], s[k])]
           h == CHOOSE f : G(f)
<1>1. terminal_print(b, s) = h[Len(s)]
  BY DEF terminal_print
<1>2. \A f : Puts(f, b, s, Len(s)) <=> G(f)
  BY DEF Puts
<1>3. \E f : Puts(f, b, s, Len(s))
  BY PutsExist
<1> HIDE DEF G
<1>4. G(h)
  BY <1>2, <1>3
<1>5. Puts(h, b, s, Len(s))
  BY <1>2, <1>4
<1> HIDE DEF h
<1>6. h[0] = b /\ \A k \in 1 .. Len(s) : h[k] = terminal_putc(h[k - 1], s[k])
  BY <1>5 DEF Puts
<1> QED
  BY <1>1, <1>6

\* g is where the cursor is after each character of s.
Advances(g, col, s, n) ==
  g = [k \in 0 .. n |-> IF k = 0 THEN [down |-> 0, col |-> col] ELSE Advanced(g[k - 1], s[k])]

LEMMA AdvancesExist ==
  ASSUME NEW col, NEW s, NEW n \in Nat
  PROVE  \E g : Advances(g, col, s, n)
<1> DEFINE P == {m \in 0 .. n : \E g : Advances(g, col, s, m)}
           first == [down |-> 0, col |-> col]
<1>1. 0 \in P
  <2> DEFINE g == [k \in 0 .. 0 |-> first]
  <2>1. Advances(g, col, s, 0)
    BY DEF Advances
  <2> QED BY <2>1
<1>2. ASSUME NEW m \in 1 .. n, m - 1 \in P PROVE m \in P
  <2>1. PICK f : Advances(f, col, s, m - 1)
    BY <1>2
  <2> DEFINE last == Advanced(f[m - 1], s[m])
             g == [k \in 0 .. m |-> IF k = m THEN last ELSE f[k]]
  <2>2. /\ DOMAIN f = 0 .. (m - 1) /\ f[0] = first
        /\ \A k \in 1 .. (m - 1) : f[k] = Advanced(f[k - 1], s[k])
    BY <2>1 DEF Advances
  <2> HIDE DEF first
  <2>3. \A k \in 0 .. m : IF k = 0 THEN g[k] = first ELSE g[k] = Advanced(g[k - 1], s[k])
    <3> SUFFICES ASSUME NEW k \in 0 .. m
                 PROVE  IF k = 0 THEN g[k] = first ELSE g[k] = Advanced(g[k - 1], s[k])
      OBVIOUS
    <3>1. k # 0 => k - 1 \in 0 .. m /\ k - 1 # m
      OBVIOUS
    <3>2. CASE k = 0
      BY <2>2, <3>2
    <3>3. CASE k = m
      <4>1. g[k] = last /\ g[k - 1] = f[m - 1]
        BY <3>1, <3>3
      <4> QED BY <3>3, <4>1
    <3>4. CASE k # 0 /\ k # m
      <4>1. g[k] = f[k] /\ g[k - 1] = f[k - 1] /\ k \in 1 .. (m - 1)
        BY <3>1, <3>4
      <4> HIDE DEF g
      <4> QED BY <2>2, <3>4, <4>1
    <3> QED BY <3>2, <3>3, <3>4
  <2>4. g = [k \in 0 .. m |-> g[k]]
    OBVIOUS
  <2> HIDE DEF g
  <2>5. Advances(g, col, s, m)
    BY <2>3, <2>4 DEF Advances, first
  <2> QED BY <2>5
<1>3. n \in P
  <2> HIDE DEF P
  <2> QED BY <1>1, <1>2, UpTo
<1> QED
  BY <1>3

\* LinesAdded is how far down the last of them is.
LEMMA AddedIs ==
  ASSUME NEW col, NEW s, Len(s) \in Nat
  PROVE  \E g : /\ LinesAdded(col, s) = g[Len(s)].down /\ g[0] = [down |-> 0, col |-> col]
                /\ \A k \in 1 .. Len(s) : g[k] = Advanced(g[k - 1], s[k])
<1> DEFINE G(g) == g = [k \in 0 .. Len(s) |->
                          IF k = 0 THEN [down |-> 0, col |-> col] ELSE Advanced(g[k - 1], s[k])]
           h == CHOOSE g : G(g)
<1>1. LinesAdded(col, s) = h[Len(s)].down
  BY DEF LinesAdded
<1>2. \A g : Advances(g, col, s, Len(s)) <=> G(g)
  BY DEF Advances
<1>3. \E g : Advances(g, col, s, Len(s))
  BY AdvancesExist
<1> HIDE DEF G
<1>4. G(h)
  BY <1>2, <1>3
<1>5. Advances(h, col, s, Len(s))
  BY <1>2, <1>4
<1> HIDE DEF h
<1>6. /\ h[0] = [down |-> 0, col |-> col]
      /\ \A k \in 1 .. Len(s) : h[k] = Advanced(h[k - 1], s[k])
  BY <1>5 DEF Advances
<1> QED
  BY <1>1, <1>6

\* A text moves the lines up and the cursor down by the lines that it adds.
LEMMA Prints ==
  ASSUME NEW b, Fits(b), NEW s \in Seq(Char \cup Control)
  PROVE  LET x == terminal_print(b, s)
         IN  Fits(x) /\ Moved(b, x, LinesAdded(b.cur_col, s))
<1>1. /\ Len(s) \in Nat /\ \A k \in 1 .. Len(s) : s[k] \in Char \cup Control
      /\ b.cur_col \in Nat
  BY LenProperties, ElementOfSeq DEF Fits
<1>2. PICK f : /\ terminal_print(b, s) = f[Len(s)] /\ f[0] = b
               /\ \A k \in 1 .. Len(s) : f[k] = terminal_putc(f[k - 1], s[k])
  BY <1>1, PrintIs
<1>3. PICK g : /\ LinesAdded(b.cur_col, s) = g[Len(s)].down
               /\ g[0] = [down |-> 0, col |-> b.cur_col]
               /\ \A k \in 1 .. Len(s) : g[k] = Advanced(g[k - 1], s[k])
  BY <1>1, AddedIs
<1> DEFINE Good(k) == /\ Fits(f[k]) /\ g[k] \in [down : Nat, col : Nat]
                      /\ g[k].col = f[k].cur_col /\ Moved(b, f[k], g[k].down)
           P == {k \in 0 .. Len(s) : Good(k)}
<1>4. 0 \in P
  <2>1. Moved(b, b, 0)
    BY Lines, SMTT(60) DEF Moved, Dropped, Fits
  <2>2. g[0].down = 0 /\ g[0].col = b.cur_col /\ g[0] \in [down : Nat, col : Nat]
    BY <1>1, <1>3
  <2> QED BY <1>1, <1>2, <2>1, <2>2
<1>5. ASSUME NEW k \in 1 .. Len(s), k - 1 \in P PROVE k \in P
  <2> DEFINE y == f[k - 1]
             p == g[k - 1]
             x == terminal_putc(y, s[k])
             q == Advanced(p, s[k])
  <2>1. /\ Fits(y) /\ p \in [down : Nat, col : Nat] /\ p.col = y.cur_col
        /\ Moved(b, y, p.down) /\ s[k] \in Char \cup Control
    BY <1>1, <1>5
  <2>2. f[k] = x /\ g[k] = q
    BY <1>2, <1>3
  <2> HIDE DEF y, p
  <2>3. /\ Fits(x) /\ q \in [down : Nat, col : Nat] /\ q.col = x.cur_col
        /\ q.down - p.down \in Nat /\ Moved(y, x, q.down - p.down)
    BY <2>1, Put
  <2> HIDE DEF x, q
  <2>4. p.down \in Nat /\ q.down \in Nat /\ p.down + (q.down - p.down) = q.down
    BY <2>1, <2>3
  <2>5. Moved(b, x, p.down + (q.down - p.down))
    BY <2>1, <2>3, <2>4, MovedTwice
  <2>6. Moved(b, x, q.down)
    BY <2>4, <2>5
  <2> QED BY <2>2, <2>3, <2>6
<1> HIDE DEF Good
<1>6. 0 .. Len(s) \subseteq P
  <2> HIDE DEF P
  <2> QED BY <1>1, <1>4, <1>5, UpTo
<1>7. Good(Len(s))
  BY <1>1, <1>6
<1> QED
  BY <1>2, <1>3, <1>7 DEF Good

\* A text of one character, and of none.
LEMMA PrintsOne ==
  ASSUME NEW b, NEW c
  PROVE  terminal_print(b, <<c>>) = terminal_putc(b, c)
<1>1. Len(<<c>>) = 1 /\ <<c>>[1] = c
  OBVIOUS
<1>2. PICK f : /\ terminal_print(b, <<c>>) = f[Len(<<c>>)] /\ f[0] = b
               /\ \A k \in 1 .. Len(<<c>>) : f[k] = terminal_putc(f[k - 1], <<c>>[k])
  BY <1>1, PrintIs
<1>3. f[1] = terminal_putc(f[1 - 1], c)
  BY <1>1, <1>2
<1> QED
  BY <1>1, <1>2, <1>3

LEMMA PrintsNone ==
  ASSUME NEW b
  PROVE  terminal_print(b, <<>>) = b
<1>1. Len(<<>>) = 0
  OBVIOUS
<1> QED
  BY <1>1, PrintIs

\* `clear` leaves a buffer with one empty line, which it does not count.
LEMMA Cleared ==
  ASSUME NEW b, Fits(b)
  PROVE  LET x == terminal_clear(b)
         IN  Fits(x) /\ x.cur_col = 0 /\ x.nlines = 0
<1> DEFINE x == terminal_clear(b)
<1>1. x = [b EXCEPT !.nlines = 0, !.cur_line = 0, !.cur_col = 0, !.lines = [@ EXCEPT ![0] = <<>>]]
  BY DEF terminal_clear
<1> HIDE DEF x
<1>2. /\ x.lines = [b.lines EXCEPT ![0] = <<>>] /\ x.cur_line = 0 /\ x.cur_col = 0 /\ x.nlines = 0
      /\ x = [lines |-> x.lines, nlines |-> 0, cur_line |-> 0, cur_col |-> 0]
  BY <1>1 DEF Fits
<1>3. 0 \in Line /\ 0 \in Nat /\ <<>> \in Seq(Char) /\ Len(<<>>) = 0 /\ 0 <= Cols
  BY Lines, EmptySeq
<1>4. /\ x.lines \in [Line -> Seq(Char)] /\ x.lines[0] = <<>>
      /\ \A l \in Line : Len(x.lines[l]) <= Cols
  BY <1>2, <1>3 DEF Fits
<1>5. [lines |-> x.lines, nlines |-> 0, cur_line |-> 0, cur_col |-> 0]
        \in [lines : [Line -> Seq(Char)], nlines : Nat, cur_line : Line, cur_col : Nat]
  BY <1>3, <1>4
<1> QED
  <2>1. x \in [lines : [Line -> Seq(Char)], nlines : Nat, cur_line : Line, cur_col : Nat]
    BY <1>2, <1>5
  <2>2. x.cur_col <= Len(x.lines[x.cur_line])
    BY <1>2, <1>3, <1>4
  <2>3. Fits(x)
    BY <1>2, <1>4, <2>1, <2>2 DEF Fits
  <2> QED BY <1>2, <2>3 DEF x

-----------------------------------------------------------------------------
(* The shell *)

\* The last characters of the line are the command, while it fits the line.
Typed(b, s, w) ==
  ~w => /\ Len(s) <= b.cur_col
        /\ \A i \in 1 .. Len(s) : s[i] = Before(b, b.cur_col - Len(s) + i)

TermInv == Fits(t) /\ cmd \in Seq(Char) /\ Typed(t, cmd, wrapped)

LEMMA PromptPrinted ==
  Prompt \in Seq(Char \cup Control)
<1>1. /\ Len(Prompt) \in Nat /\ Prompt \in [1 .. Len(Prompt) -> Char]
  BY TerminalAssumption, LenProperties
<1> QED
  BY TerminalAssumption, SeqMonotonic

LEMMA TermBegins ==
  TermInit => TermInv
<1> SUFFICES ASSUME TermInit PROVE TermInv
  OBVIOUS
<1>1. Fits(Created)
  <2>1. /\ 0 \in Line /\ 0 \in Nat /\ 1 \in Nat /\ <<>> \in Seq(Char) /\ Len(<<>>) = 0
        /\ 0 <= Cols
    BY Lines, EmptySeq
  <2>2. [l \in Line |-> <<>>] \in [Line -> Seq(Char)]
    BY <2>1
  <2>3. /\ Created.lines = [l \in Line |-> <<>>] /\ Created.nlines = 1
        /\ Created.cur_line = 0 /\ Created.cur_col = 0
    BY DEF Created
  <2>4. Created \in [lines : [Line -> Seq(Char)], nlines : Nat, cur_line : Line, cur_col : Nat]
    BY <2>1, <2>2 DEF Created
  <2> QED BY <2>1, <2>3, <2>4 DEF Fits
<1>2. Greeting \in Seq(Char \cup Control)
  BY TerminalAssumption
<1>3. Prompt \in Seq(Char \cup Control)
  BY PromptPrinted
<1> DEFINE g == terminal_print(Created, Greeting)
<1>4. Fits(g)
  BY <1>1, <1>2, Prints
<1> HIDE DEF g
<1>5. Fits(terminal_print(g, Prompt))
  BY <1>3, <1>4, Prints
<1>6. Fits(t)
  BY <1>5 DEF TermInit, g
<1>7. cmd \in Seq(Char) /\ Len(cmd) = 0 /\ t.cur_col \in Nat
  BY <1>6, EmptySeq DEF TermInit, Fits
<1> QED
  BY <1>6, <1>7 DEF TermInv, Typed

\* What the property says of a key.
Kept == put' = <<"clear">> \/ Moved(t, t', LinesAdded(t.cur_col, put'))

LEMMA Printed ==
  ASSUME TermInv, put' \in Seq(Char \cup Control), t' = terminal_print(t, put')
  PROVE  Fits(t') /\ Kept
BY Prints DEF Kept, TermInv

LEMMA PrintedOne ==
  ASSUME TermInv, NEW c \in Char \cup Control, put' = <<c>>, t' = terminal_putc(t, c)
  PROVE  Fits(t') /\ Kept
<1>1. <<c>> \in Seq(Char \cup Control)
  OBVIOUS
<1> QED
  BY <1>1, Printed, PrintsOne

LEMMA PrintedNone ==
  ASSUME TermInv, put' = <<>>, t' = t
  PROVE  Kept
<1>1. <<>> \in Seq(Char \cup Control)
  OBVIOUS
<1> QED
  BY <1>1, Printed, PrintsNone

LEMMA Chars ==
  ASSUME TermInv, NEW c \in Char, key_char(c)
  PROVE  TermInv' /\ Kept
<1>1. CASE ~ (Len(cmd) < TERM_COLS)
  <2>1. t' = t /\ cmd' = cmd /\ wrapped' = wrapped /\ put' = <<>>
    BY <1>1 DEF key_char
  <2> QED BY <2>1, PrintedNone DEF TermInv, Typed, Fits, Before
<1>2. CASE Len(cmd) < TERM_COLS
  <2>1. /\ cmd' = Append(cmd, c) /\ t' = terminal_putc(t, c) /\ put' = <<c>>
        /\ wrapped' = (wrapped \/ t.cur_col >= Cols)
    BY <1>2 DEF key_char
  <2>2. /\ Fits(t) /\ cmd \in Seq(Char) /\ Len(cmd) \in Nat
        /\ t.cur_col \in Nat /\ Cols \in Nat /\ c \notin Control
    BY Lines, LenProperties, TerminalAssumption DEF TermInv, Fits, Char, Control, Blank
  <2>3. /\ cmd' \in Seq(Char) /\ Len(cmd') = Len(cmd) + 1 /\ cmd'[Len(cmd) + 1] = c
        /\ \A i \in 1 .. Len(cmd) : cmd'[i] = cmd[i]
    BY <2>1, <2>2, AppendProperties
  <2>4. Fits(t)' /\ Kept
    BY <2>1, <2>2, PrintedOne
  <2>5. Typed(t, cmd, wrapped)'
    <3>1. SUFFICES ASSUME ~wrapped'
                   PROVE  /\ Len(cmd') <= t'.cur_col
                          /\ \A i \in 1 .. Len(cmd') :
                               cmd'[i] = Before(t', t'.cur_col - Len(cmd') + i)
      BY DEF Typed, Before
    <3>2. ~wrapped /\ t.cur_col < Cols
      <4>1. ~wrapped /\ ~ (t.cur_col >= Cols)
        BY <2>1, <3>1, Zenon
      <4> QED BY <2>2, <4>1
    <3>3. t' = Write(t, c)
      BY <2>1, <2>2, <3>2 DEF terminal_putc, Control
    <3>4. /\ t'.cur_col = t.cur_col + 1 /\ Before(t', t.cur_col + 1) = c
          /\ \A i \in 1 .. t.cur_col : Before(t', i) = Before(t, i)
      BY <2>2, <3>2, <3>3, Written
    <3>5. /\ Len(cmd) <= t.cur_col
          /\ \A i \in 1 .. Len(cmd) : cmd[i] = Before(t, t.cur_col - Len(cmd) + i)
      BY <3>2 DEF TermInv, Typed
    <3>6. ASSUME NEW i \in 1 .. Len(cmd')
          PROVE  cmd'[i] = Before(t', t'.cur_col - Len(cmd') + i)
      <4> DEFINE j == t.cur_col - Len(cmd) + i
      <4>1. t'.cur_col - Len(cmd') + i = j /\ i \in 1 .. (Len(cmd) + 1)
        BY <2>2, <2>3, <3>4
      <4>2. CASE i = Len(cmd) + 1
        <5>1. j = t.cur_col + 1
          BY <2>2, <4>2
        <5> QED BY <2>3, <3>4, <4>1, <4>2, <5>1
      <4>3. CASE i # Len(cmd) + 1
        <5>1. i \in 1 .. Len(cmd) /\ j \in 1 .. t.cur_col
          BY <2>2, <3>5, <4>1, <4>3
        <5> HIDE DEF j
        <5>2. cmd[i] = Before(t, j)
          BY <3>5, <5>1 DEF j
        <5> QED BY <2>3, <3>4, <4>1, <5>1, <5>2
      <4> QED BY <4>2, <4>3
    <3> QED BY <2>2, <2>3, <3>4, <3>5, <3>6
  <2> QED BY <2>3, <2>4, <2>5 DEF TermInv
<1> QED
  BY <1>1, <1>2

LEMMA Backspaces ==
  ASSUME TermInv, key_backspace
  PROVE  TermInv' /\ Kept
<1>1. CASE cmd = <<>>
  <2>1. t' = t /\ cmd' = cmd /\ wrapped' = wrapped /\ put' = <<>>
    BY <1>1 DEF key_backspace
  <2> QED BY <2>1, PrintedNone DEF TermInv, Typed, Fits, Before
<1>2. CASE cmd # <<>>
  <2>1. /\ cmd' = Front(cmd) /\ t' = terminal_putc(t, "backspace") /\ wrapped' = wrapped
        /\ put' = <<"backspace">>
    BY <1>2 DEF key_backspace
  <2>2. /\ Fits(t) /\ cmd \in Seq(Char) /\ Len(cmd) \in Nat \ {0}
        /\ t.cur_col \in Nat
    BY <1>2, EmptySeq DEF TermInv, Fits
  <2>3. /\ cmd' \in Seq(Char) /\ Len(cmd') = Len(cmd) - 1
        /\ \A i \in 1 .. (Len(cmd) - 1) : cmd'[i] = cmd[i]
    <3>1. Len(cmd) - 1 \in 0 .. Len(cmd)
      BY <2>2
    <3>2. Front(cmd) = SubSeq(cmd, 1, Len(cmd) - 1)
      BY DEF Front
    <3> QED BY <2>1, <2>2, <3>1, <3>2, LineCut
  <2>4. Fits(t)' /\ Kept
    BY <2>1, PrintedOne DEF Control
  <2>6. Typed(t, cmd, wrapped)'
    <3>1. SUFFICES ASSUME ~wrapped'
                   PROVE  /\ Len(cmd') <= t'.cur_col
                          /\ \A i \in 1 .. Len(cmd') :
                               cmd'[i] = Before(t', t'.cur_col - Len(cmd') + i)
      BY DEF Typed, Before
    <3>2. /\ Len(cmd) <= t.cur_col
          /\ \A i \in 1 .. Len(cmd) : cmd[i] = Before(t, t.cur_col - Len(cmd) + i)
      BY <2>1, <3>1 DEF TermInv, Typed
    <3>3. t.cur_col # 0
      BY <2>2, <3>2
    <3>4. /\ t'.cur_col = t.cur_col - 1
          /\ \A i \in 1 .. (t.cur_col - 1) : Before(t', i) = Before(t, i)
      BY <2>1, <2>2, <3>3, Erased
    <3>5. ASSUME NEW i \in 1 .. Len(cmd')
          PROVE  cmd'[i] = Before(t', t'.cur_col - Len(cmd') + i)
      <4> DEFINE j == t.cur_col - Len(cmd) + i
      <4>1. t'.cur_col - Len(cmd') + i = j /\ i \in 1 .. (Len(cmd) - 1) /\ i \in 1 .. Len(cmd)
            /\ j \in 1 .. (t.cur_col - 1)
        BY <2>2, <2>3, <3>2, <3>4
      <4> HIDE DEF j
      <4>2. cmd[i] = Before(t, j)
        BY <3>2, <4>1 DEF j
      <4> QED BY <2>3, <3>4, <4>1, <4>2
    <3> QED BY <2>2, <2>3, <3>2, <3>4, <3>5
  <2> QED BY <2>3, <2>4, <2>6 DEF TermInv
<1> QED
  BY <1>1, <1>2

\* Two texts, one after the other.
LEMMA Joined ==
  ASSUME NEW T, NEW s \in Seq(T), NEW w \in Seq(T)
  PROVE  s \o w \in Seq(T)
OBVIOUS

LEMMA Enters ==
  ASSUME TermInv, key_enter
  PROVE  TermInv' /\ Kept
<1>1. cmd' = <<>> /\ wrapped' = FALSE /\ Len(cmd') = 0 /\ cmd' \in Seq(Char)
  BY EmptySeq DEF key_enter
<1>2. "newline" \in Char \cup Control /\ <<"newline">> \in Seq(Char \cup Control)
  BY DEF Control
<1>3. ASSUME exec_command PROVE Fits(t') /\ Kept
  <2>1. PICK s \in Answers : put' = <<"newline">> \o s \o Prompt
    BY <1>3 DEF exec_command
  <2>2. s \in Seq(Char \cup Control)
    <3>1. s = <<>> \/ s \in Outputs
      BY <2>1 DEF Answers
    <3> QED BY <3>1, EmptySeq, TerminalAssumption
  <2>3. <<"newline">> \o s \in Seq(Char \cup Control)
    BY <1>2, <2>2, Joined
  <2>4. put' \in Seq(Char \cup Control)
    BY <2>1, <2>3, PromptPrinted, Joined
  <2>5. t' = terminal_print(t, put')
    BY <1>3 DEF exec_command
  <2> QED BY <2>4, <2>5, Printed
<1>4. ASSUME exec_clear PROVE Fits(t') /\ Kept
  <2> DEFINE b == terminal_putc(t, "newline")
             y == terminal_clear(b)
  <2>1. put' = <<"clear">> /\ t' = terminal_print(y, Prompt)
    BY <1>4 DEF exec_clear
  <2>2. b = new_line(t)
    BY DEF terminal_putc
  <2> HIDE DEF b
  <2>3. Fits(b)
    BY <2>2, NewLine DEF TermInv
  <2>4. Fits(y)
    BY <2>3, Cleared
  <2> HIDE DEF y
  <2> QED BY <2>1, <2>4, Prints, PromptPrinted DEF Kept
<1>5. ASSUME exec_overrun PROVE Fits(t') /\ Kept
  BY <1>2, <1>5, PrintedOne DEF exec_overrun
<1>6. Fits(t') /\ Kept
  BY <1>3, <1>4, <1>5 DEF key_enter
<1>7. Typed(t, cmd, wrapped)'
  BY <1>1, <1>6 DEF Typed, Fits
<1> QED
  BY <1>1, <1>6, <1>7 DEF TermInv

LEMMA TermStep ==
  ASSUME TermInv, [TermNext]_termVars
  PROVE  TermInv' /\ (termVars' = termVars \/ Kept)
<1>1. CASE UNCHANGED termVars
  BY <1>1 DEF termVars, TermInv
<1> QED
  BY <1>1, Chars, Backspaces, Enters DEF TermNext

\* The last characters of a sequence, read from its end.
LEMMA Suffix ==
  ASSUME NEW s \in Seq(Char), NEW w \in Seq(Char), Len(s) <= Len(w),
         \A i \in 1 .. Len(s) : s[i] = w[Len(w) - Len(s) + i]
  PROVE  IsSuffix(s, w)
<1> DEFINE n == Len(s)
           m == Len(w)
           r == Reverse(s)
           q == Reverse(w)
<1>1. n \in Nat /\ m \in Nat /\ n <= m
  BY LenProperties
<1>2. /\ r = [i \in 1 .. n |-> s[(n - i) + 1]]
      /\ q = [i \in 1 .. m |-> w[(m - i) + 1]]
  BY DEF Reverse
<1>3. /\ \A i \in 1 .. n : s[i] \in Char
      /\ \A i \in 1 .. m : w[i] \in Char
  BY ElementOfSeq
<1>4. r \in Seq(Char) /\ Len(r) = n
  <2>1. \A i \in 1 .. n : (n - i) + 1 \in 1 .. n
    BY <1>1
  <2>2. r \in [1 .. n -> Char]
    BY <1>2, <1>3, <2>1
  <2> HIDE DEF r
  <2> QED BY <1>1, <2>2, SMT
<1>5. q \in Seq(Char) /\ Len(q) = m
  <2>1. \A i \in 1 .. m : (m - i) + 1 \in 1 .. m
    BY <1>1
  <2>2. q \in [1 .. m -> Char]
    BY <1>2, <1>3, <2>1
  <2> HIDE DEF q
  <2> QED BY <1>1, <2>2, SMTT(60)
<1>6. ASSUME NEW i \in 1 .. n PROVE r[i] = q[i]
  <2> DEFINE j == (n - i) + 1
  <2>1. j \in 1 .. n /\ (m - i) + 1 = m - n + j /\ i \in 1 .. m
    BY <1>1
  <2>2. r[i] = s[j] /\ q[i] = w[(m - i) + 1]
    BY <1>2, <2>1
  <2> HIDE DEF j
  <2> QED BY <2>1, <2>2
<1> HIDE DEF r, q
<1>7. SubSeq(r, 1, n) = SubSeq(q, 1, n)
  <2>1. /\ SubSeq(r, 1, n) \in Seq(Char) /\ Len(SubSeq(r, 1, n)) = n
        /\ \A i \in 1 .. n : SubSeq(r, 1, n)[i] = r[i]
    BY <1>1, <1>4, LineCut
  <2>2. /\ SubSeq(q, 1, n) \in Seq(Char) /\ Len(SubSeq(q, 1, n)) = n
        /\ \A i \in 1 .. n : SubSeq(q, 1, n)[i] = q[i]
    BY <1>1, <1>5, LineCut
  <2> QED BY <1>6, <2>1, <2>2, SeqEqual
<1> QED
  BY <1>1, <1>4, <1>5, <1>7 DEF IsSuffix, IsPrefix, r, q

LEMMA Shows ==
  ASSUME TermInv
  PROVE  EchoShowsCommand
<1>1. /\ t.cur_line \in Line /\ t.cur_line \in Nat /\ t.cur_col \in Nat
      /\ t.nlines \in Nat /\ t.lines \in [Line -> Seq(Char)]
      /\ \A l \in Line : Len(t.lines[l]) <= Cols
      /\ t.cur_col <= Len(t.lines[t.cur_line])
      /\ t.nlines = t.cur_line + 1 \/ (t.nlines = 0 /\ t.cur_line = 0)
      /\ Cols \in Nat /\ Cols <= TERM_COLS /\ TERM_COLS \in Nat /\ Rows \in Nat /\ Rows > 0
  BY Lines DEF TermInv, Fits
<1>2. \A l \in Line : Len(t.lines[l]) <= TERM_COLS
  BY <1>1, LenProperties
<1>3. CursorRows # {}
  <2>1. t.cur_line - start \in 0 .. (Rows - 1) /\ start + (t.cur_line - start) = t.cur_line
    <3>1. CASE t.nlines > Rows
      <4>1. start = t.cur_line + 1 - Rows /\ t.cur_line + 1 > Rows
        BY <1>1, <3>1 DEF start
      <4>2. Rows \in Nat /\ Rows > 0 /\ t.cur_line \in Nat
        BY <1>1
      <4>3. t.cur_line - start = Rows - 1 /\ start + (t.cur_line - start) = t.cur_line
        BY <4>1, <4>2
      <4> QED BY <4>2, <4>3
    <3>2. CASE ~ (t.nlines > Rows)
      <4>1. start = 0 /\ t.cur_line < Rows
        BY <1>1, <3>2 DEF start
      <4> QED BY <1>1, <4>1
    <3> QED BY <3>1, <3>2
  <2> QED BY <2>1 DEF CursorRows
<1>4. ASSUME NEW row \in CursorRows, ~wrapped, t.cur_line < t.nlines
      PROVE  IsSuffix(cmd, SubSeq(Shown(row), 1, t.cur_col))
  <2> DEFINE l == t.lines[t.cur_line]
             w == SubSeq(l, 1, t.cur_col)
  <2>1. Shown(row) = l
    BY <1>4 DEF CursorRows, Shown
  <2>2. l \in Seq(Char) /\ Len(l) \in Nat /\ t.cur_col \in 0 .. Len(l)
    BY <1>1, LenProperties
  <2>3. w \in Seq(Char) /\ Len(w) = t.cur_col /\ \A i \in 1 .. t.cur_col : w[i] = l[i]
    BY <2>2, LineCut
  <2>4. /\ Len(cmd) <= t.cur_col /\ cmd \in Seq(Char) /\ Len(cmd) \in Nat
        /\ \A i \in 1 .. Len(cmd) : cmd[i] = Before(t, t.cur_col - Len(cmd) + i)
    BY <1>4, LenProperties DEF TermInv, Typed
  <2>5. ASSUME NEW i \in 1 .. Len(cmd) PROVE cmd[i] = w[Len(w) - Len(cmd) + i]
    <3> DEFINE j == t.cur_col - Len(cmd) + i
    <3> HIDE DEF w
    <3>1. j \in 1 .. t.cur_col /\ Len(w) - Len(cmd) + i = j
      BY <1>1, <2>3, <2>4
    <3> HIDE DEF j
    <3>2. cmd[i] = l[j]
      BY <2>4 DEF j, Before
    <3> QED BY <2>3, <3>1, <3>2
  <2> HIDE DEF w
  <2>6. IsSuffix(cmd, w)
    BY <2>3, <2>4, <2>5, Suffix
  <2> QED BY <2>1, <2>6 DEF w
<1> QED
  BY <1>2, <1>3, <1>4 DEF EchoShowsCommand

\* Whatever commands and programs print, the window shows the cursor behind the
\* command that is being typed, and no line outgrows its buffer.
THEOREM EchoShows == TermSpec => []EchoShowsCommand
<1>1. TermInv /\ [TermNext]_termVars => TermInv'
  BY TermStep
<1> QED
  BY <1>1, TermBegins, Shows, PTL DEF TermSpec

\* No key, command or output rewrites a line of the scrollback.
THEOREM ScrollbackStays == TermSpec => ScrollbackKept
<1> DEFINE A == put' = <<"clear">> \/
       LET n == LinesAdded(t.cur_col, put')
           d == IF t.cur_line + n < TERM_MAXLINES THEN 0
                ELSE t.cur_line + n + 1 - TERM_MAXLINES
       IN  /\ t'.cur_line = t.cur_line + n - d
           /\ \A l \in d .. (t.cur_line - 1) : t'.lines[l - d] = t.lines[l]
<1>1. TermInv /\ [TermNext]_termVars => TermInv'
  BY TermStep
<1>2. TermInv /\ [TermNext]_termVars => [A]_termVars
  <2>1. Kept => A
    BY DEF Kept, Moved, Dropped
  <2> HIDE DEF A
  <2> QED BY <2>1, TermStep
<1> QED
  BY <1>1, <1>2, TermBegins, PTL DEF TermSpec, ScrollbackKept
=============================================================================

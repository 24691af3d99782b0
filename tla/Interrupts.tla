----------------------------- MODULE Interrupts -----------------------------
(***************************************************************************)
(* From a line of a device to its handler: how idt.c programs the two 8259 *)
(* interrupt controllers, finds the handler of an interrupt, and ends it.  *)
(*                                                                         *)
(* The controllers are external.  Lines 0-7 are the master's and 8-15 the  *)
(* slave's, which is wired to line 2 of the master.  pic_remap's 0x11      *)
(* makes requests edge-triggered: a line that rises leaves a request, and  *)
(* no other is left before the line has fallen.  A request is in service   *)
(* from the moment the processor takes it to the end that pic_eoi tells    *)
(* its controller of, and meanwhile keeps back all that are not more       *)
(* urgent.  A request whose line falls early stays, is gone, or is taken   *)
(* as the spurious interrupt of its controller, line 7 or 15.              *)
(***************************************************************************)
EXTENDS Integers, FiniteSets

\* A controller pair: requests, and what each of the two has in service.
Idle == [irr |-> {}, master |-> {}, slave |-> {}]

Spurious == {7, 15}

\* The lines whose mask bits pic_remap leaves clear: 0xE0 and 0xEF.
Unmasked == {0, 1, 2, 3, 4, 12}

\* 0 is most urgent; the slave's lines come in place of the master's line 2.
Urgency(irq) == IF irq >= 8 THEN 8 + irq ELSE 8 * irq

InService(pic) == pic.master \cup pic.slave

\* What the controllers offer the processor.
Offered(pic) ==
  {q \in pic.irr \cap (Unmasked \cup Spurious) :
     /\ q >= 8 => 2 \in Unmasked
     /\ \A s \in InService(pic) : Urgency(q) < Urgency(s)}

\* The processor takes q: a spurious request is not in service at its own
\* controller, but the master has the slave's in service.
Taken(pic, q) ==
  [irr |-> pic.irr \ {q},
   master |-> pic.master \cup (IF q >= 8 THEN {2} ELSE {q} \ Spurious),
   slave |-> pic.slave \cup (IF q >= 8 THEN {q} \ Spurious ELSE {})]

\* The command 0x20 ends the most urgent one in service.
Ended(lines) == {q \in lines : \E s \in lines : s < q}

\* Mutant of pic_eoi.
pic_eoi_MasterOnly(pic, irq) == [pic EXCEPT !.master = Ended(@)]

pic_eoi(pic, irq) ==
  [pic EXCEPT !.slave = IF irq >= 8 THEN Ended(@) ELSE @, !.master = Ended(@)]

\* The lines that fell are no longer up; what becomes of their requests.
Fallen(pic, down) ==
  IF down \cap pic.irr = {} THEN {pic}
  ELSE LET rest == pic.irr \ down
       IN  {[pic EXCEPT !.irr = i] :
              i \in {pic.irr, rest, rest \cup {IF q >= 8 THEN 15 ELSE 7 : q \in down}}}

\* Lines rise.
Risen(pic, up) == [pic EXCEPT !.irr = @ \cup up]

\* The vector pic_remap gives a line.
Vector(irq) == 32 + irq

\* isr_handler: whose handler an interrupt calls, if there is one, and whether
\* pic_eoi follows.  int 0x80 calls the handler of line 0.
Dispatch(n) ==
  IF n \in 32 .. 47 THEN [handler |-> n - 32, ends |-> TRUE]
                    ELSE [handler |-> IF n = 128 THEN 0 ELSE -1, ends |-> n # 128]
=============================================================================

------------------------------ MODULE Ps2Mouse ------------------------------
(***************************************************************************)
(* The mouse driver (src/src/mouse.c) on the PS/2 controller it shares     *)
(* with the keyboard driver: kbd_init and mouse_init poll the controller   *)
(* with interrupts off, then the two handlers read it on interrupts.       *)
(*                                                                         *)
(* The controller and its devices are external.  The controller hands out  *)
(* one byte after the other, from whatever source; while a byte is there   *)
(* to be read, line 12 is up if it is marked as the mouse's (status bit 5) *)
(* and line 1 if not, provided the configuration byte enables that line.   *)
(* What becomes of the lines is said in Interrupts.                        *)
(***************************************************************************)
EXTENDS Integers, Sequences, Interrupts

CONSTANTS
  Width, Height,   \* g_fb.width, g_fb.height
  U32,             \* 2^32, the range of the unsigned coordinates
  Motions,         \* what the mouse reports: [dx, dy, buttons]
  Configs,         \* configuration bytes the controller may start with
  MaxOut           \* bound: bytes of the devices waiting in the controller

\* A 9-bit motion is small against the range of the coordinates.
ASSUME MouseAssumption ==
  /\ Width \in Nat \ {0} /\ Height \in Nat \ {0}
  /\ U32 \in Nat /\ U32 >= Width + 256 /\ U32 >= Height + 256
  /\ Motions \subseteq [dx : -256 .. 255, dy : -256 .. 255, buttons : 0 .. 7]
  /\ Configs \subseteq 0 .. 255
  /\ MaxOut \in Nat

VARIABLES
  stage,      \* replies read so far by kbd_init and mouse_init, then Sti and on
  asked,      \* a command has been sent and its reply not been read
  config,     \* the configuration byte of the PS/2 controller
  out,        \* bytes waiting in it
  pic,        \* the interrupt controllers
  vector,     \* the interrupt being handled, or 0
  ending,     \* its handler has returned
  clean,      \* history: nobody touched keyboard or mouse before stage Run
  rest,       \* bytes of the present packet that the mouse has still to send
  packet,     \* the bytes in the driver's packet buffer: the first idx of it
  x, y, buttons, dirty   \* the driver's state

device == <<clean, rest>>
handling == <<vector, ending>>
pointer == <<x, y, buttons, dirty>>
driver == <<packet, pointer>>
vars == <<stage, asked, config, out, pic, handling, device, driver>>

Sti == 4        \* both inits are done
Leftover == 5   \* interrupts are on, those left over from the polling are due
Run == 6

Bit(n, k) == (n \div (2 ^ k)) % 2 = 1
With(n, k) == IF Bit(n, k) THEN n ELSE n + 2 ^ k
Without(n, k) == IF Bit(n, k) THEN n - 2 ^ k ELSE n

\* place: which byte of its packet this is; 0 for a byte that is not motion.
Byte(source, data, place) == [source |-> source, data |-> data, place |-> place]

\* The byte values of a packet: 9-bit two's complement motion, its signs and
\* bit 3 in the first byte.
Encode(m) ==
  <<m.buttons + 8 + (IF m.dx < 0 THEN 16 ELSE 0) + (IF m.dy < 0 THEN 32 ELSE 0),
    m.dx % 256, m.dy % 256>>

Key == Byte("keyboard", 30, 0)
Ack == Byte("mouse", 250, 0)

\* The line that is up for a byte, and those that are up with o waiting.
Irq(byte) == IF byte.source = "mouse" THEN 12 ELSE 1
Up(o, c) == {Irq(o[k]) : k \in {n \in DOMAIN o : n = 1 /\ Bit(c, IF Irq(o[n]) = 1 THEN 0 ELSE 1)}}

\* A key hit under the boot loader may have left its byte: pic_remap makes the
\* controllers forget the request.
Init ==
  /\ stage = 0 /\ asked = FALSE
  /\ config \in Configs
  /\ out \in {<<>>, <<Key>>}
  /\ pic = Idle /\ vector = 0 /\ ending = FALSE
  /\ clean = (out = <<>>)
  /\ rest = <<>> /\ packet = <<>>
  /\ x = Width \div 2 /\ y = Height \div 2 /\ buttons = 0 /\ dirty = FALSE

-----------------------------------------------------------------------------
(* The devices *)

Put(byte) ==
  /\ out' = Append(out, byte)
  /\ pic' = Risen(pic, Up(out', config) \ Up(out, config))

\* The user does something.
Input == Len(out) < MaxOut /\ clean' = (clean /\ stage = Run)

\* Bits 4 and 5 of the configuration byte switch the devices off.
key_byte ==
  /\ Input /\ ~Bit(config, 4)
  /\ Put(Key)
  /\ UNCHANGED <<stage, asked, config, handling, rest, driver>>

\* The mouse reports once command 0xF4 has been sent to it.
mouse_byte ==
  /\ Input /\ ~Bit(config, 5)
  /\ stage >= Sti \/ (stage = 3 /\ asked)
  /\ \E p \in IF rest = <<>> THEN {Encode(m) : m \in Motions} ELSE {rest} :
       /\ Put(Byte("mouse", Head(p), 4 - Len(p)))
       /\ rest' = Tail(p)
  /\ UNCHANGED <<stage, asked, config, handling, driver>>

\* The byte at the port is read: its line falls, and the next one's rises.
Read ==
  /\ out # <<>>
  /\ out' = Tail(out)
  /\ \E p \in Fallen(pic, Up(out, config)) : pic' = Risen(p, Up(out', config))

-----------------------------------------------------------------------------
(* kbd_init and mouse_init *)

\* Each begins by switching its device on (0xAE, 0xA8) and asks for the
\* configuration byte (0x20); the mouse acknowledges 0xF6 and 0xF4.
command ==
  /\ stage < Sti /\ ~asked
  /\ asked' = TRUE
  /\ config' = IF stage < 2 THEN Without(config, 4 + stage) ELSE config
  /\ Put(IF stage < 2 THEN Byte("controller", config', 0) ELSE Ack)
  /\ UNCHANGED <<stage, handling, device, driver>>

\* Mutant of read_reply.
read_reply_LastAckLeft ==
  /\ stage \in 0 .. 3 /\ asked
  /\ IF stage = 3 THEN UNCHANGED <<out, pic>> ELSE Read
  /\ config' = IF stage < 2 THEN With(Head(out).data, stage) ELSE config
  /\ stage' = stage + 1
  /\ asked' = FALSE
  /\ UNCHANGED <<handling, device, driver>>

\* ps2_wait_read, then inb: the byte that is there is taken for the reply.  The
\* first two are written back with the bit for IRQ 1 or 12 set (0x60).
read_reply ==
  /\ stage < Sti /\ asked
  /\ Read
  /\ config' = IF stage < 2 THEN With(Head(out).data, stage) ELSE config
  /\ stage' = stage + 1
  /\ asked' = FALSE
  /\ UNCHANGED <<handling, device, driver>>

sti ==
  /\ stage = Sti
  /\ stage' = IF pic.irr = {} THEN Run ELSE Leftover
  /\ UNCHANGED <<asked, config, out, pic, handling, device, driver>>

-----------------------------------------------------------------------------
(* Interrupts *)

\* The main loop is interrupted by the most urgent request; interrupts are off
\* until iretq.
interrupt ==
  /\ stage > Sti /\ vector = 0
  /\ \E q \in Offered(pic) :
       /\ \A r \in Offered(pic) : Urgency(q) <= Urgency(r)
       /\ vector' = Vector(q)
       /\ pic' = Taken(pic, q)
  /\ UNCHANGED <<stage, asked, config, out, ending, device, driver>>

\* The handler registered for a line is called, and returns.
Called(irq) ==
  /\ vector # 0 /\ ~ending /\ Dispatch(vector).handler = irq
  /\ ending' = TRUE
  /\ UNCHANGED <<stage, asked, config, vector, device>>

NoByte == out = <<>> /\ UNCHANGED <<out, pic, driver>>

\* Mutant of kbd_irq.
kbd_irq_StatusOnly == Called(1) /\ UNCHANGED <<out, pic, driver>>

\* kbd_irq takes any byte, a byte of the mouse too (decoding: module Keyboard).
kbd_irq == Called(1) /\ (NoByte \/ (Read /\ UNCHANGED driver))

\* A coordinate moves by d unless that would leave the screen: the sum is
\* unsigned, so what lies left of 0 lies beyond the right edge.
Moved(c, d, size) == IF (c + d) % U32 < size THEN (c + d) % U32 ELSE c

\* Mutant of Store.
Store_NoSign(data) ==
  LET p == Append(packet, data)
  IN  /\ packet' = IF Len(p) = 3 THEN <<>> ELSE p
      /\ IF Len(p) = 3 /\ Bit(p[1], 3)
         THEN /\ x' = Moved(x, p[2], Width)
              /\ y' = Moved(y, -p[3], Height)
              /\ buttons' = p[1] % 8
              /\ dirty' = TRUE
         ELSE UNCHANGED pointer

\* Three bytes make a packet if the first has bit 3 set.
Store(data) ==
  LET p == Append(packet, data)
      dx == p[2] - (IF Bit(p[1], 4) THEN 256 ELSE 0)
      dy == p[3] - (IF Bit(p[1], 5) THEN 256 ELSE 0)
  IN  /\ packet' = IF Len(p) = 3 THEN <<>> ELSE p
      /\ IF Len(p) = 3 /\ Bit(p[1], 3)
         THEN /\ x' = Moved(x, dx, Width)
              /\ y' = Moved(y, -dy, Height)
              /\ buttons' = p[1] % 8
              /\ dirty' = TRUE
         ELSE UNCHANGED pointer

\* mouse_irq takes a byte of the keyboard too, and drops it.
mouse_irq ==
  /\ Called(12)
  /\ \/ NoByte
     \/ /\ Read
        /\ IF Head(out).source = "mouse" THEN Store(Head(out).data)
                                         ELSE UNCHANGED driver

\* The spurious interrupts have no handler.
no_handler == (Called(7) \/ Called(15)) /\ UNCHANGED <<out, pic, driver>>

\* pic_eoi, and iretq.
end_of_interrupt ==
  /\ ending
  /\ pic' = pic_eoi(pic, Dispatch(vector).handler)
  /\ vector' = 0 /\ ending' = FALSE
  /\ stage' = IF pic'.irr = {} THEN Run ELSE stage
  /\ UNCHANGED <<asked, config, out, device, driver>>

\* The main loop clears the flag, see InputLoop.
mouse_clear_dirty ==
  /\ stage > Sti /\ vector = 0 /\ dirty
  /\ dirty' = FALSE
  /\ UNCHANGED <<stage, asked, config, out, pic, handling, device, packet, x, y, buttons>>

Kernel ==
  \/ command \/ read_reply \/ sti
  \/ interrupt \/ kbd_irq \/ mouse_irq \/ no_handler \/ end_of_interrupt

Next == key_byte \/ mouse_byte \/ Kernel \/ mouse_clear_dirty

\* The processor goes on, and serves what interrupts it.
Spec == Init /\ [][Next]_vars /\ WF_vars(Kernel)

\* And the mouse finishes its packets and sends new ones.
FairSpec == Spec /\ WF_vars(mouse_byte)

-----------------------------------------------------------------------------
(* Properties *)

\* The bytes of motion packets that are still to be read.
Unread == {n \in DOMAIN out : out[n].place > 0}

\* The first byte of the packet buffer is the first of a packet: it holds the
\* bytes that come before the next to be read, or to be sent.
InStep ==
  /\ Unread = {} => Len(packet) = (3 - Len(rest)) % 3
  /\ \A n \in Unread : (\A k \in Unread : n <= k) => Len(packet) = out[n].place - 1

\* If nobody touched keyboard or mouse before interrupts were enabled, the
\* driver is in step with the mouse, however keys and packets mix later.
StaysInStep == clean => InStep

\* ... and then a packet moves the pointer by the motion the mouse reported; and
\* the pointer stays on the screen whatever bytes are put together, out of step too.
MovesAsReported ==
  [][/\ x' \in 0 .. (Width - 1) /\ y' \in 0 .. (Height - 1)
     /\ clean /\ out # <<>> /\ Head(out).place = 3 /\ Len(out') < Len(out) =>
          \E m \in Motions :
            /\ Encode(m)[1] = packet[1] /\ Encode(m)[2] = packet[2]
            /\ Encode(m)[3] = Head(out).data
            /\ x' = IF x + m.dx \in 0 .. (Width - 1) THEN x + m.dx ELSE x
            /\ y' = IF y - m.dy \in 0 .. (Height - 1) THEN y - m.dy ELSE y
            /\ buttons' = m.buttons /\ dirty']_vars

\* Requests come from edges and the two devices share the port, yet a byte is
\* never stranded: while one waits and no interrupt is being handled, there is
\* a request whose handler will read it.
NoByteStranded ==
  clean /\ stage > Sti /\ vector = 0 /\ out # <<>> => Irq(Head(out)) \in pic.irr

\* ... and no mask, priority or interrupt without an end keeps that request
\* from being served: again and again nothing is waiting, or something is read.
BytesGetRead ==
  <>(~clean) \/ []<>(out = <<>>) \/ []<><<Len(out') < Len(out)>>_out

-----------------------------------------------------------------------------
(* What comments say and the code does not do *)

\* src/src/mouse.c:56, "not a valid packet start, resync": a driver that fell
\* out of step gets back into step.
Resynchronises == stage = Run /\ ~InStep ~> InStep

\* src/src/keyboard.c:131, "read and set config byte: enable IRQ1 (keyboard)",
\* and mouse.c:103, "read config byte, enable IRQ12 (bit 1)": both are enabled.
BothEnabled == stage > Sti => Bit(config, 0) /\ Bit(config, 1)
=============================================================================

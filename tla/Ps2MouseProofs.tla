--------------------------- MODULE Ps2MouseProofs ---------------------------
(***************************************************************************)
(* Proofs about the mouse driver, for any screen, any motions the mouse    *)
(* may report and any number of bytes that wait in the controller.         *)
(***************************************************************************)
EXTENDS Ps2Mouse, SequenceTheorems, TLAPS

Bytes == [source : {"keyboard", "mouse", "controller"}, data : Int, place : 0 .. 3]

IsPic(p) == p = [irr |-> p.irr, master |-> p.master, slave |-> p.slave]

Short(s) == s \in Seq(Int) /\ Len(s) <= 2

TypeOK ==
  /\ stage \in 0 .. 6 /\ asked \in BOOLEAN /\ config \in Int
  /\ out \in Seq(Bytes)
  /\ IsPic(pic)
  /\ vector \in {0} \cup 32 .. 47 /\ ending \in BOOLEAN /\ clean \in BOOLEAN
  /\ Short(rest) /\ Short(packet)
  /\ x \in 0 .. (Width - 1) /\ y \in 0 .. (Height - 1)
  /\ stage <= Sti => vector = 0
  /\ vector = 0 => ~ending

Packets == {Encode(m) : m \in Motions}

\* With c0 in the packet buffer the byte b comes in place, and leaves c1 there.
Fits(c0, b, c1) ==
  \/ b.place = 0 /\ b.source = "keyboard" /\ c1 = c0
  \/ b.place = 1 /\ b.source = "mouse" /\ Len(c0) = 0 /\ c1 = <<b.data>>
  \/ b.place = 2 /\ b.source = "mouse" /\ Len(c0) = 1 /\ c1 = <<c0[1], b.data>>
  \/ b.place = 3 /\ b.source = "mouse" /\ Len(c0) = 2 /\ c1 = <<>>
       /\ <<c0[1], c0[2], b.data>> \in Packets

\* What is in the buffer is the first part of a packet, r the other.
Whole(c, r) ==
  \/ c = <<>> /\ r = <<>>
  \/ \E p \in Packets : c = <<p[1]>> /\ r = <<p[2], p[3]>>
  \/ \E p \in Packets : c = <<p[1], p[2]>> /\ r = <<p[3]>>

\* c[n] is what is in the buffer when n of the bytes that wait have been read.
Contents(w, c0, r, c) ==
  /\ c \in [0 .. Len(w) -> Seq(Int)]
  /\ c[0] = c0
  /\ \A n \in 1 .. Len(w) : Fits(c[n - 1], w[n], c[n])
  /\ \A n \in 0 .. Len(w) : \A k \in 0 .. n :
       (\A i \in (k + 1) .. n : w[i].place = 0) => c[n] = c[k]
  /\ Whole(c[Len(w)], r)

InFlight(w, c0, r) == \E c \in [0 .. Len(w) -> Seq(Int)] : Contents(w, c0, r, c)

\* Before interrupts are on and nothing of the polling is left over, what waits
\* is the reply to the command that has been sent.
Polling ==
  /\ stage < Run => rest = <<>> /\ packet = <<>>
  /\ stage < Sti /\ asked => /\ Len(out) = 1 /\ Head(out).place = 0
                             /\ stage < 2 => Head(out).data = config
  /\ stage < Sti /\ ~asked => out = <<>>
  /\ stage \in {Sti, Leftover} => out = <<>>
  /\ stage >= 1 => Bit(config, 0)
  /\ stage >= 2 => Bit(config, 1)

\* Afterwards the one request there may be is that of the first byte that waits,
\* or that byte's interrupt is being handled and nothing has read the byte.
Handling == vector # 0 /\ ~ending

Requested ==
  /\ pic.irr = IF out = <<>> \/ Handling THEN {} ELSE {Irq(Head(out))}
  /\ Handling => out # <<>> /\ vector = Vector(Irq(Head(out)))

Inv ==
  /\ TypeOK
  /\ clean => Polling
  /\ clean /\ stage = Run => InFlight(out, packet, rest) /\ Requested

-----------------------------------------------------------------------------
(* Bytes that come and go *)

LEMMA Appended ==
  ASSUME NEW s \in Seq(Bytes), NEW b \in Bytes
  PROVE  /\ Append(s, b) \in Seq(Bytes) /\ Append(s, b) # <<>>
         /\ Len(s) \in Nat /\ Len(Append(s, b)) = Len(s) + 1
         /\ \A i \in 1 .. Len(s) : Append(s, b)[i] = s[i]
         /\ Append(s, b)[Len(s) + 1] = b
         /\ Head(Append(s, b)) = IF s = <<>> THEN b ELSE Head(s)
<1>1. Len(s) \in Nat
  BY LenProperties
<1> QED
  BY <1>1, AppendProperties, HeadTailAppend

LEMMA TakenOff ==
  ASSUME NEW w \in Seq(Bytes), w # <<>>
  PROVE  /\ Tail(w) \in Seq(Bytes) /\ Head(w) = w[1] /\ Head(w) \in Bytes
         /\ Len(w) \in Nat \ {0} /\ Len(Tail(w)) = Len(w) - 1
         /\ \A i \in 1 .. (Len(w) - 1) : Tail(w)[i] = w[i + 1]
<1>1. /\ Head(w) \in Bytes /\ Tail(w) \in Seq(Bytes) /\ Len(Tail(w)) = Len(w) - 1
      /\ \A i \in 1 .. Len(Tail(w)) : Tail(w)[i] = w[i + 1]
  BY HeadTailProperties
<1>2. Len(w) \in Nat \ {0}
  BY EmptySeq
<1>3. Head(w) = w[1]
  BY <1>2
<1> QED
  BY <1>1, <1>2, <1>3

\* The first byte that waits fits what is in the buffer, and the others fit what
\* it leaves there.
LEMMA FlightTaken ==
  ASSUME NEW w \in Seq(Bytes), w # <<>>, NEW c0, NEW r, InFlight(w, c0, r)
  PROVE  \E c1 \in Seq(Int) : Fits(c0, Head(w), c1) /\ InFlight(Tail(w), c1, r)
<1>1. /\ Tail(w) \in Seq(Bytes) /\ Head(w) = w[1] /\ Len(w) \in Nat \ {0}
      /\ Len(Tail(w)) = Len(w) - 1
      /\ \A i \in 1 .. (Len(w) - 1) : Tail(w)[i] = w[i + 1]
  BY TakenOff
<1>2. PICK c \in [0 .. Len(w) -> Seq(Int)] : Contents(w, c0, r, c)
  BY DEF InFlight
<1> DEFINE d == [n \in 0 .. Len(Tail(w)) |-> c[n + 1]]
<1>3. /\ d \in [0 .. Len(Tail(w)) -> Seq(Int)]
      /\ \A n \in 0 .. (Len(w) - 1) : d[n] = c[n + 1]
  BY <1>1, <1>2
<1> HIDE DEF d
<1>4. c[1] \in Seq(Int) /\ Fits(c0, Head(w), c[1])
  <2>1. 1 \in 1 .. Len(w) /\ 1 \in 0 .. Len(w) /\ 1 - 1 = 0
    BY <1>1
  <2> QED
    BY <1>1, <1>2, <2>1 DEF Contents
<1>5. d[0] = c[1]
  BY <1>1, <1>3
<1>6. ASSUME NEW n \in 1 .. Len(Tail(w)) PROVE Fits(d[n - 1], Tail(w)[n], d[n])
  <2>1. /\ n + 1 \in 1 .. Len(w) /\ (n + 1) - 1 = n /\ n - 1 \in 0 .. (Len(w) - 1)
        /\ n \in 0 .. (Len(w) - 1) /\ (n - 1) + 1 = n /\ n \in 1 .. (Len(w) - 1)
    BY <1>1
  <2>2. Fits(c[n], w[n + 1], c[n + 1])
    BY <1>2, <2>1 DEF Contents
  <2> QED
    BY <1>1, <1>3, <2>1, <2>2
<1>7. ASSUME NEW n \in 0 .. Len(Tail(w)), NEW k \in 0 .. n,
             \A i \in (k + 1) .. n : Tail(w)[i].place = 0
      PROVE  d[n] = d[k]
  <2>1. n + 1 \in 0 .. Len(w) /\ k + 1 \in 0 .. (n + 1) /\ n \in 0 .. (Len(w) - 1) /\ k \in 0 .. (Len(w) - 1)
    BY <1>1
  <2>2. \A i \in ((k + 1) + 1) .. (n + 1) : w[i].place = 0
    <3> SUFFICES ASSUME NEW i \in ((k + 1) + 1) .. (n + 1) PROVE w[i].place = 0
      OBVIOUS
    <3>1. i - 1 \in (k + 1) .. n /\ i - 1 \in 1 .. (Len(w) - 1) /\ (i - 1) + 1 = i
      BY <1>1, <2>1
    <3> QED
      BY <1>1, <1>7, <3>1, ZenonT(60)
  <2>3. c[n + 1] = c[k + 1]
    BY <1>2, <2>1, <2>2 DEF Contents
  <2> QED
    BY <1>3, <2>1, <2>3
<1>8. Whole(d[Len(Tail(w))], r)
  <2>1. Len(w) - 1 \in 0 .. (Len(w) - 1) /\ (Len(w) - 1) + 1 = Len(w)
    BY <1>1
  <2> QED
    BY <1>1, <1>2, <1>3, <2>1 DEF Contents
<1>9. Contents(Tail(w), c[1], r, d)
  BY <1>3, <1>5, <1>6, <1>7, <1>8 DEF Contents
<1> QED
  BY <1>3, <1>4, <1>9 DEF InFlight

\* A byte that fits what the others leave comes behind them.
LEMMA FlightAppended ==
  ASSUME NEW w \in Seq(Bytes), NEW b \in Bytes, NEW c0, NEW r, NEW r2,
         InFlight(w, c0, r),
         \A c1 \in Seq(Int) : Whole(c1, r) => \E c2 \in Seq(Int) : Fits(c1, b, c2) /\ Whole(c2, r2)
  PROVE  InFlight(Append(w, b), c0, r2)
<1> DEFINE v == Append(w, b)
           N == Len(w)
<1>1. /\ N \in Nat /\ Len(v) = N + 1
      /\ \A i \in 1 .. N : v[i] = w[i]
      /\ v[N + 1] = b
  BY Appended
<1>2. PICK c \in [0 .. N -> Seq(Int)] : Contents(w, c0, r, c)
  BY DEF InFlight
<1>3. c[N] \in Seq(Int) /\ Whole(c[N], r)
  BY <1>1, <1>2 DEF Contents
<1>4. PICK c2 \in Seq(Int) : Fits(c[N], b, c2) /\ Whole(c2, r2)
  BY <1>3
<1> DEFINE d == [n \in 0 .. (N + 1) |-> IF n = N + 1 THEN c2 ELSE c[n]]
<1>5. /\ d \in [0 .. (N + 1) -> Seq(Int)]
      /\ d[N + 1] = c2
      /\ \A n \in 0 .. N : d[n] = c[n]
  BY <1>1, <1>2, <1>4
<1> HIDE DEF d, v
<1>6. d[0] = c0
  BY <1>1, <1>2, <1>5 DEF Contents
<1>7. ASSUME NEW n \in 1 .. (N + 1) PROVE Fits(d[n - 1], v[n], d[n])
  <2>1. CASE n = N + 1
    <3>1. n - 1 = N /\ N \in 0 .. N
      BY <1>1, <2>1
    <3> QED
      BY <1>1, <1>4, <1>5, <2>1, <3>1
  <2>2. CASE n # N + 1
    <3>1. n \in 1 .. N /\ n - 1 \in 0 .. N /\ n \in 0 .. N
      BY <1>1, <2>2
    <3>2. Fits(c[n - 1], w[n], c[n])
      BY <1>2, <3>1 DEF Contents
    <3> QED
      BY <1>1, <1>5, <3>1, <3>2
  <2> QED
    BY <2>1, <2>2
<1>8. ASSUME NEW n \in 0 .. (N + 1), NEW k \in 0 .. n,
             \A i \in (k + 1) .. n : v[i].place = 0
      PROVE  d[n] = d[k]
  <2>1. CASE n # N + 1
    <3>1. n \in 0 .. N /\ k \in 0 .. N
      BY <1>1, <2>1
    <3>2. \A i \in (k + 1) .. n : w[i].place = 0
      <4> SUFFICES ASSUME NEW i \in (k + 1) .. n PROVE w[i].place = 0
        OBVIOUS
      <4>1. i \in 1 .. N
        BY <1>1, <3>1
      <4> QED
        BY <1>1, <1>8, <4>1
    <3>3. c[n] = c[k]
      BY <1>2, <3>1, <3>2 DEF Contents
    <3> QED
      BY <1>5, <3>1, <3>3
  <2>2. CASE n = N + 1 /\ k = N + 1
    BY <2>2
  <2>3. CASE n = N + 1 /\ k # N + 1
    <3>1. k \in 0 .. N /\ N \in 0 .. N /\ N + 1 \in (k + 1) .. n
      BY <1>1, <2>3
    <3>2. b.place = 0
      BY <1>1, <1>8, <3>1
    <3>3. \A i \in (k + 1) .. N : w[i].place = 0
      <4> SUFFICES ASSUME NEW i \in (k + 1) .. N PROVE w[i].place = 0
        OBVIOUS
      <4>1. i \in 1 .. N /\ i \in (k + 1) .. n
        BY <1>1, <2>3, <3>1
      <4> QED
        BY <1>1, <1>8, <4>1
    <3>4. c[N] = c[k]
      BY <1>2, <3>1, <3>3 DEF Contents
    <3>5. c2 = c[N]
      BY <1>4, <3>2 DEF Fits
    <3> QED
      BY <1>5, <2>3, <3>1, <3>4, <3>5
  <2> QED
    BY <2>1, <2>2, <2>3
<1>9. Contents(v, c0, r2, d)
  BY <1>1, <1>4, <1>5, <1>6, <1>7, <1>8 DEF Contents
<1> QED
  BY <1>1, <1>5, <1>9 DEF InFlight, v

LEMMA FlightEmpty == InFlight(<<>>, <<>>, <<>>)
<1> DEFINE c == [n \in 0 .. 0 |-> <<>>]
<1>1. Len(<<>>) = 0 /\ <<>> \in Seq(Int)
  BY EmptySeq
<1>2. c \in [0 .. Len(<<>>) -> Seq(Int)]
  BY <1>1
<1>3. \A n \in 0 .. 0 : c[n] = <<>>
  OBVIOUS
<1> HIDE DEF c
<1>4. Contents(<<>>, <<>>, <<>>, c)
  BY <1>1, <1>2, <1>3 DEF Contents, Whole
<1> QED
  BY <1>2, <1>4 DEF InFlight

\* The bytes of a packet, and those of it that are still to come.
LEMMA PacketBytes ==
  ASSUME NEW p \in Packets
  PROVE  /\ p = <<p[1], p[2], p[3]>> /\ p[1] \in Int /\ p[2] \in Int /\ p[3] \in Int
         /\ Len(p) = 3 /\ p \in Seq(Int)
<1>1. PICK m \in Motions : p = Encode(m)
  BY DEF Packets
<1>2. m.dx \in Int /\ m.dy \in Int /\ m.buttons \in Int
  BY MouseAssumption
<1> DEFINE a == m.buttons + 8 + (IF m.dx < 0 THEN 16 ELSE 0) + (IF m.dy < 0 THEN 32 ELSE 0)
           b == m.dx % 256
           c == m.dy % 256
<1>3. p = <<a, b, c>>
  BY <1>1 DEF Encode
<1>4. a \in Int /\ b \in Int /\ c \in Int
  BY <1>2
<1> HIDE DEF a, b, c
<1> QED
  BY <1>3, <1>4

LEMMA WholeLengths ==
  ASSUME NEW c, NEW r, Whole(c, r)
  PROVE  Len(c) \in 0 .. 2 /\ Len(c) = (3 - Len(r)) % 3
<1>1. CASE c = <<>> /\ r = <<>>
  BY <1>1
<1>2. CASE \E p \in Packets : c = <<p[1]>> /\ r = <<p[2], p[3]>>
  <2>1. Len(c) = 1 /\ Len(r) = 2
    BY <1>2
  <2> QED
    BY <2>1
<1>3. CASE \E p \in Packets : c = <<p[1], p[2]>> /\ r = <<p[3]>>
  <2>1. Len(c) = 2 /\ Len(r) = 1
    BY <1>3
  <2> QED
    BY <2>1
<1> QED
  BY <1>1, <1>2, <1>3 DEF Whole

\* The bytes that wait in step are what InStep says of them.
LEMMA FlightInStep ==
  ASSUME out \in Seq(Bytes), InFlight(out, packet, rest)
  PROVE  InStep
<1>1. Len(out) \in Nat /\ DOMAIN out = 1 .. Len(out) /\ \A i \in 1 .. Len(out) : out[i] \in Bytes
  BY LenProperties, ElementOfSeq
<1>2. PICK c \in [0 .. Len(out) -> Seq(Int)] : Contents(out, packet, rest, c)
  BY DEF InFlight
<1>3. ASSUME Unread = {} PROVE Len(packet) = (3 - Len(rest)) % 3
  <2>1. \A i \in (0 + 1) .. Len(out) : out[i].place = 0
    <3> SUFFICES ASSUME NEW i \in (0 + 1) .. Len(out) PROVE out[i].place = 0
      OBVIOUS
    <3>1. i \in DOMAIN out /\ out[i].place \in 0 .. 3 /\ ~(out[i].place > 0)
      BY <1>1, <1>3 DEF Unread, Bytes
    <3> QED
      BY <3>1
  <2>2. c[Len(out)] = c[0]
    <3>1. Len(out) \in 0 .. Len(out) /\ 0 \in 0 .. Len(out)
      BY <1>1
    <3> QED
      BY <1>2, <2>1, <3>1 DEF Contents
  <2>3. Whole(packet, rest)
    BY <1>2, <2>2 DEF Contents
  <2> QED
    BY <2>3, WholeLengths
<1>4. ASSUME NEW n \in Unread, \A k \in Unread : n <= k PROVE Len(packet) = out[n].place - 1
  <2>1. n \in 1 .. Len(out) /\ out[n].place \in 1 .. 3
    BY <1>1 DEF Unread, Bytes
  <2>2. \A i \in (0 + 1) .. (n - 1) : out[i].place = 0
    <3> SUFFICES ASSUME NEW i \in (0 + 1) .. (n - 1) PROVE out[i].place = 0
      OBVIOUS
    <3>1. i \in DOMAIN out /\ out[i].place \in 0 .. 3 /\ ~(n <= i)
      BY <1>1, <2>1 DEF Bytes
    <3>2. i \notin Unread
      BY <1>4, <3>1
    <3>3. ~(out[i].place > 0)
      BY <3>1, <3>2 DEF Unread
    <3> QED
      BY <3>1, <3>3
  <2>3. c[n - 1] = c[0]
    <3>1. n - 1 \in 0 .. Len(out) /\ 0 \in 0 .. (n - 1)
      BY <1>1, <2>1
    <3> QED
      BY <1>2, <2>2, <3>1 DEF Contents
  <2>4. Fits(packet, out[n], c[n])
    BY <1>2, <2>1, <2>3 DEF Contents
  <2>5. \/ out[n].place = 1 /\ Len(packet) = 0
        \/ out[n].place = 2 /\ Len(packet) = 1
        \/ out[n].place = 3 /\ Len(packet) = 2
    BY <2>1, <2>4 DEF Fits
  <2>6. 1 - 1 = 0 /\ 2 - 1 = 1 /\ 3 - 1 = 2
    OBVIOUS
  <2> QED
    BY <2>5, <2>6, Zenon
<1> QED
  BY <1>3, <1>4 DEF InStep

-----------------------------------------------------------------------------
(* The interrupt controllers *)

LEMMA PicRisen ==
  ASSUME NEW p, IsPic(p), NEW up
  PROVE  IsPic(Risen(p, up)) /\ Risen(p, up).irr = p.irr \cup up
<1>1. Risen(p, up) = [irr |-> p.irr \cup up, master |-> p.master, slave |-> p.slave]
  BY DEF Risen, IsPic
<1> QED
  BY <1>1 DEF IsPic

LEMMA PicTaken ==
  ASSUME NEW p, NEW q
  PROVE  IsPic(Taken(p, q)) /\ Taken(p, q).irr = p.irr \ {q}
BY DEF Taken, IsPic

LEMMA PicEnded ==
  ASSUME NEW p, IsPic(p), NEW irq
  PROVE  IsPic(pic_eoi(p, irq)) /\ pic_eoi(p, irq).irr = p.irr
<1> DEFINE s == IF irq >= 8 THEN Ended(p.slave) ELSE p.slave
<1>0. pic_eoi(p, irq) = [p EXCEPT !.slave = s, !.master = Ended(p.master)]
  BY DEF pic_eoi
<1> HIDE DEF s
<1>1. pic_eoi(p, irq) = [irr |-> p.irr, master |-> Ended(p.master), slave |-> s]
  BY <1>0 DEF IsPic
<1> QED
  BY <1>1 DEF IsPic

LEMMA PicFallen ==
  ASSUME NEW p, IsPic(p), NEW down, NEW f \in Fallen(p, down)
  PROVE  IsPic(f) /\ (down \cap p.irr = {} => f = p)
<1>1. CASE down \cap p.irr = {}
  BY <1>1 DEF Fallen
<1>2. CASE down \cap p.irr # {}
  <2>1. PICK i : f = [p EXCEPT !.irr = i]
    BY <1>2 DEF Fallen
  <2>2. f = [irr |-> i, master |-> p.master, slave |-> p.slave]
    BY <2>1 DEF IsPic
  <2> QED
    BY <1>2, <2>2 DEF IsPic
<1> QED
  BY <1>1, <1>2

\* With both lines enabled, the line of the first byte is up.
LEMMA LineUp ==
  ASSUME NEW o \in Seq(Bytes), Bit(config, 0), Bit(config, 1)
  PROVE  Up(o, config) = IF o = <<>> THEN {} ELSE {Irq(Head(o))}
<1>1. CASE o = <<>>
  <2>1. DOMAIN o = {}
    BY <1>1
  <2> QED
    BY <1>1, <2>1 DEF Up
<1>2. CASE o # <<>>
  <2>1. Head(o) = o[1] /\ Len(o) \in Nat \ {0} /\ DOMAIN o = 1 .. Len(o)
    BY <1>2, TakenOff, LenProperties
  <2>2. \A n \in DOMAIN o : Bit(config, IF Irq(o[n]) = 1 THEN 0 ELSE 1)
    OBVIOUS
  <2>3. {n \in DOMAIN o : n = 1 /\ Bit(config, IF Irq(o[n]) = 1 THEN 0 ELSE 1)} = {1}
    BY <2>1, <2>2
  <2> QED
    BY <1>2, <2>1, <2>3 DEF Up
<1> QED
  BY <1>1, <1>2

LEMMA PutType ==
  ASSUME TypeOK, NEW b \in Bytes, Put(b)
  PROVE  out' \in Seq(Bytes) /\ IsPic(pic')
BY Appended, PicRisen DEF Put, TypeOK

LEMMA ReadType ==
  ASSUME TypeOK, Read
  PROVE  out' \in Seq(Bytes) /\ IsPic(pic')
<1>1. out # <<>> /\ out' = Tail(out)
  BY DEF Read
<1>2. PICK p \in Fallen(pic, Up(out, config)) : pic' = Risen(p, Up(out', config))
  BY DEF Read
<1>3. IsPic(p)
  BY PicFallen DEF TypeOK
<1> QED
  BY <1>1, <1>2, <1>3, TakenOff, PicRisen DEF TypeOK

\* A byte that comes is requested if none waited; one that is read makes room for
\* the next, if its own request has been taken.
LEMMA PutRequests ==
  ASSUME TypeOK, Requested, Bit(config, 0), Bit(config, 1), NEW b \in Bytes, Put(b),
         UNCHANGED <<vector, ending>>, Handling => out # <<>>
  PROVE  Requested'
<1>1. /\ out' = Append(out, b) /\ out' \in Seq(Bytes) /\ out' # <<>>
      /\ Head(out') = IF out = <<>> THEN b ELSE Head(out)
  BY Appended DEF Put, TypeOK
<1>2. /\ Up(out, config) = IF out = <<>> THEN {} ELSE {Irq(Head(out))}
      /\ Up(out', config) = {Irq(Head(out'))}
  <2>1. out \in Seq(Bytes)
    BY DEF TypeOK
  <2> QED
    BY <1>1, <2>1, LineUp
<1>3. pic'.irr = pic.irr \cup (Up(out', config) \ Up(out, config))
  BY PicRisen DEF Put, TypeOK
<1>4. Handling' <=> Handling
  BY DEF Handling
<1>5. CASE out = <<>>
  BY <1>1, <1>2, <1>3, <1>4, <1>5 DEF Requested
<1>6. CASE out # <<>>
  BY <1>1, <1>2, <1>3, <1>4, <1>6 DEF Requested
<1> QED
  BY <1>5, <1>6

LEMMA ReadRequests ==
  ASSUME TypeOK, Requested, Bit(config, 0), Bit(config, 1), Handling, Read,
         vector' = vector, ending' = TRUE
  PROVE  Requested'
<1>1. out # <<>> /\ out' = Tail(out) /\ out' \in Seq(Bytes)
  BY ReadType DEF Read
<1>2. PICK p \in Fallen(pic, Up(out, config)) : pic' = Risen(p, Up(out', config))
  BY DEF Read
<1>3. pic.irr = {} /\ IsPic(pic)
  BY DEF Requested, TypeOK
<1>4. p = pic
  BY <1>2, <1>3, PicFallen
<1>5. pic'.irr = Up(out', config)
  <2>1. pic'.irr = pic.irr \cup Up(out', config)
    BY <1>2, <1>3, <1>4, PicRisen
  <2> QED
    BY <1>3, <2>1
<1>6. Up(out', config) = IF out' = <<>> THEN {} ELSE {Irq(Head(out'))}
  BY <1>1, LineUp
<1> QED
  BY <1>5, <1>6 DEF Requested, Handling
-----------------------------------------------------------------------------
(* Type correctness *)

LEMMA BitsKept ==
  ASSUME NEW n \in Int, NEW k \in 0 .. 1
  PROVE  /\ With(n, k) \in Int /\ Without(n, 4 + k) \in Int
         /\ Bit(With(n, k), k)
         /\ Bit(n, 0) => Bit(With(n, k), 0) /\ Bit(Without(n, 4 + k), 0)
<1>1. 2 ^ 0 = 1 /\ 2 ^ 1 = 2 /\ 2 ^ 4 = 16 /\ 2 ^ 5 = 32 /\ 4 + 0 = 4 /\ 4 + 1 = 5
  OBVIOUS
<1>2. CASE k = 0
  <2>1. /\ With(n, 0) = IF n % 2 = 1 THEN n ELSE n + 1
        /\ Without(n, 4) = IF (n \div 16) % 2 = 1 THEN n - 16 ELSE n
        /\ \A i \in Int : Bit(i, 0) <=> i % 2 = 1
    BY <1>1 DEF With, Without, Bit
  <2> QED
    BY <1>1, <1>2, <2>1
<1>3. CASE k = 1
  <2>1. /\ With(n, 1) = IF (n \div 2) % 2 = 1 THEN n ELSE n + 2
        /\ Without(n, 5) = IF (n \div 32) % 2 = 1 THEN n - 32 ELSE n
        /\ \A i \in Int : (Bit(i, 0) <=> i % 2 = 1) /\ (Bit(i, 1) <=> (i \div 2) % 2 = 1)
    BY <1>1 DEF With, Without, Bit
  <2> QED
    BY <1>1, <1>3, <2>1
<1> QED
  BY <1>2, <1>3

\* A coordinate stays on the screen.
LEMMA MovedStays ==
  ASSUME NEW size \in Nat \ {0}, NEW c \in 0 .. (size - 1), NEW d \in Int
  PROVE  Moved(c, d, size) \in 0 .. (size - 1)
<1>1. U32 \in Nat /\ U32 > 0
  BY MouseAssumption
<1>2. (c + d) % U32 \in 0 .. (U32 - 1)
  BY <1>1
<1> DEFINE s == (c + d) % U32
<1>3. Moved(c, d, size) = IF s < size THEN s ELSE c
  BY DEF Moved
<1>4. s \in Int /\ 0 <= s
  BY <1>1, <1>2
<1> HIDE DEF s
<1> QED
  BY <1>3, <1>4

LEMMA ShortAppended ==
  ASSUME NEW s, Short(s), NEW n \in Int
  PROVE  /\ Append(s, n) \in Seq(Int) /\ Len(Append(s, n)) \in 1 .. 3
         /\ \A i \in 1 .. Len(Append(s, n)) : Append(s, n)[i] \in Int
         /\ Len(Append(s, n)) = Len(s) + 1 /\ Append(s, n)[Len(s) + 1] = n
         /\ \A i \in 1 .. Len(s) : Append(s, n)[i] = s[i]
<1>1. Len(s) \in 0 .. 2
  <2>1. s \in Seq(Int)
    BY DEF Short
  <2>2. Len(s) <= 2
    BY DEF Short
  <2>3. Len(s) \in Nat
    BY <2>1, LenProperties
  <2> DEFINE l == Len(s)
  <2> HIDE DEF l
  <2>4. l \in Nat /\ l <= 2
    BY <2>2, <2>3 DEF l
  <2>5. l \in 0 .. 2
    BY <2>4
  <2> QED
    BY <2>5 DEF l
<1>2. /\ Append(s, n) \in Seq(Int) /\ Len(Append(s, n)) = Len(s) + 1
      /\ Append(s, n)[Len(s) + 1] = n
      /\ \A i \in 1 .. Len(s) : Append(s, n)[i] = s[i]
  BY AppendProperties DEF Short
<1> QED
  BY <1>1, <1>2, ElementOfSeq, SMTT(60)

LEMMA StoreType ==
  ASSUME TypeOK, NEW data \in Int, Store(data)
  PROVE  Short(packet') /\ x' \in 0 .. (Width - 1) /\ y' \in 0 .. (Height - 1)
<1> DEFINE p == Append(packet, data)
           dx == p[2] - (IF Bit(p[1], 4) THEN 256 ELSE 0)
           dy == p[3] - (IF Bit(p[1], 5) THEN 256 ELSE 0)
<1>1. p \in Seq(Int) /\ Len(p) \in 1 .. 3 /\ \A i \in 1 .. Len(p) : p[i] \in Int
  BY ShortAppended DEF TypeOK
<1>2. /\ packet' = IF Len(p) = 3 THEN <<>> ELSE p
      /\ \/ /\ Len(p) = 3
            /\ x' = Moved(x, dx, Width)
            /\ y' = Moved(y, -dy, Height)
         \/ UNCHANGED <<x, y>>
  BY DEF Store, pointer
<1>3. Len(p) = 3 => dx \in Int /\ -dy \in Int
  BY <1>1
<1> HIDE DEF p, dx, dy
<1>4. Short(packet')
  <2>1. <<>> \in Seq(Int) /\ Len(<<>>) = 0
    BY EmptySeq
  <2> QED
    BY <1>1, <1>2, <2>1 DEF Short
<1>5. x' \in 0 .. (Width - 1) /\ y' \in 0 .. (Height - 1)
  BY <1>2, <1>3, MovedStays, MouseAssumption, SMTT(60) DEF TypeOK
<1> QED
  BY <1>4, <1>5

\* The byte the mouse sends, and what it has then to send.
LEMMA MouseByte ==
  ASSUME TypeOK, NEW p \in IF rest = <<>> THEN {Encode(m) : m \in Motions} ELSE {rest}
  PROVE  Byte("mouse", Head(p), 4 - Len(p)) \in Bytes /\ Short(Tail(p))
<1>1. p \in Seq(Int) /\ p # <<>> /\ Len(p) \in 1 .. 3
  <2>1. CASE rest = <<>>
    <3>1. p \in Packets
      BY <2>1 DEF Packets
    <3>2. p \in Seq(Int) /\ Len(p) = 3
      BY <3>1, PacketBytes
    <3>3. p # <<>>
      BY <3>2, EmptySeq, SMTT(60)
    <3> QED
      BY <3>2, <3>3
  <2>2. CASE rest # <<>>
    <3>1. p = rest /\ rest \in Seq(Int) /\ Len(rest) <= 2
      BY <2>2 DEF TypeOK, Short
    <3>2. Len(rest) \in Nat \ {0}
      BY <2>2, <3>1, EmptySeq
    <3>3. Len(rest) \in 1 .. 3
      <4> DEFINE n == Len(rest)
      <4>1. n \in Nat \ {0} /\ n <= 2
        BY <3>1, <3>2, Zenon
      <4> HIDE DEF n
      <4>2. n \in 1 .. 3
        BY <4>1
      <4> QED
        BY <4>2 DEF n
    <3> QED
      BY <2>2, <3>1, <3>3, Zenon
  <2> QED
    BY <2>1, <2>2
<1>2. Head(p) \in Int /\ Tail(p) \in Seq(Int) /\ Len(Tail(p)) = Len(p) - 1
  BY <1>1, HeadTailProperties
<1>3. 4 - Len(p) \in 0 .. 3 /\ Len(Tail(p)) <= 2
  BY <1>1, <1>2, SMTT(60)
<1> QED
  BY <1>2, <1>3 DEF Byte, Bytes, Short

LEMMA TypeStep ==
  ASSUME TypeOK, Next
  PROVE  TypeOK'
<1>1. CASE key_byte
  <2>1. Key \in Bytes /\ Put(Key) /\ clean' \in BOOLEAN
    BY <1>1 DEF key_byte, Input, Key, Byte, Bytes, TypeOK
  <2>2. out' \in Seq(Bytes) /\ IsPic(pic')
    BY <2>1, PutType
  <2> QED
    BY <1>1, <2>1, <2>2 DEF TypeOK, Short, key_byte, handling, driver, pointer
<1>2. CASE mouse_byte
  <2>1. PICK p \in IF rest = <<>> THEN {Encode(m) : m \in Motions} ELSE {rest} :
               Put(Byte("mouse", Head(p), 4 - Len(p))) /\ rest' = Tail(p)
    BY <1>2 DEF mouse_byte
  <2>2. Byte("mouse", Head(p), 4 - Len(p)) \in Bytes /\ Short(Tail(p))
    BY MouseByte
  <2>3. out' \in Seq(Bytes) /\ IsPic(pic')
    BY <2>1, <2>2, PutType
  <2>4. clean' \in BOOLEAN
    BY <1>2 DEF mouse_byte, Input, TypeOK
  <2> QED
    BY <1>2, <2>1, <2>2, <2>3, <2>4 DEF TypeOK, Short, mouse_byte, handling, driver, pointer
<1>3. CASE command
  <2>1. /\ stage \in 0 .. 3 /\ asked' = TRUE
        /\ config' = IF stage < 2 THEN Without(config, 4 + stage) ELSE config
        /\ Put(IF stage < 2 THEN Byte("controller", config', 0) ELSE Ack)
    BY <1>3 DEF command, Sti, TypeOK
  <2>2. config' \in Int
    <3>1. stage < 2 => Without(config, 4 + stage) \in Int
      <4>1. stage < 2 => stage \in 0 .. 1
        BY <2>1
      <4> QED
        BY <4>1, BitsKept DEF TypeOK
    <3> QED
      BY <2>1, <3>1 DEF TypeOK
  <2>3. Byte("controller", config', 0) \in Bytes /\ Ack \in Bytes
    BY <2>2 DEF Byte, Bytes, Ack
  <2>4. out' \in Seq(Bytes) /\ IsPic(pic')
    BY <2>1, <2>3, PutType
  <2> QED
    BY <1>3, <2>1, <2>2, <2>4 DEF TypeOK, Short, command, handling, device, driver, pointer
<1>4. CASE read_reply
  <2>1. /\ stage \in 0 .. 3 /\ stage' = stage + 1 /\ asked' = FALSE /\ Read
        /\ config' = IF stage < 2 THEN With(Head(out).data, stage) ELSE config
    BY <1>4 DEF read_reply, Sti, TypeOK
  <2>2. Head(out).data \in Int
    BY <2>1, TakenOff DEF Read, TypeOK, Bytes
  <2>3. config' \in Int
    <3>1. stage < 2 => With(Head(out).data, stage) \in Int
      <4>1. stage < 2 => stage \in 0 .. 1
        BY <2>1
      <4> QED
        BY <2>2, <4>1, BitsKept
    <3> QED
      BY <2>1, <3>1 DEF TypeOK
  <2>4. out' \in Seq(Bytes) /\ IsPic(pic')
    BY <2>1, ReadType
  <2>5. stage' \in 0 .. 6 /\ vector = 0 /\ ~ending
    BY <2>1 DEF TypeOK, Sti
  <2> QED
    BY <1>4, <2>1, <2>3, <2>4, <2>5 DEF TypeOK, Short, read_reply, handling, device, driver, pointer
<1>5. CASE sti
  BY <1>5 DEF sti, TypeOK, Short, handling, device, driver, pointer, Sti, Leftover, Run
<1>6. CASE interrupt
  <2>1. PICK q \in Offered(pic) : vector' = Vector(q) /\ pic' = Taken(pic, q)
    BY <1>6 DEF interrupt
  <2>2. vector' \in 32 .. 47
    <3>1. q \in 0 .. 15
      BY <2>1 DEF Offered, Unmasked, Spurious
    <3> QED
      BY <2>1, <3>1 DEF Vector
  <2>3. IsPic(pic')
    BY <2>1, PicTaken
  <2>4. stage > Sti /\ stage' = stage
    BY <1>6 DEF interrupt
  <2> QED
    BY <1>6, <2>2, <2>3, <2>4 DEF interrupt, TypeOK, Short, device, driver, pointer, Sti
<1>7. ASSUME NEW irq, Called(irq)
      PROVE  /\ vector # 0 /\ ending' = TRUE /\ stage > Sti
             /\ UNCHANGED <<stage, asked, config, vector, clean, rest>>
  BY <1>7 DEF Called, device, TypeOK, Sti
<1>8. ASSUME NEW irq, Called(irq), out' \in Seq(Bytes), IsPic(pic'), Short(packet'),
             x' \in 0 .. (Width - 1), y' \in 0 .. (Height - 1)
      PROVE  TypeOK'
  BY <1>7, <1>8 DEF TypeOK, Short, Sti
<1>9. CASE kbd_irq
  <2>1. Called(1) /\ UNCHANGED <<packet, x, y>>
    BY <1>9 DEF kbd_irq, NoByte, driver, pointer
  <2>2. out' \in Seq(Bytes) /\ IsPic(pic')
    BY <1>9, ReadType DEF kbd_irq, NoByte, TypeOK
  <2> QED
    BY <1>8, <2>1, <2>2 DEF TypeOK, Short
<1>10. CASE mouse_irq
  <2>1. CASE NoByte
    BY <1>8, <1>10, <2>1 DEF mouse_irq, NoByte, TypeOK, Short, driver, pointer
  <2>2. CASE Read /\ Head(out).source = "mouse" /\ Store(Head(out).data)
    <3>1. Head(out).data \in Int
      BY <2>2, TakenOff DEF Read, TypeOK, Bytes
    <3>2. Short(packet') /\ x' \in 0 .. (Width - 1) /\ y' \in 0 .. (Height - 1)
      BY <2>2, <3>1, StoreType
    <3> QED
      BY <1>8, <1>10, <2>2, <3>2, ReadType DEF mouse_irq
  <2>3. CASE Read /\ UNCHANGED driver
    BY <1>8, <1>10, <2>3, ReadType DEF mouse_irq, TypeOK, Short, driver, pointer
  <2> QED
    BY <1>10, <2>1, <2>2, <2>3 DEF mouse_irq
<1>11. CASE no_handler
  BY <1>8, <1>11 DEF no_handler, TypeOK, Short, driver, pointer
<1>12. CASE end_of_interrupt
  <2>1. IsPic(pic')
    BY <1>12, PicEnded DEF end_of_interrupt, TypeOK
  <2>2. stage' \in 0 .. 6 /\ vector' = 0 /\ ending' = FALSE
    BY <1>12 DEF end_of_interrupt, Run, TypeOK
  <2>3. UNCHANGED <<asked, config, out, clean, rest, packet, x, y>>
    BY <1>12 DEF end_of_interrupt, device, driver, pointer
  <2> QED
    BY <2>1, <2>2, <2>3 DEF TypeOK, Short
<1>13. CASE mouse_clear_dirty
  BY <1>13 DEF mouse_clear_dirty, TypeOK, Short, handling, device
<1> QED
  BY <1>1, <1>2, <1>3, <1>4, <1>5, <1>6, <1>9, <1>10, <1>11, <1>12, <1>13 DEF Next, Kernel
-----------------------------------------------------------------------------
(* The invariant *)

LEMMA InvInit == Init => Inv
<1> SUFFICES ASSUME Init PROVE Inv
  OBVIOUS
<1>1. /\ stage = 0 /\ asked = FALSE /\ config \in Configs /\ out \in {<<>>, <<Key>>}
      /\ pic = Idle /\ vector = 0 /\ ending = FALSE /\ clean = (out = <<>>)
      /\ rest = <<>> /\ packet = <<>> /\ x = Width \div 2 /\ y = Height \div 2
  BY DEF Init
<1>2. out \in Seq(Bytes)
  <2>1. Key \in Bytes
    BY DEF Key, Byte, Bytes
  <2>2. <<>> \in Seq(Bytes) /\ <<Key>> \in Seq(Bytes)
    BY <2>1
  <2> QED
    BY <1>1, <2>2, Zenon
<1>3. Short(rest) /\ Short(packet)
  BY <1>1, EmptySeq DEF Short
<1>4. x \in 0 .. (Width - 1) /\ y \in 0 .. (Height - 1) /\ config \in Int
  BY <1>1, MouseAssumption
<1>5. IsPic(pic)
  BY <1>1 DEF Idle, IsPic
<1>6. TypeOK
  <2>1. stage \in 0 .. 6 /\ vector \in {0} \cup 32 .. 47
    BY <1>1
  <2>2. asked \in BOOLEAN /\ ending \in BOOLEAN /\ clean \in BOOLEAN
    BY <1>1, Zenon
  <2> QED
    BY <1>1, <1>2, <1>3, <1>4, <1>5, <2>1, <2>2 DEF TypeOK, Sti
<1>7. clean => Polling
  <2>1. clean => out = <<>> /\ rest = <<>> /\ packet = <<>>
    BY <1>1
  <2> QED
    BY <1>1, <2>1 DEF Polling, Run, Sti, Leftover
<1> QED
  BY <1>1, <1>6, <1>7 DEF Inv, Run

\* Whatever part of a packet the bytes sent so far leave, the next one fits.
LEMMA NextByte ==
  ASSUME NEW r, NEW c1 \in Seq(Int), Whole(c1, r),
         NEW p \in IF r = <<>> THEN {Encode(m) : m \in Motions} ELSE {r}
  PROVE  \E c2 \in Seq(Int) :
           Fits(c1, Byte("mouse", Head(p), 4 - Len(p)), c2) /\ Whole(c2, Tail(p))
<1>1. CASE c1 = <<>> /\ r = <<>>
  <2>1. p \in Packets
    BY <1>1 DEF Packets
  <2>2. PICK b1 \in Int, b2 \in Int, b3 \in Int : p = <<b1, b2, b3>>
    BY <2>1, PacketBytes
  <2>3. /\ Head(p) = b1 /\ Tail(p) = <<b2, b3>> /\ 4 - Len(p) = 1 /\ <<b1>> \in Seq(Int)
        /\ p[1] = b1 /\ p[2] = b2 /\ p[3] = b3 /\ Len(c1) = 0
    BY <1>1, <2>2
  <2>4. Whole(<<b1>>, Tail(p))
    BY <2>1, <2>3 DEF Whole
  <2>5. Fits(c1, Byte("mouse", Head(p), 4 - Len(p)), <<b1>>)
    BY <2>3 DEF Fits, Byte
  <2> QED
    BY <2>3, <2>4, <2>5
<1>2. CASE \E q \in Packets : c1 = <<q[1]>> /\ r = <<q[2], q[3]>>
  <2>1. PICK q \in Packets : c1 = <<q[1]>> /\ r = <<q[2], q[3]>>
    BY <1>2
  <2>2. q[1] \in Int /\ q[2] \in Int /\ q[3] \in Int
    BY PacketBytes
  <2>3. r # <<>> /\ Len(r) = 2 /\ Head(r) = q[2] /\ Tail(r) = <<q[3]>>
    BY <2>1, <2>2
  <2>4. p = r
    BY <2>3
  <2>5. 4 - Len(p) = 2 /\ Len(c1) = 1 /\ c1[1] = q[1] /\ <<q[1], q[2]>> \in Seq(Int)
    BY <2>1, <2>2, <2>3, <2>4
  <2>6. Whole(<<q[1], q[2]>>, Tail(p))
    BY <2>3, <2>4 DEF Whole
  <2>7. Fits(c1, Byte("mouse", Head(p), 4 - Len(p)), <<q[1], q[2]>>)
    BY <2>3, <2>4, <2>5 DEF Fits, Byte
  <2> QED
    BY <2>5, <2>6, <2>7
<1>3. CASE \E q \in Packets : c1 = <<q[1], q[2]>> /\ r = <<q[3]>>
  <2>1. PICK q \in Packets : c1 = <<q[1], q[2]>> /\ r = <<q[3]>>
    BY <1>3
  <2>2. q[1] \in Int /\ q[2] \in Int /\ q[3] \in Int /\ q = <<q[1], q[2], q[3]>>
    BY PacketBytes
  <2>3. r # <<>> /\ Len(r) = 1 /\ Head(r) = q[3] /\ Tail(r) = <<>>
    BY <2>1, <2>2
  <2>4. p = r
    BY <2>3
  <2>5. 4 - Len(p) = 3 /\ Len(c1) = 2 /\ c1[1] = q[1] /\ c1[2] = q[2] /\ <<>> \in Seq(Int)
    BY <2>1, <2>2, <2>3, <2>4
  <2>6. Whole(<<>>, Tail(p))
    BY <2>3, <2>4 DEF Whole
  <2>7. <<c1[1], c1[2], Head(p)>> \in Packets
    BY <2>2, <2>3, <2>4, <2>5
  <2>8. Fits(c1, Byte("mouse", Head(p), 4 - Len(p)), <<>>)
    BY <2>5, <2>7 DEF Fits, Byte
  <2> QED
    BY <2>5, <2>6, <2>8
<1> QED
  BY <1>1, <1>2, <1>3 DEF Whole

LEMMA ShortAs ==
  ASSUME NEW s \in Seq(Int), NEW n \in Int
  PROVE  /\ Len(s) = 0 => Append(s, n) = <<n>>
         /\ Len(s) = 1 => Append(s, n) = <<s[1], n>>
         /\ Len(s) = 2 => Append(s, n) = <<s[1], s[2], n>>
<1>1. /\ Append(s, n) \in Seq(Int) /\ Len(Append(s, n)) = Len(s) + 1
      /\ Append(s, n)[Len(s) + 1] = n
      /\ \A i \in 1 .. Len(s) : Append(s, n)[i] = s[i]
  BY AppendProperties
<1>2. \A i \in 1 .. Len(s) : s[i] \in Int
  BY ElementOfSeq
<1> DEFINE a == Append(s, n)
<1> HIDE DEF a
<1>3. CASE Len(s) = 0
  <2> DEFINE t == <<n>>
  <2>1. t \in Seq(Int) /\ Len(t) = 1 /\ t[1] = n
    OBVIOUS
  <2>2. a \in Seq(Int) /\ Len(a) = 1 /\ a[1] = n
    BY <1>1, <1>3 DEF a
  <2> HIDE DEF t
  <2>3. a = t
    BY <2>1, <2>2, SeqEqual
  <2> QED
    BY <1>3, <2>3 DEF a, t
<1>4. CASE Len(s) = 1
  <2> DEFINE t == <<s[1], n>>
  <2>1. t \in Seq(Int) /\ Len(t) = 2 /\ t[1] = s[1] /\ t[2] = n
    BY <1>2, <1>4
  <2>2. a \in Seq(Int) /\ Len(a) = 2 /\ a[1] = s[1] /\ a[2] = n
    BY <1>1, <1>4 DEF a
  <2> HIDE DEF t
  <2>3. \A i \in 1 .. Len(a) : a[i] = t[i]
    BY <2>1, <2>2
  <2>4. a = t
    BY <2>1, <2>2, <2>3, SeqEqual
  <2> QED
    BY <1>4, <2>4 DEF a, t
<1>5. CASE Len(s) = 2
  <2> DEFINE t == <<s[1], s[2], n>>
  <2>1. t \in Seq(Int) /\ Len(t) = 3 /\ t[1] = s[1] /\ t[2] = s[2] /\ t[3] = n
    BY <1>2, <1>5
  <2>2. a \in Seq(Int) /\ Len(a) = 3 /\ a[1] = s[1] /\ a[2] = s[2] /\ a[3] = n
    BY <1>1, <1>5 DEF a
  <2> HIDE DEF t
  <2>3. \A i \in 1 .. Len(a) : a[i] = t[i]
    BY <2>1, <2>2
  <2>4. a = t
    BY <2>1, <2>2, <2>3, SeqEqual
  <2> QED
    BY <1>5, <2>4 DEF a, t
<1> QED
  BY <1>3, <1>4, <1>5
\* The byte whose interrupt is being handled is stored as the next of its packet.
LEMMA StoreFits ==
  ASSUME NEW b \in Bytes, NEW c1, Short(packet), Fits(packet, b, c1), b.source = "mouse",
         Store(b.data)
  PROVE  packet' = c1
<1>1. packet \in Seq(Int) /\ b.data \in Int
  BY DEF Short, Bytes
<1>2. packet' = IF Len(Append(packet, b.data)) = 3 THEN <<>> ELSE Append(packet, b.data)
  BY DEF Store
<1>3. Len(Append(packet, b.data)) = Len(packet) + 1 /\ Len(packet) \in Nat
  BY <1>1, AppendProperties, LenProperties
<1>4. CASE Len(packet) = 0
  <2>1. c1 = <<b.data>>
    BY <1>4 DEF Fits
  <2>2. Append(packet, b.data) = <<b.data>>
    BY <1>1, <1>4, ShortAs
  <2> QED
    BY <1>2, <1>3, <1>4, <2>1, <2>2
<1>5. CASE Len(packet) = 1
  <2>1. c1 = <<packet[1], b.data>>
    BY <1>5 DEF Fits
  <2>2. Append(packet, b.data) = <<packet[1], b.data>>
    BY <1>1, <1>5, ShortAs
  <2> QED
    BY <1>2, <1>3, <1>5, <2>1, <2>2
<1>6. CASE Len(packet) = 2
  <2>1. c1 = <<>>
    BY <1>6 DEF Fits
  <2> QED
    BY <1>2, <1>3, <1>6, <2>1
<1>7. Len(packet) \in {0, 1, 2}
  BY DEF Fits
<1> QED
  BY <1>4, <1>5, <1>6, <1>7

LEMMA ByPolling ==
  ASSUME Inv, Next, command \/ read_reply \/ sti
  PROVE  Inv'
<1>1. TypeOK /\ TypeOK'
  BY TypeStep DEF Inv
<1>2. stage \in 0 .. 6 /\ config \in Int /\ out \in Seq(Bytes) /\ clean' = clean
  BY <1>1 DEF TypeOK, command, read_reply, sti, device
<1>3. SUFFICES ASSUME clean, Polling
               PROVE  Polling' /\ (stage' = Run => InFlight(out', packet', rest') /\ Requested')
  BY <1>1, <1>2 DEF Inv
<1>4. CASE command
  <2>1. /\ stage \in 0 .. 3 /\ stage' = stage /\ asked' = TRUE /\ ~asked
        /\ config' = IF stage < 2 THEN Without(config, 4 + stage) ELSE config
        /\ out' = Append(out, IF stage < 2 THEN Byte("controller", config', 0) ELSE Ack)
        /\ rest' = rest /\ packet' = packet
    BY <1>2, <1>4 DEF command, Sti, Put, device, driver
  <2>2. out = <<>> /\ rest = <<>> /\ packet = <<>>
    BY <1>3, <2>1 DEF Polling, Run, Sti
  <2>3. /\ Len(out') = 1 /\ Head(out').place = 0
        /\ stage < 2 => Head(out').data = config'
    BY <2>1, <2>2 DEF Byte, Ack
  <2>4. (stage >= 1 => Bit(config', 0)) /\ (stage >= 2 => Bit(config', 1))
    <3>1. CASE stage < 2
      <4>1. stage \in 0 .. 1 /\ config' = Without(config, 4 + stage)
        BY <2>1, <3>1
      <4>2. Bit(config, 0) => Bit(config', 0)
        BY <1>2, <4>1, BitsKept
      <4>3. stage >= 1 => Bit(config, 0)
        BY <1>3 DEF Polling
      <4> QED
        BY <4>1, <4>2, <4>3
    <3>2. CASE ~(stage < 2)
      BY <1>3, <2>1, <3>2 DEF Polling
    <3> QED
      BY <3>1, <3>2
  <2> QED
    BY <2>1, <2>2, <2>3, <2>4 DEF Polling, Run, Sti, Leftover
<1>5. CASE read_reply
  <2>1. /\ stage \in 0 .. 3 /\ stage' = stage + 1 /\ asked' = FALSE /\ asked
        /\ config' = IF stage < 2 THEN With(Head(out).data, stage) ELSE config
        /\ out # <<>> /\ out' = Tail(out)
        /\ rest' = rest /\ packet' = packet
    BY <1>2, <1>5 DEF read_reply, Sti, Read, device, driver
  <2>2. Len(out) = 1 /\ (stage < 2 => Head(out).data = config) /\ rest = <<>> /\ packet = <<>>
    BY <1>3, <2>1 DEF Polling, Run, Sti
  <2>3. out' = <<>>
    <3>1. out' \in Seq(Bytes) /\ Len(out') = 0
      BY <1>2, <2>1, <2>2, TakenOff
    <3> QED
      BY <3>1, EmptySeq
  <2>4. (stage' >= 1 => Bit(config', 0)) /\ (stage' >= 2 => Bit(config', 1))
    <3>1. CASE stage = 0
      <4>1. config' = With(config, 0)
        BY <2>1, <2>2, <3>1
      <4> QED
        BY <1>2, <2>1, <3>1, <4>1, BitsKept
    <3>2. CASE stage = 1
      <4>1. config' = With(config, 1) /\ Bit(config, 0)
        BY <1>3, <2>1, <2>2, <3>2 DEF Polling
      <4> QED
        BY <1>2, <4>1, BitsKept
    <3>3. CASE ~(stage < 2)
      BY <1>3, <2>1, <3>3 DEF Polling
    <3> QED
      BY <2>1, <3>1, <3>2, <3>3
  <2> QED
    BY <2>1, <2>2, <2>3, <2>4 DEF Polling, Run, Sti, Leftover
<1>6. CASE sti
  <2>1. /\ stage = Sti /\ stage' \in {Run, Leftover} /\ (stage' = Run => pic.irr = {})
        /\ UNCHANGED <<asked, config, out, pic, vector, ending, rest, packet>>
    BY <1>6 DEF sti, handling, device, driver, Run, Leftover
  <2>2. out = <<>> /\ rest = <<>> /\ packet = <<>> /\ Bit(config, 0) /\ Bit(config, 1)
    BY <1>3, <2>1 DEF Polling, Run, Sti
  <2>3. vector = 0
    BY <1>1, <2>1 DEF TypeOK, Sti
  <2>4. Polling'
    BY <2>1, <2>2 DEF Polling, Run, Sti, Leftover
  <2>5. stage' = Run => InFlight(out', packet', rest')
    BY <2>1, <2>2, FlightEmpty
  <2>6. stage' = Run => Requested'
    BY <2>1, <2>2, <2>3 DEF Requested, Handling
  <2> QED
    BY <2>4, <2>5, <2>6
<1> QED
  BY <1>4, <1>5, <1>6

LEMMA ByDevice ==
  ASSUME Inv, Next, key_byte \/ mouse_byte
  PROVE  Inv'
<1>1. TypeOK /\ TypeOK'
  BY TypeStep DEF Inv
<1>2. /\ clean' = (clean /\ stage = Run)
      /\ UNCHANGED <<stage, asked, config, vector, ending, packet>>
  BY DEF key_byte, mouse_byte, Input, handling, driver
<1>3. SUFFICES ASSUME clean, stage = Run, Polling, InFlight(out, packet, rest), Requested
               PROVE  Polling' /\ InFlight(out', packet', rest') /\ Requested'
  BY <1>1, <1>2 DEF Inv
<1>4. Bit(config, 0) /\ Bit(config, 1) /\ out \in Seq(Bytes) /\ (Handling => out # <<>>)
  BY <1>1, <1>3 DEF Polling, Run, TypeOK, Requested
<1>5. Polling'
  BY <1>2, <1>3, <1>4 DEF Polling, Run, Sti, Leftover
<1>6. ASSUME NEW b \in Bytes, Put(b) PROVE Requested'
  BY <1>1, <1>2, <1>3, <1>4, <1>6, PutRequests
<1>7. CASE key_byte
  <2>1. Key \in Bytes /\ Put(Key) /\ rest' = rest /\ out' = Append(out, Key)
    BY <1>7 DEF key_byte, Key, Byte, Bytes, Put
  <2>2. \A c1 \in Seq(Int) : Whole(c1, rest) =>
          \E c2 \in Seq(Int) : Fits(c1, Key, c2) /\ Whole(c2, rest)
    BY DEF Fits, Key, Byte
  <2>3. InFlight(out', packet', rest')
    BY <1>2, <1>3, <1>4, <2>1, <2>2, FlightAppended
  <2> QED
    BY <1>5, <1>6, <2>1, <2>3
<1>8. CASE mouse_byte
  <2>1. PICK p \in IF rest = <<>> THEN {Encode(m) : m \in Motions} ELSE {rest} :
               Put(Byte("mouse", Head(p), 4 - Len(p))) /\ rest' = Tail(p)
    BY <1>8 DEF mouse_byte
  <2> DEFINE b == Byte("mouse", Head(p), 4 - Len(p))
  <2>2. b \in Bytes
    BY <1>1, MouseByte
  <2>3. \A c1 \in Seq(Int) : Whole(c1, rest) =>
          \E c2 \in Seq(Int) : Fits(c1, b, c2) /\ Whole(c2, Tail(p))
    BY NextByte
  <2>4. out' = Append(out, b) /\ Put(b)
    BY <2>1 DEF Put
  <2> HIDE DEF b
  <2>5. InFlight(out', packet', rest')
    BY <1>2, <1>3, <1>4, <2>1, <2>2, <2>3, <2>4, FlightAppended
  <2> QED
    BY <1>5, <1>6, <2>2, <2>4, <2>5
<1> QED
  BY <1>7, <1>8
\* In a handler, with the driver in step, it is the handler of the first byte.
LEMMA Whose ==
  ASSUME TypeOK, Requested, NEW irq, Called(irq)
  PROVE  /\ Handling /\ out # <<>> /\ irq = Irq(Head(out))
         /\ irq = 1 => Head(out).source # "mouse"
         /\ irq = 12 => Head(out).source = "mouse"
         /\ irq \in {1, 12}
<1>1. Handling /\ Dispatch(vector).handler = irq
  BY DEF Called, Handling
<1>2. out # <<>> /\ vector = Vector(Irq(Head(out)))
  BY <1>1 DEF Requested
<1>3. \/ Irq(Head(out)) = 12 /\ Head(out).source = "mouse"
      \/ Irq(Head(out)) = 1 /\ Head(out).source # "mouse"
  BY DEF Irq
<1>4. Dispatch(Vector(12)).handler = 12 /\ Dispatch(Vector(1)).handler = 1
  BY DEF Dispatch, Vector
<1> QED
  BY <1>1, <1>2, <1>3, <1>4

LEMMA ByInterrupt ==
  ASSUME Inv, Next,
         interrupt \/ kbd_irq \/ mouse_irq \/ no_handler \/ end_of_interrupt
           \/ mouse_clear_dirty
  PROVE  Inv'
<1>1. TypeOK /\ TypeOK'
  BY TypeStep DEF Inv
<1>2. /\ stage > Sti /\ clean' = clean /\ UNCHANGED <<asked, config, rest>>
      /\ stage' = stage \/ (stage' = Run /\ pic'.irr = {})
  <2>1. vector # 0 => stage > Sti
    BY <1>1 DEF TypeOK, Sti
  <2>2. ending => vector # 0
    BY <1>1 DEF TypeOK
  <2> QED
    BY <2>1, <2>2 DEF interrupt, kbd_irq, mouse_irq, no_handler, Called, end_of_interrupt,
       mouse_clear_dirty, device
<1>3. stage \in {Leftover, Run} /\ out \in Seq(Bytes)
  BY <1>1, <1>2 DEF TypeOK, Sti, Leftover, Run
<1>4. SUFFICES ASSUME clean, Polling
               PROVE  Polling' /\ (stage' = Run => InFlight(out', packet', rest') /\ Requested')
  BY <1>1, <1>2 DEF Inv
<1>5. Bit(config, 0) /\ Bit(config, 1)
  BY <1>3, <1>4 DEF Polling, Leftover, Run
\* What is left over from the polling is an interrupt without a byte.
<1>6. CASE stage = Leftover
  <2>1. out = <<>> /\ rest = <<>> /\ packet = <<>>
    BY <1>4, <1>6 DEF Polling, Leftover, Run
  <2>2. ~Read
    BY <2>1 DEF Read
  <2>3. UNCHANGED <<out, packet>>
    BY <2>2 DEF interrupt, kbd_irq, mouse_irq, no_handler, NoByte, end_of_interrupt,
       mouse_clear_dirty, driver
  <2>4. Polling'
    BY <1>2, <1>5, <1>6, <2>1, <2>3 DEF Polling, Run, Sti, Leftover
  <2>5. ASSUME stage' = Run PROVE InFlight(out', packet', rest') /\ Requested'
    <3>1. InFlight(out', packet', rest')
      BY <1>2, <2>1, <2>3, FlightEmpty
    <3>2. end_of_interrupt
      BY <1>6, <2>5 DEF interrupt, kbd_irq, mouse_irq, no_handler, Called, mouse_clear_dirty,
         Leftover, Run
    <3>3. pic'.irr = {} /\ vector' = 0
      BY <1>6, <2>5, <3>2 DEF end_of_interrupt, Leftover, Run
    <3> QED
      BY <2>1, <2>3, <3>1, <3>3 DEF Requested, Handling
  <2> QED
    BY <2>4, <2>5
<1>7. CASE stage = Run
  <2>1. stage' = Run
    BY <1>2, <1>7
  <2>2. InFlight(out, packet, rest) /\ Requested
    BY <1>4, <1>7 DEF Inv
  <2>3. Polling'
    BY <1>2, <1>5, <2>1 DEF Polling, Run, Sti, Leftover
  <2> SUFFICES InFlight(out', packet', rest') /\ Requested'
    BY <2>3
  <2>4. ASSUME NEW irq, Called(irq), Read
        PROVE  /\ Requested'
               /\ \E c1 \in Seq(Int) : Fits(packet, Head(out), c1) /\ InFlight(out', c1, rest')
    <3>1. Handling /\ out # <<>> /\ vector' = vector /\ ending' = TRUE
      BY <1>1, <2>2, <2>4, Whose DEF Called
    <3>2. Requested'
      BY <1>1, <1>5, <2>2, <2>4, <3>1, ReadRequests
    <3>3. out' = Tail(out)
      BY <2>4 DEF Read
    <3> QED
      BY <1>2, <1>3, <2>2, <3>1, <3>2, <3>3, FlightTaken
  <2>5. CASE interrupt
    <3>1. PICK q \in Offered(pic) : vector' = Vector(q) /\ pic' = Taken(pic, q)
      BY <2>5 DEF interrupt
    <3>2. vector = 0 /\ ending' = ending /\ ~ending /\ UNCHANGED <<out, packet>>
      BY <1>1, <2>5 DEF interrupt, TypeOK, driver
    <3>3. q \in pic.irr
      BY <3>1 DEF Offered
    <3>4. out # <<>> /\ pic.irr = {Irq(Head(out))} /\ q = Irq(Head(out))
      BY <2>2, <3>2, <3>3 DEF Requested, Handling
    <3>5. pic'.irr = {}
      BY <3>1, <3>4, PicTaken
    <3>6. Vector(q) # 0
      BY <3>4 DEF Irq, Vector
    <3> QED
      BY <1>2, <2>2, <3>1, <3>2, <3>4, <3>5, <3>6 DEF Requested, Handling
  <2>6. CASE kbd_irq
    <3>1. Called(1)
      BY <2>6 DEF kbd_irq
    <3>2. out # <<>> /\ Head(out).source # "mouse"
      BY <1>1, <2>2, <3>1, Whose
    <3>3. Read /\ packet' = packet
      BY <2>6, <3>2 DEF kbd_irq, NoByte, driver
    <3>4. PICK c1 \in Seq(Int) : Fits(packet, Head(out), c1) /\ InFlight(out', c1, rest')
      BY <2>4, <3>1, <3>3
    <3>5. c1 = packet
      BY <3>2, <3>4 DEF Fits
    <3> QED
      BY <2>4, <3>1, <3>3, <3>4, <3>5
  <2>7. CASE mouse_irq
    <3>1. Called(12)
      BY <2>7 DEF mouse_irq
    <3>2. out # <<>> /\ Head(out).source = "mouse"
      BY <1>1, <2>2, <3>1, Whose
    <3>3. Read /\ Store(Head(out).data)
      BY <2>7, <3>2 DEF mouse_irq, NoByte
    <3>4. PICK c1 \in Seq(Int) : Fits(packet, Head(out), c1) /\ InFlight(out', c1, rest')
      BY <2>4, <3>1, <3>3
    <3>5. packet' = c1
      <4>1. Head(out) \in Bytes /\ Short(packet)
        BY <1>1, <1>3, <3>2, TakenOff DEF TypeOK
      <4> QED
        BY <3>2, <3>3, <3>4, <4>1, StoreFits
    <3> QED
      BY <2>4, <3>1, <3>3, <3>4, <3>5
  <2>8. CASE no_handler
    <3>1. Called(7) \/ Called(15)
      BY <2>8 DEF no_handler
    <3> QED
      BY <1>1, <2>2, <3>1, Whose
  <2>9. CASE end_of_interrupt
    <3>1. /\ ending /\ vector' = 0 /\ pic'.irr = pic.irr
          /\ UNCHANGED <<out, packet>>
      BY <1>1, <2>9, PicEnded DEF end_of_interrupt, driver, TypeOK
    <3> QED
      BY <1>2, <2>2, <3>1 DEF Requested, Handling
  <2>10. CASE mouse_clear_dirty
    BY <1>2, <2>2, <2>10 DEF mouse_clear_dirty, handling, Requested, Handling
  <2> QED
    BY <2>5, <2>6, <2>7, <2>8, <2>9, <2>10
<1> QED
  BY <1>3, <1>6, <1>7

LEMMA InvStep ==
  ASSUME Inv, [Next]_vars
  PROVE  Inv'
<1>1. CASE Next
  BY <1>1, ByPolling, ByDevice, ByInterrupt DEF Next, Kernel
<1>2. CASE UNCHANGED vars
  <2>1. /\ UNCHANGED <<stage, asked, config, out, pic, vector, ending, clean, rest>>
        /\ UNCHANGED <<packet, x, y>>
    BY <1>2 DEF vars, handling, device, driver, pointer
  <2>2. TypeOK'
    BY <2>1 DEF Inv, TypeOK, Short
  <2>3. clean => Polling'
    BY <2>1 DEF Inv, Polling
  <2>4. clean /\ stage = Run => InFlight(out', packet', rest') /\ Requested'
    BY <2>1 DEF Inv, Requested, Handling
  <2> QED
    BY <2>1, <2>2, <2>3, <2>4 DEF Inv
<1> QED
  BY <1>1, <1>2

-----------------------------------------------------------------------------
(* The theorems *)

THEOREM Invariant == Spec => []Inv
<1>1. Inv /\ [Next]_vars => Inv'
  BY InvStep
<1> QED
  BY InvInit, <1>1, PTL DEF Spec

\* If nobody touched keyboard or mouse before interrupts were enabled, the bytes
\* in the driver's buffer and those that wait make whole packets for ever after.
THEOREM InStepForGood == Spec => []StaysInStep
<1>1. Inv => StaysInStep
  <2> SUFFICES ASSUME Inv, clean PROVE InStep
    BY DEF StaysInStep
  <2>1. TypeOK /\ Polling
    BY DEF Inv
  <2>2. CASE stage = Run
    BY <2>1, <2>2, FlightInStep DEF Inv, TypeOK
  <2>3. CASE stage # Run
    <3>1. stage \in 0 .. 5
      BY <2>1, <2>3 DEF TypeOK, Run
    <3>2. rest = <<>> /\ packet = <<>> /\ Len(packet) = 0
      BY <2>1, <3>1 DEF Polling, Run
    <3>3. (3 - Len(rest)) % 3 = 0
      BY <3>2
    <3>4. Unread = {}
      <4>1. CASE stage < Sti /\ asked
        <5>1. Len(out) = 1 /\ Head(out).place = 0
          BY <2>1, <4>1 DEF Polling
        <5>2. out \in Seq(Bytes) /\ out # <<>>
          BY <2>1, <5>1, EmptySeq DEF TypeOK
        <5>3. DOMAIN out = {1} /\ out[1] = Head(out)
          BY <5>1, <5>2, TakenOff, LenProperties
        <5> QED
          BY <5>1, <5>3 DEF Unread
      <4>2. CASE ~(stage < Sti /\ asked)
        <5>1. out = <<>>
          BY <2>1, <3>1, <4>2 DEF Polling, Sti, Leftover
        <5> QED
          BY <5>1 DEF Unread
      <4> QED
        BY <4>1, <4>2
    <3> QED
      BY <3>2, <3>3, <3>4 DEF InStep
  <2> QED
    BY <2>2, <2>3
<1> QED
  BY <1>1, Invariant, PTL

\* A byte that waits while no interrupt is being handled has its request.
THEOREM NeverStranded == Spec => []NoByteStranded
<1>1. Inv => NoByteStranded
  <2> SUFFICES ASSUME Inv, clean, stage > Sti, vector = 0, out # <<>>
               PROVE  Irq(Head(out)) \in pic.irr
    BY DEF NoByteStranded
  <2>1. stage \in {Leftover, Run}
    BY DEF Inv, TypeOK, Sti, Leftover, Run
  <2>2. stage # Leftover
    BY DEF Inv, Polling
  <2>3. Requested
    BY <2>1, <2>2 DEF Inv
  <2> QED
    BY <2>3 DEF Requested, Handling
<1> QED
  BY <1>1, Invariant, PTL
-----------------------------------------------------------------------------
(* What a packet does *)

\* The driver decodes what the mouse encoded.
LEMMA Decoded ==
  ASSUME NEW m \in Motions, NEW p, p = Encode(m)
  PROVE  /\ Bit(p[1], 3) /\ p[1] % 8 = m.buttons
         /\ p[2] - (IF Bit(p[1], 4) THEN 256 ELSE 0) = m.dx
         /\ p[3] - (IF Bit(p[1], 5) THEN 256 ELSE 0) = m.dy
<1>1. m.dx \in -256 .. 255 /\ m.dy \in -256 .. 255 /\ m.buttons \in 0 .. 7
  BY MouseAssumption
<1> DEFINE a == m.buttons + 8 + (IF m.dx < 0 THEN 16 ELSE 0) + (IF m.dy < 0 THEN 32 ELSE 0)
<1>2. p[1] = a /\ p[2] = m.dx % 256 /\ p[3] = m.dy % 256
  BY DEF Encode
<1>3. /\ Bit(a, 3) <=> (a \div 8) % 2 = 1
      /\ Bit(a, 4) <=> (a \div 16) % 2 = 1
      /\ Bit(a, 5) <=> (a \div 32) % 2 = 1
  <2>1. 2 ^ 3 = 8 /\ 2 ^ 4 = 16 /\ 2 ^ 5 = 32
    OBVIOUS
  <2> HIDE DEF a
  <2> QED
    BY <2>1 DEF Bit
<1>4. a \in Int
  BY <1>1
<1>5. /\ (a \div 8) % 2 = 1 /\ a % 8 = m.buttons
      /\ (a \div 16) % 2 = 1 <=> m.dx < 0
      /\ (a \div 32) % 2 = 1 <=> m.dy < 0
  <2>1. CASE m.dx < 0 /\ m.dy < 0
    BY <1>1, <2>1
  <2>2. CASE m.dx < 0 /\ ~(m.dy < 0)
    BY <1>1, <2>2
  <2>3. CASE ~(m.dx < 0) /\ m.dy < 0
    BY <1>1, <2>3
  <2>4. CASE ~(m.dx < 0) /\ ~(m.dy < 0)
    BY <1>1, <2>4
  <2> QED
    BY <2>1, <2>2, <2>3, <2>4
<1> HIDE DEF a
<1>6. \A d \in -256 .. 255 : (d % 256) - (IF d < 0 THEN 256 ELSE 0) = d
  OBVIOUS
<1>7. /\ Bit(a, 4) <=> m.dx < 0
      /\ Bit(a, 5) <=> m.dy < 0
  BY <1>3, <1>5
<1>8. /\ (m.dx % 256) - (IF m.dx < 0 THEN 256 ELSE 0) = m.dx
      /\ (m.dy % 256) - (IF m.dy < 0 THEN 256 ELSE 0) = m.dy
  BY <1>1, <1>6
<1>9. /\ p[2] - (IF Bit(p[1], 4) THEN 256 ELSE 0) = m.dx
      /\ p[3] - (IF Bit(p[1], 5) THEN 256 ELSE 0) = m.dy
  BY <1>2, <1>7, <1>8
<1> QED
  BY <1>2, <1>3, <1>5, <1>9

LEMMA MovedBy ==
  ASSUME NEW size \in {Width, Height}, NEW c \in 0 .. (size - 1), NEW d \in -256 .. 256
  PROVE  Moved(c, d, size) = IF c + d \in 0 .. (size - 1) THEN c + d ELSE c
<1>1. size \in Nat \ {0} /\ U32 \in Nat /\ U32 >= size + 256
  BY MouseAssumption
<1>2. CASE c + d < 0
  <2>1. (c + d) % U32 = (c + d) + U32
    BY <1>1, <1>2
  <2>2. ~((c + d) % U32 < size)
    BY <1>1, <2>1
  <2> QED
    BY <1>1, <1>2, <2>2 DEF Moved
<1>3. CASE ~(c + d < 0)
  <2>1. (c + d) % U32 = c + d
    BY <1>1, <1>3
  <2> QED
    BY <1>1, <1>3, <2>1 DEF Moved
<1> QED
  BY <1>2, <1>3

LEMMA PacketMoves ==
  ASSUME TypeOK, NEW b \in Bytes, NEW c1, Fits(packet, b, c1), b.place = 3, Store(b.data)
  PROVE  \E m \in Motions :
           /\ Encode(m)[1] = packet[1] /\ Encode(m)[2] = packet[2]
           /\ Encode(m)[3] = b.data
           /\ x' = IF x + m.dx \in 0 .. (Width - 1) THEN x + m.dx ELSE x
           /\ y' = IF y - m.dy \in 0 .. (Height - 1) THEN y - m.dy ELSE y
           /\ buttons' = m.buttons /\ dirty'
<1>1. Len(packet) = 2 /\ <<packet[1], packet[2], b.data>> \in Packets
  BY DEF Fits
<1>2. PICK m \in Motions : <<packet[1], packet[2], b.data>> = Encode(m)
  BY <1>1 DEF Packets
<1> DEFINE p == Append(packet, b.data)
<1>3. p = Encode(m)
  <2>1. packet \in Seq(Int) /\ b.data \in Int
    BY DEF TypeOK, Short, Bytes
  <2> QED
    BY <1>1, <1>2, <2>1, ShortAs
<1> HIDE DEF p
<1>4. Encode(m)[1] = packet[1] /\ Encode(m)[2] = packet[2] /\ Encode(m)[3] = b.data
  <2>1. /\ <<packet[1], packet[2], b.data>>[1] = packet[1]
        /\ <<packet[1], packet[2], b.data>>[2] = packet[2]
        /\ <<packet[1], packet[2], b.data>>[3] = b.data
    OBVIOUS
  <2> QED
    BY <1>2, <2>1
<1>5. Len(p) = 3
  BY <1>3 DEF Encode
<1>6. /\ Bit(p[1], 3) /\ p[1] % 8 = m.buttons
      /\ p[2] - (IF Bit(p[1], 4) THEN 256 ELSE 0) = m.dx
      /\ p[3] - (IF Bit(p[1], 5) THEN 256 ELSE 0) = m.dy
  BY <1>3, Decoded
<1>7. /\ x' = Moved(x, m.dx, Width) /\ y' = Moved(y, -m.dy, Height)
      /\ buttons' = m.buttons /\ dirty'
  BY <1>5, <1>6 DEF Store, p
<1>8. m.dx \in -256 .. 256 /\ m.dy \in -256 .. 255 /\ -m.dy \in -256 .. 256
  <2>1. m.dx \in -256 .. 255 /\ m.dy \in -256 .. 255
    BY MouseAssumption
  <2> QED
    BY <2>1
<1>9. x' = IF x + m.dx \in 0 .. (Width - 1) THEN x + m.dx ELSE x
  BY <1>7, <1>8, MovedBy DEF TypeOK
<1>10. y' = IF y - m.dy \in 0 .. (Height - 1) THEN y - m.dy ELSE y
  <2>1. y' = IF y + (-m.dy) \in 0 .. (Height - 1) THEN y + (-m.dy) ELSE y
    BY <1>7, <1>8, MovedBy DEF TypeOK
  <2>2. y + (-m.dy) = y - m.dy
    <3>1. \A i, j \in Int : i + (-j) = i - j
      OBVIOUS
    <3>2. y \in Int
      BY MouseAssumption DEF TypeOK
    <3>3. m.dy \in Int
      BY <1>8
    <3> QED
      BY <3>1, <3>2, <3>3
  <2> QED
    BY <2>1, <2>2
<1> QED
  BY <1>4, <1>7, <1>9, <1>10

\* A byte of a packet that is read while the driver is in step is read by
\* mouse_irq, and stored.
LEMMA MotionRead ==
  ASSUME Inv, Next, clean, out # <<>>, Head(out).place = 3, Len(out') < Len(out)
  PROVE  Store(Head(out).data) /\ \E c1 : Fits(packet, Head(out), c1)
<1>1. TypeOK /\ Polling /\ out \in Seq(Bytes) /\ Len(out) \in Nat /\ stage \in 0 .. 6
  BY LenProperties DEF Inv, TypeOK
<1>2. ASSUME NEW b, Put(b) PROVE FALSE
  <2>1. Len(out') = Len(out) + 1
    BY <1>1, <1>2, AppendProperties DEF Put
  <2> QED
    BY <1>1, <2>1
<1>3. out' # out
  BY <1>1
<1>4. ~read_reply
  <2>1. ASSUME read_reply PROVE FALSE
    BY <1>1, <2>1 DEF read_reply, Polling
  <2> QED
    BY <2>1
<1>5. ~key_byte /\ ~mouse_byte /\ ~command
  BY <1>2 DEF key_byte, mouse_byte, command
<1>6. (kbd_irq \/ mouse_irq) /\ ~NoByte
  BY <1>3, <1>4, <1>5 DEF Next, Kernel, sti, interrupt, no_handler, end_of_interrupt,
     mouse_clear_dirty, NoByte
<1>7. stage = Run
  <2>1. stage > Sti
    BY <1>1, <1>6 DEF kbd_irq, mouse_irq, Called, TypeOK, Sti
  <2> QED
    BY <1>1, <2>1 DEF Polling, Sti, Leftover, Run
<1>8. Requested /\ InFlight(out, packet, rest)
  BY <1>7 DEF Inv
<1>9. PICK c1 : Fits(packet, Head(out), c1)
  BY <1>1, <1>8, FlightTaken
<1>10. Head(out).source = "mouse"
  BY <1>9 DEF Fits
<1>11. ~kbd_irq
  BY <1>1, <1>8, <1>10, Whose DEF kbd_irq
<1> QED
  BY <1>6, <1>9, <1>10, <1>11 DEF mouse_irq

\* From the same invariant: the third byte of a packet moves the pointer by the
\* motion that was encoded, unless that would leave the screen; and no byte, in
\* step or not, makes the pointer leave it.
THEOREM PointerFollows == Spec => MovesAsReported
<1> DEFINE A ==
      /\ x' \in 0 .. (Width - 1) /\ y' \in 0 .. (Height - 1)
      /\ clean /\ out # <<>> /\ Head(out).place = 3 /\ Len(out') < Len(out) =>
           \E m \in Motions :
             /\ Encode(m)[1] = packet[1] /\ Encode(m)[2] = packet[2]
             /\ Encode(m)[3] = Head(out).data
             /\ x' = IF x + m.dx \in 0 .. (Width - 1) THEN x + m.dx ELSE x
             /\ y' = IF y - m.dy \in 0 .. (Height - 1) THEN y - m.dy ELSE y
             /\ buttons' = m.buttons /\ dirty'
<1>1. ASSUME Inv, [Next]_vars
      PROVE  [A]_vars
  <2> SUFFICES ASSUME Next PROVE A
    BY <1>1
  <2>1. x' \in 0 .. (Width - 1) /\ y' \in 0 .. (Height - 1)
    BY <1>1, TypeStep DEF Inv, TypeOK
  <2>2. ASSUME clean, out # <<>>, Head(out).place = 3, Len(out') < Len(out)
        PROVE  \E m \in Motions :
                 /\ Encode(m)[1] = packet[1] /\ Encode(m)[2] = packet[2]
                 /\ Encode(m)[3] = Head(out).data
                 /\ x' = IF x + m.dx \in 0 .. (Width - 1) THEN x + m.dx ELSE x
                 /\ y' = IF y - m.dy \in 0 .. (Height - 1) THEN y - m.dy ELSE y
                 /\ buttons' = m.buttons /\ dirty'
    <3>1. PICK c1 : Fits(packet, Head(out), c1)
      BY <1>1, <2>2, MotionRead
    <3>2. Store(Head(out).data)
      BY <1>1, <2>2, MotionRead
    <3>3. TypeOK /\ Head(out) \in Bytes
      BY <1>1, <2>2, TakenOff DEF Inv, TypeOK
    <3> QED
      BY <2>2, <3>1, <3>2, <3>3, PacketMoves
  <2> QED
    BY <2>1, <2>2
<1> QED
  BY <1>1, Invariant, PTL DEF Spec, MovesAsReported
=============================================================================

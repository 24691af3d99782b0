----------------------------- MODULE Descriptors ----------------------------
(***************************************************************************)
(* The descriptors the kernel builds (src/src/gdt.c, idt.c) and how the    *)
(* processor, which is external, reads them.  A number of several bytes is *)
(* the sequence of its bytes, lowest first.                                *)
(***************************************************************************)
EXTENDS Integers, Sequences, SequencesExt

\* A byte of two halves, and its halves.
Halves(low, high) == low + 16 * high
Low(byte) == byte % 16
High(byte) == byte \div 16

Zeros(n) == [k \in 1 .. n |-> 0]

-----------------------------------------------------------------------------
(* gdt.c *)

make_desc(base, limit, access, flags) ==
  <<limit[1], limit[2], base[1], base[2], base[3], access,
    Halves(Low(limit[3]), Low(flags)), base[4]>>

\* Mutant of make_tss_desc.
make_tss_desc_Base32(base, limit) ==
  <<limit[1], limit[2], base[1], base[2], base[3], 137, Low(limit[3]), base[4]>> \o Zeros(8)

\* Two slots: 0x89 in the access byte, the upper half of the base in the second.
make_tss_desc(base, limit) ==
  <<limit[1], limit[2], base[1], base[2], base[3], 137, Low(limit[3]), base[4]>>
    \o SubSeq(base, 5, 8) \o Zeros(4)

All == <<255, 255, 255, 255>>   \* 0xFFFFFFFF
NoBytes == <<0, 0, 0, 0>>

\* The table at gdt, of 8 slots: null, kernel code and data, user code and data,
\* the task state segment of 104 bytes at address tss.
gdt_init(tss) ==
  make_desc(NoBytes, NoBytes, 0, 0)
    \o make_desc(NoBytes, All, 154, 10) \o make_desc(NoBytes, All, 146, 12)
    \o make_desc(NoBytes, All, 250, 10) \o make_desc(NoBytes, All, 242, 12)
    \o make_tss_desc(tss, <<103, 0, 0, 0>>) \o Zeros(8)

-----------------------------------------------------------------------------
(* idt.c *)

\* A gate through the selector 0x08, without a stack of its own.
idt_set_gate(handler, attr) ==
  <<handler[1], handler[2], 8, 0, 0, attr>> \o SubSeq(handler, 3, 8) \o Zeros(4)

\* The gate of vector n: 0x80 may be used from ring 3.
idt_init(n, handler) == idt_set_gate(handler, IF n = 128 THEN 238 ELSE 142)

-----------------------------------------------------------------------------
(* The processor: a segment descriptor d, the pair of slots of a system      *)
(* descriptor, a gate g                                                      *)

Access(byte) == [present |-> High(byte) \div 8 = 1, ring |-> (High(byte) \div 2) % 4,
                 system |-> High(byte) % 2 = 0, type |-> Low(byte)]

Segment(d) ==
  [access |-> Access(d[6]),
   base |-> <<d[3], d[4], d[5], d[8]>>,
   limit |-> <<d[1], d[2], Low(d[7])>>,
   pages |-> High(d[7]) \div 8 = 1,
   default32 |-> (High(d[7]) \div 4) % 2 = 1,
   long |-> (High(d[7]) \div 2) % 2 = 1]

SystemBase(d) == Segment(d).base \o SubSeq(d, 9, 12)

Slot(table, selector) == SubSeq(table, selector + 1, selector + 8)
SlotPair(table, selector) == SubSeq(table, selector + 1, selector + 16)

Code == {10, 11}   \* readable code, not conforming
DataRW == {2, 3}   \* writable data, expanding up

IsCode(d, ring) ==
  LET s == Segment(d)
  IN  /\ s.access.present /\ ~s.access.system /\ s.access.type \in Code
      /\ s.access.ring = ring /\ s.long /\ ~s.default32

IsData(d, ring) ==
  LET s == Segment(d)
  IN  /\ s.access.present /\ ~s.access.system /\ s.access.type \in DataRW
      /\ s.access.ring = ring

Gate(g) ==
  [access |-> Access(g[6]), selector |-> g[3] + 256 * g[4], ist |-> g[5] % 8,
   offset |-> <<g[1], g[2]>> \o SubSeq(g, 7, 12)]
=============================================================================

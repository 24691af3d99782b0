-------------------------------- MODULE Calls -------------------------------
(***************************************************************************)
(* The functions of the kernel that compute their result from arguments    *)
(* and memory alone: each behaviour is one call.  The modules extended     *)
(* here define them; here is what each call must return.                   *)
(***************************************************************************)
EXTENDS Lib, Printk, ElfLoad, Programs, Descriptors, TrapFrame, Framebuffer

CONSTANTS
  LibCalls,       \* [f, m, a, b, n]: a function of lib.c, memory, arguments
  FormatCalls,    \* [d, arg, s]: one conversion, its argument, or its string
  SerialCalls,    \* a number: serial_hex, serial_dec
  BufferCalls,    \* [size, text]: ksprintf
  LoadCalls,      \* [ph, frames]: elf_load
  StackCalls,     \* [top, nlen]: elf_setup_stack
  RunCalls,       \* [tags, names, cmd]: boot, then a command
  TableCalls,     \* [tss, handler, n]: gdt_init, idt_init
  TrapCalls,      \* [n, code]: an interrupt
  DrawCalls       \* [f, x, y, w, h]: a drawing function

\* Memory of any size, from address 1 on, with strings that end; any headers of
\* segments that are not empty; any top of a stack and length of a name; bytes for
\* the tables.
ASSUME CallsAssumption ==
  /\ \A c \in LibCalls :
       /\ c.m \in Seq(0 .. 255)
       /\ c.a \in Nat \ {NULL} /\ c.b \in Nat /\ c.n \in Nat
       /\ Called(c)
  /\ \A c \in FormatCalls :
       /\ c.d \in [left : BOOLEAN, zero : BOOLEAN, plus : BOOLEAN, space : BOOLEAN,
                   alt : BOOLEAN, width : Nat, prec : Int, long : BOOLEAN, spec : STRING]
       /\ c.arg \in Nat
  /\ SerialCalls \subseteq 0 .. (LongMod - 1)
  /\ \A c \in BufferCalls : c.size \in Nat /\ c.text \in Seq(ToSet(c.text))
  /\ \A c \in LoadCalls :
       /\ c.ph \in Seq([load : BOOLEAN, inside : BOOLEAN, vaddr : Nat, filesz : Nat,
                         memsz : Nat \ {0}])
       /\ c.frames \in Nat
  /\ \A c \in RunCalls :
       /\ c.names \in Seq(ToSet(c.names)) /\ c.tags \in Seq(ToSet(c.tags))
       /\ \A tag \in ToSet(c.tags) :
            /\ tag.type # END /\ tag.size \in Nat \ {0}
            /\ tag.type = MODULE_TAG => tag.size >= 16
            /\ tag.type = FRAMEBUFFER => tag.size >= 24
  /\ StackCalls \subseteq [top : Int, nlen : Nat]
  /\ TableCalls \subseteq [tss : [1 .. 8 -> 0 .. 255], handler : [1 .. 8 -> 0 .. 255],
                           n : 0 .. 255]
  /\ \A c \in DrawCalls :
       /\ c.f \in {"fb_fill_rect", "fb_draw_text", "fb_draw_text_transparent", "fb_blit"}
       /\ c.x \in 0 .. (U32 - 1) /\ c.y \in 0 .. (U32 - 1) /\ c.w \in Nat /\ c.h \in Nat
       /\ c.f \in {"fb_draw_text", "fb_draw_text_transparent"} =>
            c.w = 2 * GlyphW /\ c.h = GlyphH

VARIABLES
  of,       \* the family of functions that is called
  call,     \* the call
  returned, \* whether it has returned
  result    \* what it returned

vars == <<of, call, returned, result>>

Init ==
  /\ \/ of = "lib" /\ call \in LibCalls
     \/ of = "format" /\ call \in FormatCalls
     \/ of = "serial" /\ call \in SerialCalls
     \/ of = "buffer" /\ call \in BufferCalls
     \/ of = "load" /\ call \in LoadCalls
     \/ of = "stack" /\ call \in StackCalls
     \/ of = "run" /\ call \in RunCalls
     \/ of = "table" /\ call \in TableCalls
     \/ of = "trap" /\ call \in TrapCalls
     \/ of = "draw" /\ call \in DrawCalls
  /\ returned = FALSE /\ result = <<>>

Returns(family, r) ==
  /\ of = family /\ ~returned
  /\ returned' = TRUE /\ result' = r
  /\ UNCHANGED <<of, call>>

-----------------------------------------------------------------------------
(* The calls *)

lib ==
  LET m == call.m  a == call.a  b == call.b  n == call.n
  IN  Returns("lib",
        CASE call.f = "memset"  -> memset(m, a, b, n)
          [] call.f = "memcpy"  -> memcpy(m, a, b, n)
          [] call.f = "memmove" -> memmove(m, a, b, n)
          [] call.f = "memcmp"  -> memcmp(m, a, b, n)
          [] call.f = "strlen"  -> strlen(m, a)
          [] call.f = "strcmp"  -> strcmp(m, a, b)
          [] call.f = "strncmp" -> strncmp(m, a, b, n)
          [] call.f = "strcpy"  -> strcpy(m, a, b)
          [] call.f = "strncpy" -> strncpy(m, a, b, n)
          [] call.f = "strcat"  -> strcat(m, a, b)
          [] call.f = "strspn"  -> strspn(m, a, b)
          [] call.f = "strchr"  -> strchr(m, a, n)
          [] call.f = "strstr"  -> strstr(m, a, b))

format == Returns("format", kformat(call.d, call.arg, call.s))

serial == Returns("serial", [hex |-> serial_hex(call), dec |-> serial_dec(call)])

Untouched == [k \in 0 .. 9 |-> "old"]

buffer == Returns("buffer", ksprintf(Untouched, call.size, call.text))

load == Returns("load", elf_load(call.ph, call.frames))

stack == Returns("stack", elf_setup_stack(call.top, call.nlen))

\* The module that a command would load.
Runs(c, cmd) ==
  IF IsRun(cmd) THEN program_run(Registered(Laid(c.tags), c.names), NameToRun(cmd)) ELSE NoImage

run == Returns("run", [image |-> Runs(call, call.cmd),
                       screen |-> parse_framebuffer(Laid(call.tags))])

table == Returns("table", [gdt |-> gdt_init(call.tss), gate |-> idt_init(call.n, call.handler)])

Interrupted ==
  [regs |-> [r \in Regs |-> r], rip |-> "rip", cs |-> "cs", rflags |-> "rflags",
   rsp |-> "rsp", ss |-> "ss"]

trap == Returns("trap", [frame |-> Frame(Interrupted, call.n, call.code),
                         cpu |-> Resumed(Interrupted, call.n, call.code)])

Pitch == Width + 1
Black == [p \in 0 .. (Pitch * Height - 1) |-> 0]

\* A glyph with one pixel of each kind in its rows.
Dot == {<<k, k>> : k \in 0 .. (GlyphW - 1)}

draw ==
  LET x == call.x  y == call.y  w == call.w  h == call.h
  IN  Returns("draw",
        CASE call.f = "fb_fill_rect" -> fb_fill_rect(Black, Pitch, x, y, w, h, 1)
          [] call.f = "fb_draw_text" -> fb_draw_text(Black, Pitch, x, y, <<Dot, Dot>>, 1, 1)
          [] call.f = "fb_draw_text_transparent" ->
               fb_draw_text_transparent(Black, Pitch, x, y, <<Dot, Dot>>, 1)
          [] call.f = "fb_blit" -> fb_blit(Black, Pitch, x, y, [k \in 1 .. (w * h) |-> 1], w, h))

Next ==
  lib \/ format \/ serial \/ buffer \/ load \/ stack \/ run \/ table \/ trap \/ draw

Spec == Init /\ [][Next]_vars

-----------------------------------------------------------------------------
(* Properties *)

Of(family) == returned /\ of = family

\* lib.c: copies are right however source and destination overlap where
\* memmove is asked for it, comparisons order unsigned bytes, and a search
\* finds the first place; nothing else in memory is written.
StringsAgree ==
  Of("lib") =>
    LET m == call.m  a == call.a  b == call.b  n == call.n  f == call.f
    IN  /\ f = "memset" => Changed(m, result, a, [k \in 1 .. n |-> b % 256])
        /\ f = "memmove" \/ (f = "memcpy" /\ (a + n <= b \/ b + n <= a)) =>
             Changed(m, result, a, Bytes(m, b, n))
        /\ f = "memcmp" => Orders(result, Bytes(m, a, n), Bytes(m, b, n))
        /\ f = "strlen" => result = Len(Text(m, a))
        /\ f = "strcmp" => Orders(result, Text(m, a), Text(m, b))
        /\ f = "strncmp" => Orders(result, Prefix(Text(m, a), n), Prefix(Text(m, b), n))
        /\ f = "strcpy" => Changed(m, result, a, Append(Text(m, b), 0))
        /\ f = "strncpy" /\ Len(Text(m, b)) < n =>
             Changed(m, result, a, Text(m, b) \o [k \in 1 .. (n - Len(Text(m, b))) |-> 0])
        /\ f = "strcat" =>
             Changed(m, result, a, Text(m, a) \o Append(Text(m, b), 0))
        /\ f = "strspn" =>
             LET Spans(k) == ToSet(Prefix(Text(m, a), k)) \subseteq ToSet(Text(m, b))
             IN  Spans(result) /\ (result < Len(Text(m, a)) => ~Spans(result + 1))
        /\ f = "strchr" =>
             result = FirstOf({p \in a .. (a + Len(Text(m, a)) - 1) : m[p] = n})
        /\ f = "strstr" => result = FirstOf(Occurrences(m, a, b))

\* printk.c, serial.c: the digits of a number read back to the argument, as the
\* type of the conversion has it, for every width and flag; the text is as wide
\* as was asked for and no wider than needed, but for the space flag, which takes
\* room twice.
NumbersReadBack ==
  /\ Of("format") /\ call.d.spec \in Numeric =>
       LET d == call.d
           alone == numeric([d EXCEPT !.width = 1], call.arg)
       IN  /\ ReadBack(result, Base(d)) = Fetched(d, call.arg)
           /\ ~d.space /\ d.width > 0 =>
                Len(result) = IF Len(alone) > d.width THEN Len(alone) ELSE d.width
  /\ Of("serial") => ReadBack(result.hex, 16) = call /\ ReadBack(result.dec, 10) = call

\* printk.c: ksprintf ends its text inside the buffer, whatever the size, with
\* as much of it as there is room for, and returns the length it would have had.
SprintfFits ==
  Of("buffer") =>
    /\ result.returned = Len(call.text)
    /\ \A k \in DOMAIN Untouched :
         result.buf[k] =
           IF k >= call.size \/ k > Len(call.text) THEN "old"
           ELSE IF k = Len(call.text) \/ k = call.size - 1 THEN "NUL" ELSE call.text[k + 1]

\* Both: what is formatted is what was meant, and stays where it belongs.
Formatted == NumbersReadBack /\ SprintfFits

\* elf.c: a segment that starts a page and shares none is loaded as it was
\* linked, wherever its data and its pages end.
AlignedAsLinked ==
  Of("load") /\ result.loaded =>
    \A s \in Segments(call.ph) :
      call.ph[s].vaddr % PageSize = 0 /\ Alone(call.ph, s) => AsLinked(call.ph, s, result.page)

\* elf.c: the break lies on a page boundary above every page of the image,
\* aligned or not, so that what brk and mmap add later replaces nothing of it.
BreakAboveImage ==
  Of("load") /\ result.loaded =>
    /\ result.brk % PageSize = 0
    /\ \A s \in Segments(call.ph) : PagesOf(call.ph[s]) \subseteq DOMAIN result.page
    /\ \A p \in DOMAIN result.page : p + PageSize <= result.brk

\* elf.c: what elf_load leaves is the image of the file, and the break above it.
ImageLoaded == AlignedAsLinked /\ BreakAboveImage

\* elf.c: a program is entered with its stack pointer at 8 modulo 16, below
\* everything that was put on the stack; behind the argument count stands the
\* address of the name, which ends below the words above it, and the pointers end.
StackChained ==
  Of("stack") =>
    LET w == result.words
        argc == CHOOSE p \in DOMAIN w : w[p] = 1
    IN  /\ result.sp % 16 = 8 /\ result.sp <= argc
        /\ \A p \in DOMAIN w : p >= argc /\ p + 8 <= call.top
        /\ w[argc + 8] = result.str /\ w[argc + 16] = 0 /\ w[argc + 24] = 0
        /\ \A p \in DOMAIN w : p + 8 <= result.str \/ result.str + call.nlen <= p

\* The command is blanks, `run`, one blank and the name.
AsksFor(cmd, name) ==
  \E n \in 0 .. Len(cmd) : cmd = [k \in 1 .. n |-> Blank] \o <<"run", Blank, name>>

\* kernel.c, program.c, terminal.c: `run` and a name, with whatever blanks in
\* front, runs the first module the boot loader has left under that name if it
\* is among the first MAX_MODULES of the kernel's names that are there; and the
\* kernel draws on the framebuffer it has been given, wherever its tag stands.
RunFindsModule ==
  Of("run") =>
    LET tags == call.tags
        Named(name) == {k \in DOMAIN tags : tags[k].type = MODULE_TAG /\ tags[k].value.cmdline = name}
        there == {i \in DOMAIN call.names : Named(call.names[i]) # {}}
        registered == {i \in there : Cardinality({j \in there : j <= i}) <= MAX_MODULES}
        screens == {k \in DOMAIN tags : tags[k].type = FRAMEBUFFER}
    IN  /\ result.screen = IF screens = {} THEN {} ELSE {tags[Min(screens)].value}
        /\ \A name \in ToSet(call.names) :
             AsksFor(call.cmd, name) =>
               result.image = IF \E i \in registered : call.names[i] = name
                              THEN tags[Min(Named(name))].value.range ELSE NoImage

\* gdt.c, idt.c: the processor reads in the tables what the kernel means: code
\* and data of either ring at their selectors, the task state segment where it
\* is, whatever its address; and a gate that leads to its handler and lets in
\* ring 3 for 0x80 only.
TablesRead ==
  Of("table") =>
    LET g == result.gdt
        tss == SlotPair(g, 40)
        gate == Gate(result.gate)
    IN  /\ IsCode(Slot(g, 8), 0) /\ IsData(Slot(g, 16), 0)
        /\ IsCode(Slot(g, 24), 3) /\ IsData(Slot(g, 32), 3)
        /\ ~Segment(Slot(g, 0)).access.present
        /\ SystemBase(tss) = call.tss /\ Segment(tss).limit = <<103, 0, 0>>
        /\ ~Segment(tss).pages /\ Segment(tss).access = Access(137)
        /\ gate.offset = call.handler /\ gate.selector = 8 /\ gate.ist = 0
        /\ gate.access.present /\ gate.access.system /\ gate.access.type = 14
        /\ gate.access.ring = IF call.n = 128 THEN 3 ELSE 0

\* isr.S: whatever the vector, with an error code or not, the interrupted code
\* goes on where it was with every register as it was, and isr_handler is told
\* the vector, the code and where the interrupt came from.
InterruptedResumes ==
  Of("trap") =>
    /\ result.cpu = Interrupted
    /\ Field(result.frame, "int_no") = call.n
    /\ Field(result.frame, "err_code") = IF call.n \in WithCode THEN call.code ELSE "0"
    /\ \A f \in {"rip", "cs", "rflags", "rsp", "ss"} : Field(result.frame, f) = f

\* fb.c: drawing changes pixels of the rectangle that are on the screen, never
\* what lies beside a row or outside the framebuffer, however far off the
\* coordinates; a rectangle whose far corner is within range is painted whole.
DrawsInside ==
  Of("draw") =>
    LET inside == {Place(Pitch, (call.x + i) % U32, (call.y + j) % U32) :
                     i \in {k \in 0 .. (call.w - 1) : (call.x + k) % U32 < Width},
                     j \in {k \in 0 .. (call.h - 1) : (call.y + k) % U32 < Height}}
    IN  /\ DOMAIN result = DOMAIN Black
        /\ \A p \in DOMAIN Black : result[p] # 0 => p \in inside
        /\ call.f = "fb_fill_rect" /\ call.x + call.w < U32 /\ call.y + call.h < U32 =>
             \A p \in inside : result[p] = 1

-----------------------------------------------------------------------------
(* What comments and the documentation say and the code does not do *)

\* src/src/elf.c:102, "copy file data, then zero the remainder of the page":
\* a segment that shares no page is loaded as it was linked, wherever it starts.
LoadedAsLinked ==
  Of("load") /\ result.loaded =>
    \A s \in Segments(call.ph) :
      Alone(call.ph, s) => AsLinked(call.ph, s, result.page)

\* src/src/elf.c:134-136, "Build a Linux-style initial stack: argc,
\* argv[0..argc], NULL, envp[0..], NULL.  Returns the stack pointer.": what
\* the stack pointer points to is argc.
ArgcAtSp == Of("stack") => result.sp \in DOMAIN result.words /\ result.words[result.sp] = 1

\* docs/STATUS.md:20, "Exception handlers (print register state and halt)": the
\* fields that are printed hold the registers they are named after.
FrameNamed ==
  Of("trap") => \A r \in Regs : Field(result.frame, r) = Interrupted.regs[r]

\* src/src/terminal.c:129, "run PROG   run a user program": whatever the blanks
\* between the two.
RunTakesName ==
  Of("run") =>
    \A name \in ToSet(call.names) :
      SelectSeq(call.cmd, LAMBDA word : word # Blank) = <<"run", name>> =>
        result.image = Runs(call, <<"run", Blank, name>>)
=============================================================================

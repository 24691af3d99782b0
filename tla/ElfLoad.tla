------------------------------ MODULE ElfLoad -------------------------------
(***************************************************************************)
(* The loader (src/src/elf.c), byte by byte: elf_load turns the program    *)
(* headers of a file into pages, elf_setup_stack builds the first stack of *)
(* a program.  No interrupt handler touches what they work on, so they are *)
(* functions.  Where frames come from and how a page is mapped is the      *)
(* business of AddressSpaces; here either may fail, after `frames` pages.  *)
(*                                                                         *)
(* A segment is [load, vaddr, filesz, memsz, inside]: whether it is of     *)
(* type PT_LOAD, and whether its bytes lie inside the file.                *)
(***************************************************************************)
EXTENDS Integers, Sequences

CONSTANTS
  PageSize   \* 0x1000

ASSUME ElfLoadAssumption == PageSize \in Nat \ {0}

RoundDown(a) == (a \div PageSize) * PageSize
RoundUp(a) == RoundDown(a + PageSize - 1)

\* Bytes: the k-th of the data of segment s, zero, or what a frame held before.
Data(s, k) == [seg |-> s, at |-> k]
Zero == Data(0, 0)
Junk == Data(0, 1)

-----------------------------------------------------------------------------
(* elf_load *)

\* Mutant of Copied.
Copied_FromFirstByte(s, seg_off, off, n) ==
  [b \in 0 .. (PageSize - 1) |->
     IF b < n THEN Data(s, b) ELSE IF b >= off + n THEN Zero ELSE Junk]

\* n bytes of the file from seg_off on are copied to the start of the frame; the
\* zeros begin n bytes behind off, where the segment begins in the page.
Copied(s, seg_off, off, n) ==
  [b \in 0 .. (PageSize - 1) |->
     IF b < n THEN Data(s, seg_off + b) ELSE IF b >= off + n THEN Zero ELSE Junk]

\* The page at p of segment s, whose header is g.
Filled(g, s, p) ==
  LET off == IF p < g.vaddr THEN g.vaddr - p ELSE 0
      seg_off == p + off - g.vaddr
      room == PageSize - off
      n == IF g.filesz - seg_off > room THEN room ELSE g.filesz - seg_off
  IN  IF seg_off < g.filesz THEN Copied(s, seg_off, off, n)
                            ELSE [b \in 0 .. (PageSize - 1) |-> Zero]

\* Loading, a record [page, frames, max_end, failed], goes on by one page ...
LoadPage(st, g, s, p) ==
  IF st.failed \/ st.frames = 0 THEN [st EXCEPT !.failed = TRUE]
  ELSE [st EXCEPT !.frames = @ - 1,
                  !.page = [q \in DOMAIN @ \cup {p} |-> IF q = p THEN Filled(g, s, p) ELSE @[q]]]

SegmentDone(st, g) ==
  [st EXCEPT !.max_end = IF g.vaddr + g.memsz > @ THEN g.vaddr + g.memsz ELSE @]

\* The pages from the one a segment begins in up to its end, one after another.
Page(g, k) == RoundDown(g.vaddr) + (k - 1) * PageSize

PageCount(g) == (RoundUp(g.vaddr + g.memsz) - RoundDown(g.vaddr)) \div PageSize

LoadPages(st, g, s) ==
  LET after[k \in 0 .. PageCount(g)] ==
        IF k = 0 THEN st ELSE LoadPage(after[k - 1], g, s, Page(g, k))
  IN  after[PageCount(g)]

\* ... by one segment; a header of another type is passed over, and one whose
\* bytes are not in the file ends it.
LoadSegment(st, g, s) ==
  IF st.failed \/ ~g.load THEN st
  ELSE IF ~g.inside THEN [st EXCEPT !.failed = TRUE]
  ELSE SegmentDone(LoadPages(st, g, s), g)

NothingLoaded(frames) ==
  [page |-> << >>, frames |-> frames, max_end |-> 0, failed |-> FALSE]

\* The pages mapped, whether the entry point is returned, and the break that is
\* set then.
elf_load(ph, frames) ==
  LET after[s \in 0 .. Len(ph)] ==
        IF s = 0 THEN NothingLoaded(frames) ELSE LoadSegment(after[s - 1], ph[s], s)
      st == after[Len(ph)]
  IN  [page |-> st.page, loaded |-> ~st.failed, brk |-> RoundUp(st.max_end)]

-----------------------------------------------------------------------------
(* elf_setup_stack; a word has 8 bytes *)

\* The word below the top ends an environment that argc is not in line with;
\* below the name are argc, its address and the two that end argv and envp.
FirstWords(top, str) ==
  [p \in {top - 8, str - 8, str - 16, str - 24, str - 32} |->
     CASE p = str - 32 -> 1 [] p = str - 24 -> str [] OTHER -> 0]

\* Mutant of elf_setup_stack.
elf_setup_stack_Aligned16(top, nlen) ==
  LET str == ((top - 8 - nlen) \div 16) * 16
      words == FirstWords(top, str)
  IN  [words |-> words, str |-> str, sp |-> str - 32]

\* What is written, address -> value, where the name goes, and the pointer that
\* is returned, for a name of nlen bytes with its NUL.
elf_setup_stack(top, nlen) ==
  LET str == ((top - 8 - nlen) \div 16) * 16
      words == FirstWords(top, str)
      sp == str - 32
  IN  [words |-> words, str |-> str, sp |-> IF sp % 16 = 0 THEN sp - 8 ELSE sp]

-----------------------------------------------------------------------------
(* What is expected of a table of headers ph and what was loaded, r *)

Segments(ph) == {s \in DOMAIN ph : ph[s].load}

PagesOf(g) == {RoundDown(a) : a \in g.vaddr .. (g.vaddr + g.memsz - 1)}

\* No other segment shares a page with s.
Alone(ph, s) == \A r \in Segments(ph) \ {s} : PagesOf(ph[r]) \cap PagesOf(ph[s]) = {}

\* The image of segment s is what the file says: its data, then zeros.
AsLinked(ph, s, page) ==
  \A a \in ph[s].vaddr .. (ph[s].vaddr + ph[s].memsz - 1) :
    page[RoundDown(a)][a % PageSize] =
      IF a - ph[s].vaddr < ph[s].filesz THEN Data(s, a - ph[s].vaddr) ELSE Zero
=============================================================================

# SlopOS: a verification development

SlopOS (`src/`) is a small x86-64 kernel with a graphical desktop: it boots from
GRUB, identity-maps memory, drives a PS/2 keyboard and mouse, shows two windows,
one of them a terminal with a shell, and runs static ELF programs in ring 3, one
at a time.  This directory holds TLA+ modules translated from its C and
assembler, configurations that check them with TLC, and proofs for TLAPS.
Kernel sources are under `src/src/`; line numbers below are theirs.

## 1. The system

There is one processor.  The boot code becomes the *boot task*, whose main loop
handles input and sleeps in `hlt`.  The only concurrency is between that loop
and three interrupt handlers (timer, keyboard, mouse), which run with
interrupts off and do not nest.  A shell command `run p` builds an address space
and a task inside the handling of the Enter key, yields to it, and is resumed
when the program's `exit` switches back; interrupts are off all that time.

| Component | State it keeps | Operations | What makes it correct |
|---|---|---|---|
| Frame allocator, `pmm.c` | bitmap, search hint | boot reservations, alloc, alloc run, free, mark | no frame twice, none reserved, failure means full |
| Heap, `kmalloc.c` | free list inside the blocks | malloc, free, calloc, realloc, add pool | blocks tile the pools, live blocks are left alone |
| Page tables, `vmm.c` | tables in frames | create, map, allocate page | kernel map kept, frames of a program its own |
| ELF loader, `elf.c` | `program_break`, pages | load, stack | pages hold what the file says, the break is above them |
| Tasks, `task.c`, `sched.S` | ring of tasks, saved contexts | create, yield, exit, switch, enter ring 3 | each task on its stack, dead ones stay dead |
| Launch, `program.c` | table of modules | register, run | returns when the program has exited |
| System calls, `syscall.c`, `syscall_asm.S` | trap stack, break | entry, brk, mmap, files, exit | stack separate, break backed |
| Files, `fs.c`, with `cat` | files, descriptors | register, open, read, close | cat prints its file and ends |
| Keyboard, `keyboard.c` | flags, ring of events | decode, enqueue, get | queue keeps order under interrupts, flags as typed |
| Mouse, `mouse.c` | packet, pointer, dirty flag | init, interrupt | in step with the device, pointer on screen |
| Main loop, `kernel.c` | last redraw | poll keys and mouse, repaint, sleep | nothing waits for ever |
| Windows, `wm.c` | list, focus, drag | create, destroy, focus, mouse, redraw | what is seen takes the click |
| Framebuffer, `fb.c` | pixels | fill, text, blit | nothing outside the screen is written |
| Terminal, `terminal.c` | lines, command | print, clear, key, execute, draw | scrollback kept, the command is shown |
| Interrupt entry, `isr.S`, `idt.c`, and timer | requests, handlers, ticks | enter, dispatch, acknowledge, resume | the interrupted code goes on, no request is lost |
| Descriptors, `gdt.c`, `idt.c` | tables | build | the processor reads what is meant |
| Module search, `kernel.c` | none | walk the boot tags | `run` gets the module it names |
| `lib.c`, `printk.c`, number output of `serial.c` | none | strings, memory, conversions | agree with sequences of bytes, numbers read back |
| Boot tables, `boot.S` | identity map | once | initial state of the address spaces |

How they interact.  `malloc`, `alloc_table`, the loader, brk and mmap and task
creation all take frames from `pmm`; the heap takes runs of frames and never
gives them back.  `vmm` writes its tables through the identity map that the same
tables implement.  The keyboard handler shares `queue`, `q_head` and `q_tail`
with the main loop, the mouse handler `state` and `dirty`, the timer handler the
tick counter, none of them under a lock.  Keyboard and mouse share one
controller port.  The window manager calls the terminal's key handler, which
may run a program before it returns.

What is hard: interrupts between any two instructions of the loop; state shared
between programs (page tables below the top level, descriptors, the break); a
stack switch in the middle of a C function; allocation failing at any step of a
launch; a byte stream without framing.  `PROJECT.json` lists these hazards with
their lines and the properties aimed at them.  Nothing is persisted, so there is
no crash recovery to model, and there is no second processor.

## 2. The modules

| Module | Models | Notes |
|---|---|---|
| `BootMemory` | `pmm_init` | regions in bytes, rounded where the code rounds |
| `FrameAllocator` | promise of `pmm.h` | abstract: a set of free frames |
| `Pmm`, `PmmProofs` | `pmm.c` | one action per call; bitmap = set of clear bits, `last` = `last_alloc >> 12` |
| `Kmalloc`, `KmallocProofs` | `kmalloc.c` | units of 16 bytes; frames through `FrameAllocator`, which other callers use too |
| `AddressSpaces`, `AddressSpacesProofs` | `vmm.c`, page side of `elf.c`, `program.c`, `task.c`, brk, mmap and what they use of the heap | tables of N entries; one action per launch, system call, exit; each access of the kernel to a table, its stack, its heap or a file goes through the tables in force |
| `ElfLoad` | `elf_load` byte by byte, `elf_setup_stack` | recursive functions over segments and over the pages of one |
| `Scheduler`, `SchedulerProofs` | `task.c`, `sched.S`, `syscall_asm.S`, end of `program.c` | one action per function or crossing of rings |
| `Ramfs`, `CallsProofs` | `fs.c`, `programs/cat.c` | one step per system call of cat |
| `BoundedFifo` | promise of `keyboard.h` | abstract queue |
| `KeyQueue` | `enqueue`, `kbd_get_event` | the reader's copy and its release of the slot are two steps |
| `Keyboard`, `ConsoleProofs` | `handle_byte` | with the keyboard as environment |
| `Interrupts` | the two 8259s as `idt.c` programs them, dispatch by vector, end of interrupt | operators on requests and levels in service |
| `Ps2Mouse`, `Ps2MouseProofs` | `mouse.c`, `kbd_init`, `kbd_irq`'s read of the port | uses `Interrupts`; keyboard controller and devices as environment |
| `InputLoop`, `ConsoleProofs` | `kernel_main`'s loop and the three handlers | uses `KeyQueue`; one step per access to shared state |
| `Framebuffer` | `fb.c` | operators on a map from places to colours, coordinates modulo U32 |
| `Wm`, `WmProofs` | `wm.c` | uses `Framebuffer`; one step per packet, repaint included as in the code |
| `Terminal`, `ConsoleProofs` | `terminal.c`, `strncpy` as the shell meets it | functions on the buffer; one step per key |
| `Lib` | `lib.c` | operators on memories, and on sequences of bytes for reference |
| `Printk` | `kformat`, `ksprintf`, serial's numbers | operators from a parsed conversion and its argument to text |
| `Programs` | `find_module`, `parse_framebuffer`, `program.c`'s table, `cmd_run` | operators on the tags as laid out in memory |
| `Descriptors` | `gdt.c`, gates of `idt.c` | bytes as written, and read as the processor does |
| `TrapFrame` | `isr.S`, `isr_frame_t` | a stack of words, the processor's entry and `iretq` |
| `Calls`, `CallsProofs` | the operator modules above | one step: any call of the run's sets, with its result |

Actions and operators carry the names of the C functions they stand for and
variables those of its variables, where TLA+ allows (`free_` is `free`); history
variables are marked as such where they are declared.  `MC*` modules give the
constants of one run, `*.cfg` names its properties.  Every module that checks
mutants defines them beside the original (`<name>_<bug>`, "Mutant of"): a
plausible slip in the code, under which the property named in `PROJECT.json`
must fail.  They are used nowhere else.

`ConsoleProofs` and `CallsProofs` extend several modules each.  So that their
names do not meet, `Keyboard`, `Terminal` and `Ramfs` carry a prefix in the
names of their specifications (`KbdSpec`, `TermSpec`, `FsSpec`).

Composition: `Kmalloc` runs on an instance of `FrameAllocator`, which `Pmm` is
shown to implement; `InputLoop` runs on an instance of `KeyQueue`, which is shown
there to implement `BoundedFifo`; `Ps2Mouse` puts both drivers, the keyboard
controller and the interrupt controllers together; `Wm` paints through
`Framebuffer`.  `AddressSpaces` covers loader, tables, launch and system calls in
one state, for the faults are in what they share.

## 3. The runs

All runs take at most about two minutes on two workers.  The functions without
state of their own share one run: a behaviour is one call from the run's sets,
and the invariants compare the result with a definition written the other way
round (read back, as the processor reads, on sequences).

| Run | Question | Bounds, and why they are enough |
|---|---|---|
| `pmm` | Do all sequences of calls keep frames apart, from every boot layout given, and implement the set of frames? | a dozen frames, runs up to 3, two layouts: one range with unaligned regions, and one with a hole, an inner framebuffer and a partial last frame. The hint wraps and both searches fail and succeed |
| `kernel_image` | Is the kernel's own image kept out of circulation, as STATUS.md says? | the same; expected to fail, see 6 |
| `kmalloc` | Are pools tiled, live blocks kept, writes inside, and endless recursion due to lack of frames only? | three frames of four units, so pools touch, are apart, and come in either order; up to four blocks in a pool: split, exact fit, both kinds of neighbours |
| `address_spaces` | What do programs and kernel find mapped? | N = 5, two programs, 17 frames for them, one of which is taken for a heap pool at most, and kernel stacks of two frames: a second program starts in the tables of the first, and later launches find any number of frames from none to all they need, so that each of their allocations fails. brk below the image, into it and above; mmap over the page tables, the kernel, free low memory, the image and the stack; three calls that ask for pages, each for one or two or, by brk, up to eleven, so that some run out in the middle. The stack of a system call, the heap and the page tables all lie where such calls can put other frames |
| `scheduler` | Stacks, death, return of a launch | six tasks, up to three kernel tasks that yield |
| `ramfs` | Does cat print and end, run after run? | four descriptors, so the table fills; any leftover in a register |
| `input_loop` | Are keys and packets handled, in order, and is the ring a queue? | three slots and bursts of two: the ring fills while the reader is between its two steps; two mouse states |
| `keyboard` | Are control and alt reported as typed, and extended keys ignored? | six keys, three bytes on the wire |
| `ps2_mouse` | Is the driver in step, is every byte read by its own handler, and does the pointer move as reported and stay on the screen? | 3 x 2 screen, motions by one and from the end of nine bits off the screen, two bytes waiting, so that a byte of either device is behind one of the other. Two configuration bytes the controller may come up with. U32 = 65536 stands for 2^32: the unsigned wrap needs a range larger than screen plus motion only |
| `wm` | Do clicks take what is seen, drags keep the pointer, keys go to the top window? | three windows on 4 x 3 pixels, one wider than the screen so that a drag takes it to a negative coordinate, while two can be painted; rows with and without padding, with and without back buffer; U32 = 16, so that negative coordinates wrap past the screen |
| `terminal` | Is scrollback kept and the command shown? | five lines of three characters, two of them visible, commands up to four; output adds up to three lines, so that with the buffer full some lines above the cursor stay and some go |
| `functions` | Do the functions of arguments and memory alone do what their callers rely on? | strings up to three of two bytes, one of them above 127, and counts around their length; moves overlapping either way; all conversions, flags and widths on the numbers where 4 and 8 bits turn; buffers of 0 to 6 for texts of 0 to 8; pages of 4 bytes and pairs of headers at every alignment, frames that run out; names of 1 to 20 bytes on three stack tops; up to three tags, padded and not; addresses with all bytes different and with bytes above 127; all 256 vectors; coordinates up to the wrap at 16 on a 3 x 2 screen |

Deadlock is checked except where the system really stops: a call returns
(`functions`), an exception halts the machine (`scheduler`, `ramfs`), `malloc`
never returns or `strncpy` never ends (`kmalloc`, `terminal`), input during
initialisation leaves the controller's interrupts disabled (`ps2_mouse`), the
model of `address_spaces` ends where the kernel goes astray.

Bounds that are guards of the model and not of the code: `MaxTasks` and
`MaxKernelTasks` (the code has none), `MaxWire` and `MaxOut` (bytes a controller
holds before the user moves on), `MaxKeyBurst` (keys between two sleeps; without
it an interrupt storm starves the loop, as on the machine), `MaxCalls` and
`MaxPools` (how often programs ask for pages, and the heap for pools),
`MaxRequest` and `MaxCount`.  What programs pass to brk and mmap is in the sets
`Breaks`, `Addresses` and `Lengths`; their calls that ask for nothing and the
other system calls are not counted.

## 4. Fairness

- `Scheduler`: the kernel goes on executing (weak fairness of its steps).  A
  program is not forced to do anything by the kernel, so that it exits in the
  end is an assumption about the three bundled programs: of all the system
  calls it keeps making, one is `exit` (strong fairness of that choice).
- `InputLoop`: the loop goes on (weak), and the timer ticks (strong: a tick
  that finds interrupts off is pending at the controller until they are on).
  No fairness is assumed of keyboard or mouse.
- `Ramfs`: cat goes on.
- `Ps2Mouse`: the processor goes on and takes the interrupt it is offered (weak
  fairness of the kernel's steps); nothing is assumed of the devices.  That the
  mouse finishes its packets is added for `Resynchronises` of section 6 only.

## 5. What is proved

`PmmProofs`, for every frame size, amount of low memory, boot layout and run
length, from `LayoutAssumption` (sizes positive, frame 0 in low memory, the hint
set at boot inside the map).  The inductive invariant is the conjunction of
`TypeOK`, `HeldNotFree`, `CriticalNeverHeld`, `AllocFailsOnlyWhenFull`.  They
need each other: that the answer 0 means failure rests on frame 0 never being
handed out, which is a case of `CriticalNeverHeld`, and that a held frame cannot
be handed out again on `HeldNotFree`.  One lemma says what handing out a run does
and two what each search finds; then there is one step per action.

- `NoDoubleAllocation`, `CriticalStaysReserved`: as in the run
- `TypeCorrect`: every variable keeps its type
- `FailureMeansFull`: `pmm_alloc` answers 0 only when every bit is set
- `Conservation`: only `pmm_mark_reserved` changes the frames in circulation
- `Refinement`: `Spec => ImplementsFrameAllocator`, initial state and each step

`SchedulerProofs`, for any number of tasks, from `BoundsAssumption`.  None of the
invariants is inductive: that a launch returns only after the exit depends on who
stands behind the boot task in the ring.  The strengthening `IInv` adds *Shape*
(no task twice in the ring, one boot task, where each kind of task can be),
*Suspended* (where a task that waits will resume, on its own stack), *BootWaits*
(the boot task is never dead, and ready with its flags saved while others run),
*ProgramRuns* (during `sched_yield` of `program_run` the new program is next in
the ring; whoever else runs, the program is running or dead) and *UserFlags*.
Lemmas state what `list_add` does to the ring and what `pick_next` returns.

- `StacksStaySeparate`, `RunWaitsForExit`, `DeadForGood`, `TypeCorrect`: as in the run
- `RunningTaskOwnsCpu`: the one running task has the processor's stack and tables
- `InterruptFlag`: ring 3 and system calls with IF clear, the boot task with IF set
- `AlwaysATask`: `sched_exit` always finds a task to switch to

`KmallocProofs`, for every frame size, pool size and set of frames, from
`HeapAssumption`.  `HeapInv` says of the free list that it ascends and that its
blocks and the live ones tile the pools (`HeapOK`), of the pools that they are
frames held from the allocator, and adds that free and held frames are apart,
without which two pools could overlap.  Lemmas follow the code: what inserting
into and removing from a sorted list does, then how cutting a block, joining two
and adding a pool keep a tiling (`TilesCut`, `TilesJoin`, `TilesAdd`), then one
lemma for each function of `kmalloc.c`.

- `BlocksTile`, `Writes`, `Stuck`, `HeldKept`: as in the run
- `NeverJoinsPrevious`: the loop that is to coalesce with the predecessor joins
  nothing in any heap, so the divergence of section 6 is not one of small bounds

`ConsoleProofs` follows what is typed from the keyboard to the screen.

*The driver*, for any keys and any number of bytes that wait, from
`KeysAssumption`.  What a run of bytes means depends on the byte before it, so
the invariant speaks of the whole wire: *Framed*, each byte is a prefix, or comes
behind one exactly if its key is an extended one; *Follows*, along the wire a
modifier changes only with its own bytes, from the driver's flag to the key that
is down now.

- `Ignored`, `AsTyped`: as in the run

*The ring*, for every number of slots above one and every set of events, from
`QueueAssumption`.  The invariant joins the ring's type correctness, which says
that what lies between head and tail are events, with *CopyCurrent*: an event that
`kbd_get_event` has copied is still the one at the head.  The interrupt writes
only the slot at the tail, which lemma `RingPlaces` shows to be none of those that
wait, so it may come between copy and release.  The copy is a stutter of the
abstract queue, the release its `Get`, the interrupt its `Put`; every other step
of the loop leaves the ring alone.

- `KeysInOrder`: `Spec => KeysComeInOrder`, the ring as the main loop and the
  keyboard interrupt use it implements `BoundedFifo`

*The terminal*, for buffers and windows of every size, any prompt and any output, from `TerminalAssumption`.  The invariant: *Fits*, no line
is longer than the window is wide, the cursor is within its line, and the lines
counted end at the cursor's (or are none, after `clear`); *Typed*, the characters
before the cursor are the command, as long as it fits the line.  The property counts the lines of a
text by itself (`LinesAdded`, from the cursor's column and the characters only).
`Put` says that each character moves cursor and buffer as it counts, and *Moved*
adds up (`MovedTwice`), so that a text that adds n lines, and no other number,
shifts those above the cursor by as many as the buffer lacks (`Prints`).

- `EchoShows`, `ScrollbackStays`: as in the run

`Ps2MouseProofs`, for any screen, motions and number of bytes that wait, from
`MouseAssumption`.  Two invariants: during initialisation *Polling*, what waits is
the reply to the command sent; afterwards *InFlight* and *Requested*: there is a
sequence of contents of the driver's buffer, one per byte that waits, that takes
what is in the buffer now to what the mouse has yet to send, and the one request
that there may be at the interrupt controller belongs to the first byte.

- `InStepForGood`, `NeverStranded`, `PointerFollows`: as in the run; the last
  contains the arithmetic of decoding nine-bit motions and of the clamp, whose
  unsigned comparisons wrap

`WmProofs`, for every screen, any number of windows of any size and every
packet, from `WmAssumption`.  The invariant: the list and the created windows are
the same, the focus is the top of the list, a drag holds a listed window whose
title bar has the pointer (*Drag*), and the picture is what `wm_paint` makes of
the present windows (*Painted*).  Painting is a function of the windows painted
so far, so that what is seen at a pixel is the last window that covers it
(`SeenLast`, by least counterexample); clamping keeps the grip of a drag
(`ClampedHolds`).

- `PointerHolds`, `TopHasKeys`, `ClickTakes`: as in the run

`AddressSpacesProofs`, for tables of every size, every memory, any programs, any
pages passed to brk and mmap and any bounds, from `LayoutAssumption` (images and
low memory end below the stacks, no frame of the kernel or the allocator is among
the boot tables).  All top levels share what lies below their first entry, so the
invariant *Inv* speaks of one tree: *Tree*, each table is at one place of one
level, and a page open to ring 3 is open on the way to it; *Apart*, the frames
that ring 3 may reach are one per page, allocated and no tables; *Owned*, each was
last written for a program; *Ident*, low memory is as at boot, but for the pages
of images and those that were ever asked for; *Ready*, image, stack and arguments
of the running program are there, but for the pages it asked for; *Backed*, the
pages it asked for are there, or no frame is left.  The places are not in the
model's state, so *Tree* takes them as a witness.

The lemmas follow the code from the leaves up.  A new table is loose until it is
linked (`Loose`, `LinkMiddle`, `LinkBottom`, the last with the split of a huge
page, which keeps every leaf), the user bits on the way change no leaf (`Marked`),
setting a leaf changes that one (`LeafSet`): together `MapPage`, that
`vmm_map_page` maps its page or stops, and in either case leaves every other page
as it was.  `Filled` adds the frame that was taken and what is written there,
`Loop` and `Turned` the loops over pages.  That a failed page means that no frame
is left, wherever in the descent it failed, is followed from `SpentAlloc` to
`GrowSpent`; frames that the kernel takes for itself are set aside from what ring
3 reaches (`Contiguous`, `AsidePool`, `AsideMalloc`, `AsideTask`).  `Launch` is a
whole launch with its failures, `GrowKeeps` a call that asks for pages, whatever
was mapped there, and `Translation` says that the processor's walk ends where the
leaf says.

- `KernelMapStays`, `ProgramsComplete`, `FramesStayExclusive`, `BreakStaysBacked`:
  as in the run
- `Invariant`: *Inv* in every state, failed launches and calls included

`CallsProofs`, first the functions without state of their own, from
`CallsAssumption` (what the calls may be: bytes are bytes, coordinates unsigned
numbers, load segments are not empty), `FramebufferAssumption`, `PrintkAssumption`
(a register is a whole number of hexadecimal digits) and `ElfLoadAssumption`.  The
invariant *Computed* of `Calls` says that what has returned is what the function
computes from a call of its family; what a function computes is then a lemma about
operators.  A loop of the code is a recursive function of the number of turns.
`Climbs` (what holds at 0 and passes from k - 1 to k holds up to any bound, by
least counterexample) stands for the induction over it: `Iterated` that there is
such a function, `Kept` that what each turn keeps holds behind all of them.

- `TrapsResume`: for every vector and code.
  `FrameIs` says word by word what entry pushes, `PoppedInTurn` what is popped.
- `StackHolds`: for every top and length of the name; what is left is the
  arithmetic of rounding down to 16 and of four words below it (`StackIs`)
- `TablesHold`: for every address and vector.  The fields of the tables are
  followed byte by byte into the slots the processor reads (`SlotsLie`,
  `SegmentReads`, `TssReads`, `GateReads`).
- `DrawsStay`: for every screen, glyph and coordinate, wrapped or not.  The
  loops of `fb.c` write only where they have clipped to (`Fills`, `GlyphInside`,
  `TextInside`, `BlitInside`).
- `ImagesLoad`: for every page size and every table of headers, wherever frames
  run out.  *PagesUpTo* says what the pages reached for one segment hold and that
  the others are left alone, *SegmentsUpTo* what the segments reached have left and
  that the break is above their pages; `PagesLoad` and `SegmentsLoad` lead each to
  its end, and `ImageIs` reads the image there.
- `StringsHold`: for every memory, and every call whose strings end and whose
  ranges are there (`Called`).  A loop that counts up to the first place of a kind
  is a least number (`MinIs`, `FirstAmong`); comparisons are decided at the first
  difference (`Ordered`, `Compared`); that no byte is read after it was written,
  upwards or downwards, is `Copies`, from which `CopyRange` says what a copy leaves.
- `RunsFound`: for any tags, of any size and order, and any names.  Padded tags
  stand 8 or more bytes apart (`PlacesRise`), so that the walk stops at each of them and
  nowhere else (`SeenAre`) and the first it finds is the first that was left
  (`FirstTag`); the table has an entry for each name that is there, as far as it has
  room, and no other (`RegisteredIs`).
- `NumbersHold`: for every width of register, conversion, flag, width and argument,
  and every text and size of buffer.  `Spells` says of a text that its characters are
  the remainders the loop over `uval` has found, from the last division back
  (`NumberIs`; for the serial line as many as a register has, `NibblesAre`).  Such a
  text reads back whatever spaces, signs and zeros stand before it and spaces
  behind it (`ReadsBack`), which is what the flags lead to (`NumericIs`).  What
  `ksprintf` leaves after k characters is written down for every k (`SprintfIs`).

Then cat, for any files, descriptors and buffer, from `RamfsAssumption` (as the
boot files: no larger than cat's buffer).  That cat prints its file whole and
once is not inductive: `close` may release the descriptor of another run, so what
a read returns depends on descriptors left open long ago.  *FilesInv* has two
phases: *FirstRead*, the descriptor is fresh and every other one is free or at the
end of its file; *ReadOnce*, after that no descriptor, whoever's, has anything
left, and what has been printed is the whole file.  Whatever register garbage
names for `close`, a later read finds nothing and the loop ends.

- `CatPrints`: `FsSpec => []CatPrintsFile`

Only model-checked:

- liveness (`ProgramRunReturns`, `QueuedKeysHandled`, `MouseNoticed`,
  `BytesGetRead`, `CatEnds`), out of the prover's reach;
- the statements of section 6, which fail.

## 6. Where the code does not do what its texts say

`kernel_image` is the run of a divergence: `pmm.c:133` reserves only the BSS, so
the frames of the kernel's code and data are free where the memory map has them,
while `docs/STATUS.md:22-23` says they are reserved.  The other statements below
are defined at the end of the module named.  Each fails under the configuration
of its module's run with the statement in place of the properties; those that
need other constants have a configuration of their own.

| Statement | Text | What happens |
|---|---|---|
| `Pmm`: `RunFailsOnlyWhenNone` | pmm.h:10 says of pmm_alloc_contiguous that it "returns physical address of `count` consecutive frames". | The second search stops at i + count <= last_hint (pmm.c:199) and the first starts at the hint, so a free run that straddles the hint is in neither range: the run shows a refusal while such a run exists. |
| `Pmm`: `HeldIsAvailable` | pmm.c:43 comments free_range "free [base, base+len)". | The code rounds the start down and the end up (pmm.c:48-49), which is right for reserving and not for freeing: a frame that is only partly available memory becomes free and the run hands it out. |
| `Scheduler`: `UserCodeSegment` | syscall.c:14 says "user CS in bits 63:48" of STAR, and task_enter_user enters ring 3 on the selector 0x1B. | SYSRETQ to 64-bit code adds 16 to that field: with 0x18 in it, a program is on the selector 0x2B after its first system call. |
| `InputLoop`: `CursorTracksMouse` | docs/STATUS.md:33-34 says "mouse cursor tracks injected PS/2 packets". | mouse_clear_dirty runs after wm_handle_mouse (kernel.c:170-171): a packet that arrives between the copy of the state and the clear loses its dirty flag, and with no further packet the pointer's last position is never handled. |
| `Kmalloc`: `NoAdjacentFree` | kmalloc.c:91 says "coalesce with previous". | The loop that looks for the predecessor stops at it with prev still one block behind (kmalloc.c:94-95), so the block tested for adjacency is the one before the predecessor and nothing is ever joined: the run shows two free blocks side by side that no later allocation can use as one. |
| `Keyboard`: `ShiftAsHeld` (`MCKeyboard_ShiftAsHeld.cfg`) | docs/STATUS.md:31 lists "shift/caps-lock". | Both shift keys set and clear one bit (keyboard.c:93-94): with both held, the release of either clears it and keys typed with the other still down come out unshifted. |
| `Ps2Mouse`: `Resynchronises` (`MCPs2Mouse_Resynchronises.cfg`) | mouse.c:56 says "not a valid packet start, resync". | The code drops all three bytes (mouse.c:54-58), so the position within the packet stays off by the same amount: the run shows packets that are misread for ever after one lost byte. |
| `AddressSpaces`: `IdentityMapped` | vmm.c:19 says "kernel is identity mapped, so phys == virt for < 4 GiB". | A program's pages are mapped into tables it shares with the kernel (vmm_map_page splits the 2 MiB pages at vmm.c:83-92), so a virtual address of the kernel's identity map then leads to a program's frame: the run touches a page table that is no longer where it is read. |
| `AddressSpaces`: `FreshAddressSpace` | docs/STATUS.md:62 says the loader "maps PT_LOAD segments into a fresh user address space". | vmm_create_pml4 copies the kernel's top-level entries (vmm.c:52-54) and with them the tables below: the pages of one program are mapped for the next one. |
| `Terminal`: `ActiveLineCounted` | terminal.h:14-15 says nlines is the "total lines in the buffer" and cur_line the "index of the active (input) line". | terminal_clear sets both to 0 (terminal.c:103-111) where terminal_create starts with one line: after a clear the active line is not among the lines counted. |
| `Terminal`: `EchoMatches` | docs/STATUS.md:33 says "keyboard echoes typed characters". | The backspace of terminal_putc does nothing in column 0 (terminal.c:69-73), and a command that wrapped continues on a new line: erasing back over the wrap removes characters from the command that stay on the screen. |
| `Terminal`: `CommandsRun` | docs/STATUS.md:42 says "the terminal shell runs commands". | The copy of the command uses strncpy (terminal.c:195), whose count is decremented once more when the loop stops on n (lib.c:77-78): for a command that fills the count, n wraps and the padding loop writes on without a bound, so the command never runs. |
| `Ramfs`: `DescriptorsReturned` | docs/STATUS.md:54-55 says cat "opens, reads, and prints a file via the open/read/close syscalls". | syscall_entry returns with rdi, rsi and rdx as the kernel left them (syscall_asm.S:46-50), so the close of cat may name another descriptor, and exit (syscall.c:119) returns none: the run ends a program with its descriptor still taken. |
| `Calls`: `LoadedAsLinked` | elf.c:102 says "copy file data, then zero the remainder of the page". | The copy goes to the start of the frame whatever the offset of the segment in its page (elf.c:111): data of a segment that does not start on a page boundary lands below its address. |
| `Calls`: `ArgcAtSp` | elf.c:134-136 says of elf_setup_stack "argc, argv[0..argc], NULL, envp[0..], NULL.  Returns the stack pointer." | Four words are pushed below a string aligned to 16, so the stack pointer is at 0 modulo 16 and is moved down by 8 (elf.c:157-158): what it points to is a word nobody wrote, argc is the next. |
| `Calls`: `FrameNamed` | docs/STATUS.md:20 lists "Exception handlers (print register state and halt)". | isr_common pushes r15 first and rax last, and isr_frame_t declares them in the order r15 to rax from the lowest address: the value printed as rax is r15's, and so on. |
| `Calls`: `RunTakesName` | terminal.c:129 prints "run PROG   run a user program". | Only one blank is skipped after `run` (terminal.c:35-36): with two, the name begins with a blank and no program has it. |
| `Ps2Mouse`: `BothEnabled` | keyboard.c:131 says "read and set config byte: enable IRQ1 (keyboard)", mouse.c:103 "read config byte, enable IRQ12 (bit 1)". | The byte is read from the port the devices answer on: a key or a movement before that is taken for the configuration, is written back with one bit set, and the other line may end up disabled. |
| `Wm`: `BlitShowsAll` (`MCWm_BlitShowsAll.cfg`) | wm.c:233 says "blit the back buffer to the real framebuffer". | One memcpy of width x height x 4 bytes is made (wm.c:235) whatever the pitch: with padded rows the picture is sheared and the bottom of the screen is not written. |
| `Wm`: `TopmostIsSeen` | wm.c:245 says "find topmost window under cursor". | The hit test is in signed coordinates, painting in unsigned: a window wider than the screen that was dragged to a negative coordinate is not painted at all and still takes the clicks over what is seen. |

The properties of section 3 are stated so that they hold in spite of these, so
each of them leaves out the case that fails.  `AddressSpaces` stops (`astray`) once
an access of the kernel goes through a mapping that a program replaced: to a page
table, a frame just taken, its code, the stack it runs on, the heap or a file.
`Terminal` stops once `strncpy` runs away.  Hazards of `PROJECT.json` that are for
this reason caught in part only say so in their notes: the partial first page of a
segment (`LoadedAsLinked`), descriptors that are not returned
(`DescriptorsReturned`), a packet before the flag is cleared (`CursorTracksMouse`),
a lost byte (`Resynchronises`), erasing over a wrap (`EchoMatches`), a command that
fills its buffer (`CommandsRun`), a blank too many (`RunTakesName`), the names of
registers (`FrameNamed`), an early byte of a device (`BothEnabled`), windows at
negative coordinates (`TopmostIsSeen`), shift (`ShiftAsHeld`), and the identity map
(`IdentityMapped`).

## 7. Plan

Done in this order: frame allocator with its abstract specification and proofs;
scheduler and ring crossings with proofs; key queue and main loop; heap;
address spaces and loader; devices; windows, terminal and files; interrupt entry
and controllers; the functions of `lib.c`, `printk.c`, `fb.c`, `gdt.c` and the
loader; painting; the proofs about the key queue, the heap, keyboard, mouse,
windows and address spaces; the terminal, cat, interrupt entry, tables, loader and
drawing; the string functions, the search for modules and the number conversions.

Every safety property that a passing run checks is now a theorem.  What is left is
out of the prover's reach (liveness) or out of the model (section 8).

## 8. Not modelled

- `boot.S` beyond its page tables (the switches of mode), and the order in which
  `kernel_main` initialises the components.
- `serial.c` and `port.h` but for the numbers: port I/O whose only state is the
  device.  `isr_table.c` is generated; its 256 names are taken to be in order.
- Pixel formats other than 32 bits, which the multiboot header does not ask for;
  the shapes of glyphs, of the close cross and of the pointer's arrow.
- `sched_run`, `sched_tick`, `sched_lock`, `sched_unlock`, `timer_set_callback`,
  `vmm_unmap_page`, `vmm_map_pages`, `vmm_map_2mb` and `vmm_free_pml4` have no
  caller, so time slices and the return of address spaces do not exist as the
  kernel is built.
- In `AddressSpaces`: pages above those that the first entry of the top level maps
  (512 GiB), should a program ask for them; write protection (no property is about
  the writable bit); addresses within a page, which the code rounds (a break up, an
  address of mmap down).  Of a kernel stack the frame at its top is watched, where
  the system calls run, and of the heap any frames that may be walked; the
  framebuffer and the multiboot information are not.  Buffers that programs pass
  to read and write are taken to be their own.
- The magic numbers of an ELF header, which `elf_load` tests: the modules are
  taken to be ELF files for this machine.
- The prompt is printed where the code prints it, but no property is about it.
- What `strncpy` writes after it has run past its buffer (the machine is taken to
  stop there), and arguments out of range, such as a width that overflows.
- Exceptions are the end of the system (`halted`); only the frame they print is
  in `TrapFrame`.
- `hello` and `primes`: what the kernel does for them is in `Scheduler` and
  `AddressSpaces`.  The host tools and build files.

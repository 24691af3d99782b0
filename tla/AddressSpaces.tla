--------------------------- MODULE AddressSpaces ----------------------------
(***************************************************************************)
(* Page tables and what fills them: vmm.c, the page loop of elf.c, the     *)
(* memory side of program_run (program.c, task.c) and the system calls brk *)
(* and mmap (syscall.c), all under src/src/.                               *)
(*                                                                         *)
(* Addresses are page numbers.  A table has N entries instead of 512; the  *)
(* boot tables map pages 0 .. N*N - 1 to themselves with huge pages.  The  *)
(* kernel reaches a frame at its physical address, through the page tables *)
(* in force, those of its own code, data, stack and heap too; when that    *)
(* leads elsewhere the model stops (astray).                               *)
(***************************************************************************)
EXTENDS Integers, FiniteSetsExt

CONSTANTS
  N,            \* entries in a table: 512
  KernelImage,  \* frames of the kernel's code and data and of the boot task's stack
  Heap,         \* frames of the heap's pools when the desktop is up
  File,         \* program -> frame of the module it is loaded from
  MemFrames,    \* frames the frame allocator has when the desktop is up
  Program,      \* the registered programs
  ImageStart,   \* where programs are linked: 0x400000
  ImageSize,    \* program -> pages of its segments
  StackPages,   \* pages of a user stack: 64
  KStackPages,  \* frames of a kernel stack: 4
  PoolPages,    \* frames of a pool of the heap: 17
  MaxPools,     \* bound: frames the heap takes for more pools
  Breaks,       \* pages that programs pass to brk
  Addresses,    \* pages that programs pass to mmap
  Lengths,      \* numbers of pages that programs pass to mmap
  MaxCalls      \* bound: calls of brk and mmap that ask for pages

\* The boot tables sit in the BSS.
KernelPml4 == 1
BootPdpt == 2
BootPd == 3

StackTop == N * N * N   \* 0x8000000000: the end of what pml4[0] maps

None == "none"

\* The frames the kernel had taken by then.
KernelFrames == KernelImage \cup Heap \cup {File[p] : p \in Program}

\* The kernel's tables map low memory, where all frames are; the stacks of
\* programs lie above it, the images below the stacks.  What programs pass is
\* any page that pml4[0] maps.
ASSUME LayoutAssumption ==
  /\ N \in Nat /\ N > 1
  /\ KernelFrames \subseteq (BootPd + 1) .. (N * N - 1)
  /\ MemFrames \subseteq (BootPd + 1) .. (N * N - 1) /\ MemFrames # {}
  /\ MemFrames \cap KernelFrames = {}
  /\ None \notin Program /\ "kernel" \notin Program
  /\ ImageStart \in Nat /\ ImageSize \in [Program -> Nat \ {0}]
  /\ StackPages \in Nat \ {0} /\ KStackPages \in Nat \ {0}
  /\ PoolPages \in Nat \ {0} /\ MaxPools \in Nat
  /\ N * N <= StackTop - StackPages
  /\ \A p \in Program : ImageStart + ImageSize[p] <= StackTop - StackPages
  /\ Breaks \subseteq 1 .. StackTop
  /\ Addresses \subseteq 0 .. (StackTop - 1) /\ Lengths \subseteq Nat
  /\ MaxCalls \in Nat

VARIABLES
  vm,        \* the memory: see Init
  running,   \* the program that runs, or None
  cr3,       \* the address space in force
  brk,       \* program_break
  kstack,    \* frames of the stack on which the kernel runs when it is called
  home,      \* the frame of the running program's task structure
  asked,     \* history: the pages the running program asked brk and mmap for
  named,     \* history: the pages any program asked them for
  calls      \* history: how often that was

vars == <<vm, running, cr3, brk, kstack, home, asked, named, calls>>

\* What is written into a frame: by or for whom, for which page, and what.
Tag(owner, page, what) == [owner |-> owner, page |-> page, what |-> what]
KernelTag(what) == Tag("kernel", 0, what)

Entry(to, user, huge) == [to |-> to, user |-> user, huge |-> huge]
Absent == Entry(0, FALSE, FALSE)
EmptyTable == [i \in 0 .. (N - 1) |-> Absent]

\* f with k mapped to v.
Put(f, k, v) == [x \in DOMAIN f \cup {k} |-> IF x = k THEN v ELSE f[x]]

Init ==
  /\ vm = [pt |-> (* the page tables, by frame *)
             [f \in {KernelPml4, BootPdpt, BootPd} |->
                CASE f = KernelPml4 -> [EmptyTable EXCEPT ![0] = Entry(BootPdpt, FALSE, FALSE)]
                  [] f = BootPdpt -> [EmptyTable EXCEPT ![0] = Entry(BootPd, FALSE, FALSE)]
                  [] f = BootPd -> [i \in 0 .. (N - 1) |-> Entry(i * N, FALSE, TRUE)]],
           mem |-> << >>,         \* frame -> what was written there last
           free |-> MemFrames,    \* frames the allocator may hand out
           last |-> Min(MemFrames),
           got |-> 0,             \* the frame that the last call returned
           err |-> FALSE,         \* an allocation failed
           astray |-> FALSE]
  /\ running = None /\ cr3 = KernelPml4 /\ brk = 0
  /\ kstack = KernelImage /\ home = 0 /\ asked = {} /\ named = {} /\ calls = 0

-----------------------------------------------------------------------------
(* Translation *)

I4(v) == ((v \div N) \div N) \div N
I3(v) == ((v \div N) \div N) % N
I2(v) == (v \div N) % N
I1(v) == v % N

\* The walk of the processor, and vmm_virt_to_phys: frame 0 for no mapping.
Lookup(pt, root, v) ==
  LET e4 == pt[root][I4(v)]
      e3 == IF e4.to = 0 THEN Absent ELSE pt[e4.to][I3(v)]
      e2 == IF e3.to = 0 THEN Absent ELSE pt[e3.to][I2(v)]
      user == e4.user /\ e3.user /\ e2.user
      e1 == IF e2.to = 0 /\ ~e2.huge THEN Absent ELSE pt[e2.to][I1(v)]
  IN  IF e2.huge THEN [frame |-> e2.to + I1(v), user |-> user]
                 ELSE [frame |-> e1.to, user |-> user /\ e1.user]

\* The kernel accesses each frame f of F at address f.
TouchAll(s, F) ==
  [s EXCEPT !.astray = s.astray \/ \E f \in F : Lookup(s.pt, cr3, f).frame # f]

Touch(s, f) == TouchAll(s, {f})

\* It goes on executing, in the tables as they are now.
GoOn(s) == TouchAll(s, KernelImage \cup kstack)

Stopped(s) == s.err \/ s.astray

\* Mutant of pmm_alloc.
pmm_alloc_BitKept(s) ==
  LET ahead == {f \in s.free : f >= s.last}
      f == Min(IF ahead # {} THEN ahead ELSE s.free)
  IN  IF s.free = {} THEN [s EXCEPT !.err = TRUE]
      ELSE [s EXCEPT !.got = f, !.last = f + 1]

\* pmm_alloc: see Pmm.
pmm_alloc(s) ==
  LET ahead == {f \in s.free : f >= s.last}
      f == Min(IF ahead # {} THEN ahead ELSE s.free)
  IN  IF s.free = {} THEN [s EXCEPT !.err = TRUE]
      ELSE [s EXCEPT !.got = f, !.free = s.free \ {f}, !.last = f + 1]

\* pmm_alloc_contiguous, for a use of the kernel's: see Pmm.
pmm_alloc_contiguous(s, n, tag) ==
  LET run(i) == i .. (i + n - 1)
      runs == {i \in s.free : run(i) \subseteq s.free}
      ahead == {i \in runs : i >= s.last}
      behind == {i \in runs : i + n <= s.last}
      got == Min(IF ahead # {} THEN ahead ELSE behind)
  IN  IF ahead = {} /\ behind = {} THEN [s EXCEPT !.err = TRUE]
      ELSE [s EXCEPT !.got = got, !.free = s.free \ run(got),
                     !.last = IF ahead # {} THEN got + n ELSE s.last,
                     !.mem = [f \in DOMAIN s.mem \cup run(got) |->
                                IF f \in run(got) THEN tag ELSE s.mem[f]]]

\* A frame for a page table, zeroed.
alloc_table(s) ==
  LET a == pmm_alloc(s)
  IN  IF a.err THEN a
      ELSE [Touch(a, a.got) EXCEPT !.pt = Put(@, a.got, EmptyTable),
                                   !.mem = Put(@, a.got, KernelTag("table"))]

-----------------------------------------------------------------------------
(* vmm.c *)

\* Mutant of Below.
Below_NotSplit(e) == EmptyTable

\* What a new table below the entry e holds: a huge page is split into N pages
\* with the flags it had.
Below(e) ==
  IF e.huge THEN [k \in 0 .. (N - 1) |-> Entry(e.to + k, e.user, FALSE)] ELSE EmptyTable

Follow(s, t, to) == [Touch(s, t) EXCEPT !.got = to]

\* The table that alloc_table has made is linked at entry i of table t, which was e.
Link(a, t, i, e, up) ==
  [a EXCEPT !.pt[a.got] = Below(e), !.pt[t][i] = Entry(a.got, up, FALSE)]

\* One level of vmm_map_page's descent, to the table below entry i of table t,
\* which is made if there is none.
Descend(s, t, i, up) ==
  LET e == s.pt[t][i]
      a == alloc_table(Touch(s, t))
  IN  CASE Stopped(s) -> s
        [] ~Stopped(s) /\ e.to # 0 /\ ~e.huge -> Follow(s, t, e.to)
        [] ~Stopped(s) /\ (e.to = 0 \/ e.huge) -> IF Stopped(a) THEN a ELSE Link(a, t, i, e, up)

\* Mutant of SetUser.
SetUser_LeafOnly(s, t, i, up) == s

SetUser(s, t, i, up) == [s EXCEPT !.pt[t][i].user = @ \/ up]

SetLeaf(s, t, i, frame, up) == [Touch(s, t) EXCEPT !.pt[t][i] = Entry(frame, up, FALSE)]

\* The user bit on the way down, by which the three tables were reached, and the leaf.
MapLeaf(pdpt, pd, pt, root, v, frame, up) ==
  IF Stopped(pt) THEN pt
  ELSE GoOn(SetLeaf(SetUser(SetUser(SetUser(pt, root, I4(v), up), pdpt.got, I3(v), up),
                            pd.got, I2(v), up),
                    pt.got, I1(v), frame, up))

\* The element of a set of one: what is bound as its element is evaluated once.
Only(S) == CHOOSE x \in S : TRUE

\* The descent, level by level, and the leaf.
vmm_map_page(s, root, v, frame, up) ==
  Only({Only({Only({MapLeaf(pdpt, pd, pt, root, v, frame, up) :
    pt \in {Descend(pd, pd.got, I2(v), up)}}) :
    pd \in {Descend(pdpt, pdpt.got, I3(v), up)}}) :
    pdpt \in {Descend(s, root, I4(v), up)}})

\* The frame is not given back when the mapping fails, and is not cleared.
vmm_alloc_page(s, root, v, tag) ==
  LET a == pmm_alloc(s)
  IN  CASE Stopped(s) -> s
        [] ~Stopped(s) /\ a.err -> a
        [] ~Stopped(s) /\ ~a.err ->
             [vmm_map_page(a, root, v, a.got, TRUE) EXCEPT !.mem = Put(@, a.got, tag)]

\* The top level is copied: what lies below it is shared.
vmm_create_pml4(s) ==
  LET a == alloc_table(s)
  IN  IF Stopped(a) THEN a ELSE [a EXCEPT !.pt[a.got] = a.pt[KernelPml4]]

-----------------------------------------------------------------------------
(* elf.c, program.c, task.c *)

Stack == (StackTop - StackPages) .. (StackTop - 1)

Image(p) == ImageStart .. (ImageStart + ImageSize[p] - 1)

\* The stack, page by page.
map_stack(s, root, p) ==
  LET page(k) == StackTop - StackPages + k - 1
      after[k \in 0 .. StackPages] ==
        IF k = 0 THEN s ELSE vmm_alloc_page(after[k - 1], root, page(k), Tag(p, page(k), "data"))
  IN  after[StackPages]

\* got is the new pml4.
elf_create_pml4(p) ==
  LET a == vmm_create_pml4(vm)
  IN  [map_stack(a, a.got, p) EXCEPT !.got = a.got]

\* A page of a segment: a frame, its mapping, the copy of the file's bytes.
load_page(s, root, p, v) ==
  LET a == pmm_alloc(s)
      m == vmm_map_page(a, root, v, a.got, TRUE)
  IN  CASE Stopped(s) -> s
        [] ~Stopped(s) /\ a.err -> a
        [] ~Stopped(s) /\ ~a.err /\ m.err -> [m EXCEPT !.free = @ \cup {a.got}]
        [] ~Stopped(s) /\ ~a.err /\ ~m.err ->
             [TouchAll(m, {a.got, File[p]}) EXCEPT !.mem = Put(@, a.got, Tag(p, v, "data"))]

\* The headers are read from the file, then page after page.
elf_load(s, root, p) ==
  LET after[k \in 0 .. ImageSize[p]] ==
        IF k = 0 THEN Touch(s, File[p]) ELSE load_page(after[k - 1], root, p, ImageStart + k - 1)
  IN  after[ImageSize[p]]

\* argc and argv are written below the top of the stack, through the page
\* tables in force, which are not the program's.
elf_setup_stack(s, p) ==
  IF Stopped(s) THEN s
  ELSE [s EXCEPT !.mem = Put(@, Lookup(s.pt, cr3, StackTop - 1).frame,
                             Tag(p, StackTop - 1, "argv"))]

Pools(s) == {f \in DOMAIN s.mem : s.mem[f] = KernelTag("pool")}

\* add_pool writes the header of the new block.
add_pool(s) ==
  LET a == pmm_alloc_contiguous(s, PoolPages, KernelTag("pool"))
  IN  IF a.err THEN a ELSE Touch(a, a.got)

\* malloc of the task structure walks the blocks of the heap's pools up to one
\* that has room, or adds a pool; got is the frame where the structure lies.
\* With no frames for a pool malloc never returns (see Kmalloc): no outcome.
malloc(s) ==
  LET heap == Heap \cup Pools(s)
      walks == {TouchAll(s, walked) : walked \in SUBSET heap}
  IN  IF Stopped(s) THEN {s}
      ELSE {[Touch(w, f) EXCEPT !.got = f] : w \in walks, f \in heap}
           \cup {a \in {add_pool(w) : w \in walks} :
                  ~a.err /\ Cardinality(Pools(a)) <= MaxPools}

\* task_create_user: the structure at `at` is cleared, the kernel stack gets its
\* first words at its top, and when there is none the structure is freed.
task_create_user(s, at) ==
  LET a == pmm_alloc_contiguous(s, KStackPages, KernelTag("stack"))
  IN  CASE Stopped(s) -> s
        [] ~Stopped(s) /\ a.err -> Touch(a, at)
        [] ~Stopped(s) /\ ~a.err -> TouchAll(a, {at, a.got + KStackPages - 1})

\* A failure anywhere returns to the shell; nothing is given back.  When none is
\* met sched_yield switches to the new task, which is found in the heap.
program_run(p) ==
  /\ ~vm.astray /\ running = None
  /\ \E a \in {elf_create_pml4(p)} : \E b \in {elf_load(a, a.got, p)} :
     \E m \in malloc(elf_setup_stack(b, p)) : \E c \in {task_create_user(m, m.got)} :
       /\ brk' = IF Stopped(b) THEN brk ELSE ImageStart + ImageSize[p]
       /\ vm' = [c EXCEPT !.err = FALSE]
       /\ \/ /\ Stopped(c)
             /\ UNCHANGED <<running, cr3, kstack, home, asked>>
          \/ /\ ~Stopped(c)
             /\ running' = p
             /\ cr3' = a.got
             /\ kstack' = {c.got + KStackPages - 1}
             /\ home' = m.got
             /\ asked' = {}
  /\ UNCHANGED <<named, calls>>

\* sched_exit marks the task dead and looks for the next one along the ring; the
\* boot task goes on.  All frames stay where they are.
program_exit ==
  /\ ~vm.astray /\ running # None
  /\ running' = None /\ cr3' = KernelPml4 /\ kstack' = KernelImage /\ home' = 0 /\ asked' = {}
  /\ \E ring \in SUBSET (Heap \cup Pools(vm)) : vm' = TouchAll(vm, ring \cup {home} \cup kstack)
  /\ UNCHANGED <<brk, named, calls>>

\* What else the kernel does, for the desktop between programs and in the other
\* system calls of one (write prints to the terminal, open and read go to the
\* files): it uses its stack and some of what it has in the heap.
desktop ==
  /\ ~vm.astray
  /\ \E used \in SUBSET (Heap \cup Pools(vm) \cup {File[p] : p \in Program}) :
       vm' = TouchAll(GoOn(vm), used)
  /\ UNCHANGED <<running, cr3, brk, kstack, home, asked, named, calls>>

-----------------------------------------------------------------------------
(* System calls; the loops go on when a page cannot be had. *)

\* The memory after each of n pages; what such a page holds is not cleared.
GrowPages(from, n) ==
  LET page(k) == from + k - 1
      after[k \in 0 .. n] ==
        IF k = 0 THEN vm
        ELSE vmm_alloc_page([after[k - 1] EXCEPT !.err = FALSE], cr3, page(k),
                            Tag(running, page(k), "new"))
  IN  after

Asks(pages) ==
  /\ calls < MaxCalls /\ calls' = calls + 1
  /\ asked' = asked \cup pages /\ named' = named \cup pages

\* Mutant of Grow.
Grow_LastPageMissing(from, n) ==
  /\ vm' = [GrowPages(from, n)[IF n = 0 THEN 0 ELSE n - 1] EXCEPT !.err = FALSE]
  /\ Asks(from .. (from + n - 1))

Grow(from, n) ==
  /\ vm' = [GrowPages(from, n)[n] EXCEPT !.err = FALSE]
  /\ Asks(from .. (from + n - 1))

\* Any address will do: pages below the break stay, so that a break that comes
\* down and goes up again maps new frames over what is there.
sys_brk(new) ==
  /\ ~vm.astray /\ running # None
  /\ IF new > brk THEN Grow(brk, new - brk) ELSE UNCHANGED <<vm, asked, named, calls>>
  /\ brk' = new
  /\ UNCHANGED <<running, cr3, kstack, home>>

\* mmap(NULL, n pages): the new pages follow the break, which moves behind them.
sys_mmap(n) ==
  /\ ~vm.astray /\ running # None
  /\ brk + n <= StackTop
  /\ Grow(brk, n)
  /\ brk' = brk + n
  /\ UNCHANGED <<running, cr3, kstack, home>>

\* mmap(addr, n pages): wherever the program says, whatever is there.
sys_mmap_at(addr, n) ==
  /\ ~vm.astray /\ running # None
  /\ addr + n <= StackTop
  /\ Grow(addr, n)
  /\ UNCHANGED <<running, cr3, brk, kstack, home>>

Next ==
  \/ \E p \in Program : program_run(p)
  \/ program_exit
  \/ desktop
  \/ \E new \in Breaks : sys_brk(new)
  \/ \E n \in Lengths : sys_mmap(n)
  \/ \E addr \in Addresses, n \in Lengths : sys_mmap_at(addr, n)

Spec == Init /\ [][Next]_vars

-----------------------------------------------------------------------------
(* Properties *)

Mapped(root, v) == Lookup(vm.pt, root, v)

Written(v) == vm.mem[Mapped(cr3, v).frame]

\* What ring 3 can reach in the address space in force.
UserPages == {v \in 0 .. (StackTop - 1) : Mapped(cr3, v).user /\ Mapped(cr3, v).frame # 0}

Images == UNION {Image(p) : p \in Program}

\* Every page of low memory that no program is linked at and none has asked for
\* leads to itself, for the kernel only, in each address space: the copy of the
\* top level, the split of a huge page and the user bits on the way down leave
\* alone what a mapping is not about, wherever programs ask for pages.
KernelMapKept ==
  ~vm.astray =>
    \A root \in {KernelPml4, cr3}, v \in (0 .. (N * N - 1)) \ (Images \cup named) :
      Mapped(root, v) = [frame |-> v, user |-> FALSE]

\* As long as the kernel's accesses went where they should, a program finds each
\* page of its image and of its stack in a frame that holds it, argc and argv
\* included, which the kernel wrote through its own page tables; nothing that it
\* or the kernel does later takes a page away but its own asking for new ones
\* there.
ProgramComplete ==
  running # None /\ ~vm.astray =>
    /\ \A v \in Image(running) \ asked : v \in UserPages /\ Written(v) = Tag(running, v, "data")
    /\ Stack \ asked \subseteq UserPages
    /\ StackTop - 1 \notin asked => Written(StackTop - 1) = Tag(running, StackTop - 1, "argv")

\* No frame that ring 3 reaches is reached twice, free, or in use by the
\* kernel as a page table, a kernel stack or a part of the heap.
FramesExclusive ==
  running # None /\ ~vm.astray =>
    \A v \in UserPages :
      /\ Mapped(cr3, v).frame \in MemFrames \ (vm.free \cup DOMAIN vm.pt)
      /\ Written(v).owner # "kernel"
      /\ \A w \in UserPages \ {v} : Mapped(cr3, w).frame # Mapped(cr3, v).frame

\* brk and mmap do not report a page they could not get.  Each page that the
\* program asked for is there, new and its own, or there is no frame left: a
\* failure in the middle of a call loses no page as long as there is memory.
BreakBacked ==
  running # None /\ ~vm.astray =>
    \A v \in asked :
      \/ v \in UserPages /\ Written(v) = Tag(running, v, "new")
      \/ vm.free = {}

-----------------------------------------------------------------------------
(* What a comment and the documentation say and the code does not do *)

\* src/src/vmm.c:19, "kernel is identity mapped, so phys == virt for < 4 GiB":
\* the kernel finds every frame it uses at its physical address.
IdentityMapped == ~vm.astray

\* docs/STATUS.md, "maps `PT_LOAD` segments into a fresh user address space":
\* when a program starts, ring 3 reaches its image and stack and nothing else.
FreshAddressSpace ==
  [][running = None /\ running' # None =>
       UserPages' = Image(running') \cup Stack]_vars
=============================================================================

-------------------------------- MODULE Pmm ---------------------------------
(***************************************************************************)
(* The physical memory manager (src/src/pmm.c): a bitmap of frames and the *)
(* next-fit hint last_alloc.  The bitmap is the set of frames whose bit is *)
(* clear.  No interrupt handler calls the allocator and there is one CPU,  *)
(* so each call is one step.                                               *)
(***************************************************************************)
EXTENDS BootMemory

CONSTANT MaxCount   \* largest run of frames a caller asks for

VARIABLES
  boot,   \* the layout this machine booted with; never changes
  free,   \* frames whose bitmap bit is clear
  last,   \* last_alloc >> 12, where the next search starts
  held,   \* frames handed out and not given back (what the callers own)
  reply   \* the last call and the frame it returned, 0 for failure

vars == <<boot, free, last, held, reply>>

Total == TotalFrames(boot)

Run(i, n) == i .. (i + n - 1)

Reply(op, n, frame) == [op |-> op, count |-> n, frame |-> frame]

Lowest(i, S) == i \in S /\ \A j \in S : i <= j

Init ==
  /\ boot \in Layouts
  /\ free = FreeAtBoot(boot)
  /\ last = LowMemory \div FrameSize
  /\ held = {}
  /\ reply = Reply("pmm_init", 0, 0)

\* Mutant of HandOut.
HandOut_FirstBitOnly(i, n) ==
  /\ free' = free \ {i}
  /\ held' = held \cup Run(i, n)

\* bm_set for the n frames from i on, which now belong to the caller.
HandOut(i, n) ==
  /\ free' = free \ Run(i, n)
  /\ held' = held \cup Run(i, n)

Refuse == UNCHANGED <<free, held, last>>

-----------------------------------------------------------------------------
\* The two loops of pmm_alloc: from the hint to the end, then up to the hint.
FromHint == {i \in last .. (Total - 1) : i \in free}
UpToHint == {i \in 0 .. (last - 1) : i \in free}

pmm_alloc ==
  /\ UNCHANGED boot
  /\ \/ \E i \in FromHint :
          /\ Lowest(i, FromHint)
          /\ HandOut(i, 1)
          /\ last' = i + 1
          /\ reply' = Reply("pmm_alloc", 1, i)
     \/ /\ FromHint = {}
        /\ \E i \in UpToHint :
             /\ Lowest(i, UpToHint)
             /\ HandOut(i, 1)
             /\ last' = i + 1
             /\ reply' = Reply("pmm_alloc", 1, i)
     \/ /\ FromHint = {} /\ UpToHint = {}
        /\ Refuse
        /\ reply' = Reply("pmm_alloc", 1, 0)

\* The two loops of pmm_alloc_contiguous: runs that start at or after the
\* hint, then runs that end at or before it.  Only the first moves the hint.
RunsFromHint(n) == {i \in last .. (Total - n) : Run(i, n) \subseteq free}
\* Mutant of RunsUpToHint.
RunsUpToHint_FirstFrameOnly(n) == {i \in 0 .. (last - n) : i \in free}

RunsUpToHint(n) == {i \in 0 .. (last - n) : Run(i, n) \subseteq free}

pmm_alloc_contiguous(n) ==
  /\ UNCHANGED boot
  /\ \/ \E i \in RunsFromHint(n) :
          /\ n > 0
          /\ Lowest(i, RunsFromHint(n))
          /\ HandOut(i, n)
          /\ last' = i + n
          /\ reply' = Reply("pmm_alloc_contiguous", n, i)
     \/ /\ n > 0 /\ RunsFromHint(n) = {}
        /\ \E i \in RunsUpToHint(n) :
             /\ Lowest(i, RunsUpToHint(n))
             /\ HandOut(i, n)
             /\ UNCHANGED last
             /\ reply' = Reply("pmm_alloc_contiguous", n, i)
     \/ /\ n = 0 \/ (RunsFromHint(n) = {} /\ RunsUpToHint(n) = {})
        /\ Refuse
        /\ reply' = Reply("pmm_alloc_contiguous", n, 0)

\* A caller gives back a frame it owns; the code does not check that it does.
pmm_free(f) ==
  /\ f \in held
  /\ free' = IF f < Total THEN free \cup {f} ELSE free
  /\ held' = held \ {f}
  /\ reply' = Reply("pmm_free", 1, f)
  /\ UNCHANGED <<boot, last>>

pmm_mark_reserved(base, len) ==
  /\ free' = free \ FramesOf(boot, Region(base, len))
  /\ reply' = Reply("pmm_mark_reserved", 0, 0)
  /\ UNCHANGED <<boot, held, last>>

Next ==
  \/ pmm_alloc
  \/ \E n \in 0 .. MaxCount : pmm_alloc_contiguous(n)
  \/ \E f \in held : pmm_free(f)
  \/ \E f \in Frame(boot), n \in 1 .. MaxCount :
       pmm_mark_reserved(f * FrameSize, n * FrameSize)

Spec == Init /\ [][Next]_vars

-----------------------------------------------------------------------------
(* Properties *)

\* The bitmap and the hint stay inside the map and the replies are frames.
TypeOK ==
  /\ boot \in Layouts
  /\ free \subseteq Frame(boot)
  /\ held \subseteq Frame(boot)
  /\ last \in 0 .. Total
  /\ reply.frame \in {0} \cup Frame(boot)

\* No frame a caller owns can be handed out a second time: its bit stays set
\* whatever mixture of single-frame and run allocations led here.
HeldNotFree == free \cap held = {}

\* No caller ever owns a frame of low memory, of the BSS (the boot page tables
\* and stack), of the bitmap, of the framebuffer, of the boot information or
\* of a loaded program: pmm_init's order of freeing and reserving, and every
\* later free, keep them out of circulation.
CriticalNeverHeld == (free \cup held) \cap ReservedAtBoot(boot) = {}

\* pmm_alloc answers 0 only when every bit is set: its two loops cover the
\* whole map, and 0 is never the address of a frame it hands out
\* (src/src/pmm.h:8, "0 on failure").
AllocFailsOnlyWhenFull ==
  reply.op = "pmm_alloc" /\ reply.frame = 0 => free = {}

\* No call other than pmm_mark_reserved loses or invents a frame.
FramesConserved ==
  [][reply'.op # "pmm_mark_reserved" => free' \cup held' = free \cup held]_vars

\* The bitmap allocator with its hint implements the abstract allocator.
FA == INSTANCE FrameAllocator
ImplementsFrameAllocator == FA!Spec

-----------------------------------------------------------------------------
(* What the code or its documentation says and the code does not do *)

\* docs/STATUS.md says that the manager "reserves kernel/low-memory/...".
KernelImageNeverHeld == held \cap FramesOf(boot, boot.image) = {}

\* src/src/pmm.h:10, "returns physical address of `count` consecutive frames":
\* a request is refused only when no such run is free.
RunFailsOnlyWhenNone ==
  reply.op = "pmm_alloc_contiguous" /\ reply.count > 0 /\ reply.frame = 0
    => \A i \in Frame(boot) : ~(Run(i, reply.count) \subseteq free)

\* src/src/pmm.c:43, "free [base, base+len)": what becomes allocatable is
\* available memory and nothing beside it.
HeldIsAvailable == \A f \in held : WhollyAvailable(boot, f)
=============================================================================

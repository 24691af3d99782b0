----------------------------- MODULE BootMemory -----------------------------
(***************************************************************************)
(* pmm_init (src/src/pmm.c): from the memory map and the regions that GRUB *)
(* and the linker lay out, which frames does the bitmap say are free?      *)
(*                                                                         *)
(* A region is [base, len] in bytes, as in the code; rounding to frames is *)
(* done where the code does it.  A boot layout is a record:                *)
(*   avail    type-1 (available) entries of the multiboot2 memory map      *)
(*   image    the kernel's .text, .rodata and .data, [1 MiB, __bss_start)  *)
(*   bss      [__bss_start, __bss_end)                                     *)
(*   fb       the framebuffer (the kernel halts earlier if there is none)  *)
(*   info     the multiboot2 information structure                         *)
(*   modules  the programs GRUB loaded                                     *)
(***************************************************************************)
EXTENDS FiniteSetsExt

CONSTANTS
  FrameSize,   \* FRAME_SIZE, bytes per frame
  LowMemory,   \* 0x100000, bytes below which BIOS, VGA and the IVT live
  Layouts      \* the boot layouts considered

Region(base, len) == [base |-> base, len |-> len]

RegionEnd(r) == r.base + r.len

\* total_frames: up to the highest byte of available memory, rounded up.
TotalFrames(b) ==
  (Max({0} \cup {RegionEnd(r) : r \in b.avail}) + FrameSize - 1) \div FrameSize

Frame(b) == 0 .. (TotalFrames(b) - 1)

\* The frames whose bit reserve_range and free_range touch: every frame with
\* at least one byte in the region, ends rounded outwards, none beyond the map.
FramesOf(b, r) ==
  IF r.len = 0
  THEN {}
  ELSE {f \in Frame(b) : /\ r.base \div FrameSize <= f
                         /\ f <= (r.base + r.len - 1) \div FrameSize}

\* The bitmap sits on the first frame boundary after the BSS; one u32 holds
\* the bits of 32 frames.
BitmapRegion(b) ==
  Region(((RegionEnd(b.bss) + FrameSize - 1) \div FrameSize) * FrameSize,
         ((TotalFrames(b) + 31) \div 32) * 4)

\* The regions pmm_init reserves again after freeing the available ranges.
ReservedRegions(b) ==
  {Region(0, LowMemory), b.bss, BitmapRegion(b), b.fb, b.info} \cup b.modules

FramesOfAll(b, regions) == UNION {FramesOf(b, r) : r \in regions}

\* Mutant of FreeAtBoot.
FreeAtBoot_ReservedFirst(b) == FramesOfAll(b, b.avail)

\* The clear bits when pmm_init returns: all frames start reserved (0xFF), the
\* available ranges are freed, then the special regions are reserved again.
FreeAtBoot(b) == FramesOfAll(b, b.avail) \ FramesOfAll(b, ReservedRegions(b))

ReservedAtBoot(b) == FramesOfAll(b, ReservedRegions(b))

\* Frame f holds nothing but available memory.
WhollyAvailable(b, f) ==
  \A a \in (f * FrameSize) .. (f * FrameSize + FrameSize - 1) :
    \E r \in b.avail : r.base <= a /\ a < RegionEnd(r)

\* The machine has more than its low memory, so the hint starts in the map.
ASSUME LayoutAssumption ==
  /\ FrameSize \in Nat \ {0}
  /\ LowMemory \in Nat \ {0}
  /\ \A b \in Layouts : /\ TotalFrames(b) \in Nat
                        /\ LowMemory \div FrameSize <= TotalFrames(b)
=============================================================================

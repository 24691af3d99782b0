------------------------------- MODULE MCPmm --------------------------------
(* Two boot layouts of a dozen four-byte frames.  `compact` is one range of  *)
(* memory with the boot information and a program after the bitmap, their    *)
(* ends unaligned.  `holed` has a hole, a framebuffer inside the range, two  *)
(* programs and a range that ends inside a frame.                            *)
EXTENDS Pmm

Compact ==
  [avail |-> {Region(0, 44)}, image |-> Region(4, 4), bss |-> Region(8, 3),
   fb |-> Region(400, 16), info |-> Region(18, 4), modules |-> {Region(24, 2)}]

Holed ==
  [avail |-> {Region(0, 3), Region(4, 22), Region(32, 14)},
   image |-> Region(4, 3), bss |-> Region(8, 4), fb |-> Region(36, 4),
   info |-> Region(16, 3), modules |-> {Region(20, 1), Region(33, 0)}]

MCLayouts == {Compact, Holed}
=============================================================================

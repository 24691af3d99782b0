--------------------------- MODULE MCAddressSpaces --------------------------
(* Tables of five entries: 25 frames are identity mapped, 0 to 3 belong to   *)
(* the kernel, and the programs are linked at the last of the huge pages.    *)
EXTENDS AddressSpaces

MCFile == [p \in Program |-> IF p = "cat" THEN 6 ELSE 7]

MCMemFrames == 8 .. 24

MCImageSize == [p \in Program |-> IF p = "cat" THEN 2 ELSE 1]
=============================================================================

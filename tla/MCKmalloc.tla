----------------------------- MODULE MCKmalloc ------------------------------
(* Three frames of four units and pools of one or two frames: a pool holds   *)
(* up to four blocks, and pools appear next to each other or with a frame of *)
(* another caller between them, in either order of address.                  *)
EXTENDS Kmalloc

MCMemFrames == 1 .. 3
=============================================================================

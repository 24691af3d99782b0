--------------------------- MODULE FrameAllocator ---------------------------
(***************************************************************************)
(* What a caller of the physical memory manager relies on (src/src/pmm.h): *)
(* every frame is either free, owned by exactly one caller, or retired for *)
(* good; a frame is handed out only while it is free; a request for one    *)
(* frame is refused only when there is none.  Which free frame is chosen   *)
(* is left open, and a request for a run of frames may be refused.         *)
(***************************************************************************)
EXTENDS Integers

CONSTANT MaxCount   \* largest run of frames a caller asks for

VARIABLES
  free,   \* frames that may be handed out
  held,   \* frames that some caller owns
  reply   \* the last call, its count and the frame it returned, 0 for failure

faVars == <<free, held, reply>>

Answer(op, n, frame) == reply' = [op |-> op, count |-> n, frame |-> frame]

Init == held = {} /\ reply = [op |-> "pmm_init", count |-> 0, frame |-> 0]

Take(S) == S \subseteq free /\ free' = free \ S /\ held' = held \cup S

AllocOne ==
  \/ \E f \in free : Take({f}) /\ Answer("pmm_alloc", 1, f)
  \/ free = {} /\ UNCHANGED <<free, held>> /\ Answer("pmm_alloc", 1, 0)

AllocRun(n) ==
  \/ \E f \in free : /\ n > 0
                     /\ Take(f .. (f + n - 1))
                     /\ Answer("pmm_alloc_contiguous", n, f)
  \/ UNCHANGED <<free, held>> /\ Answer("pmm_alloc_contiguous", n, 0)

Release ==
  \E f \in held :
    held' = held \ {f} /\ free' = free \cup {f} /\ Answer("pmm_free", 1, f)

\* Frames taken out of circulation; their owners are not disturbed.
Retire ==
  free' \subseteq free /\ held' = held /\ Answer("pmm_mark_reserved", 0, 0)

Next ==
  AllocOne \/ (\E n \in 0 .. MaxCount : AllocRun(n)) \/ Release \/ Retire

Spec == Init /\ [][Next]_faVars
=============================================================================

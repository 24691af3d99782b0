----------------------------- MODULE PmmProofs ------------------------------
(***************************************************************************)
(* The allocator's invariants and its refinement, for every frame size,    *)
(* every amount of low memory and every boot layout.  The inductive        *)
(* invariant joins the four invariants that TLC checks: type correctness   *)
(* puts what is freed inside the map, CriticalNeverHeld is what keeps      *)
(* frame 0 from being handed out, and so what makes the answer 0 mean      *)
(* "none left".                                                            *)
(***************************************************************************)
EXTENDS Pmm, TLAPS

IInv == TypeOK /\ HeldNotFree /\ CriticalNeverHeld /\ AllocFailsOnlyWhenFull

\* The map of any layout is finite, starts at frame 0, and the search hint
\* that pmm_init sets lies inside it.
LEMMA MapBounds ==
  ASSUME NEW b \in Layouts
  PROVE  /\ TotalFrames(b) \in Nat
         /\ Frame(b) = 0 .. (TotalFrames(b) - 1)
         /\ LowMemory \div FrameSize \in 0 .. TotalFrames(b)
<1>1. /\ FrameSize \in Nat \ {0} /\ LowMemory \in Nat \ {0}
      /\ TotalFrames(b) \in Nat /\ LowMemory \div FrameSize <= TotalFrames(b)
  BY LayoutAssumption
<1>2. LowMemory \div FrameSize \in Nat
  BY <1>1, SMT
<1> QED
  BY <1>1, <1>2, SMT DEF Frame

\* Frame 0, whose address is the failure value, is reserved at boot.
LEMMA FrameZeroReserved ==
  ASSUME NEW b \in Layouts, 0 \in Frame(b)
  PROVE  0 \in ReservedAtBoot(b)
<1>1. FrameSize \in Nat \ {0} /\ LowMemory \in Nat \ {0}
  BY LayoutAssumption
<1>2. 0 \div FrameSize <= 0 /\ 0 <= (0 + LowMemory - 1) \div FrameSize
  BY <1>1, SMT
<1>3. 0 \in FramesOf(b, Region(0, LowMemory))
  BY <1>1, <1>2 DEF FramesOf, Region
<1>4. Region(0, LowMemory) \in ReservedRegions(b)
  BY DEF ReservedRegions
<1> QED
  BY <1>3, <1>4 DEF ReservedAtBoot, FramesOfAll

\* pmm_init frees only frames of the map.
LEMMA FreeAtBootInMap ==
  ASSUME NEW b \in Layouts
  PROVE  FreeAtBoot(b) \subseteq Frame(b)
BY DEF FreeAtBoot, FramesOfAll, FramesOf

LEMMA InitInvariant == Init => IInv
<1> SUFFICES ASSUME Init PROVE IInv
  OBVIOUS
<1>1. boot \in Layouts /\ free = FreeAtBoot(boot) /\ held = {}
      /\ last = LowMemory \div FrameSize
      /\ reply = [op |-> "pmm_init", count |-> 0, frame |-> 0]
  BY DEF Init, Reply
<1>2. TypeOK
  BY <1>1, MapBounds, FreeAtBootInMap DEF TypeOK, Total
<1>3. CriticalNeverHeld
  BY <1>1 DEF CriticalNeverHeld, FreeAtBoot, ReservedAtBoot
<1> QED
  BY <1>1, <1>2, <1>3 DEF IInv, HeldNotFree, AllocFailsOnlyWhenFull

\* Handing out free frames moves them from the free set to the callers and
\* disturbs nothing else.
LEMMA HandOutFacts ==
  ASSUME NEW i, NEW n, Run(i, n) \subseteq free, HandOut(i, n)
  PROVE  free' \cup held' = free \cup held /\ free' \subseteq free
         /\ (HeldNotFree => HeldNotFree')
BY DEF HandOut, HeldNotFree

\* A frame that a search finds is a frame of the map, inside the hint's range.
LEMMA AllocStep ==
  ASSUME IInv, pmm_alloc
  PROVE  \/ \E i \in free : /\ i \in 0 .. (Total - 1)
                            /\ HandOut(i, 1)
                            /\ last' = i + 1
                            /\ reply' = Reply("pmm_alloc", 1, i)
         \/ free = {} /\ Refuse /\ reply' = Reply("pmm_alloc", 1, 0)
<1>1. /\ Total \in Nat /\ last \in 0 .. Total
      /\ free \subseteq 0 .. (Total - 1)
  BY MapBounds DEF IInv, TypeOK, Total, Frame
<1>2. ASSUME FromHint = {}, UpToHint = {} PROVE free = {}
  BY <1>1, <1>2, SMT DEF FromHint, UpToHint
<1>3. FromHint \subseteq free /\ UpToHint \subseteq free
  BY DEF FromHint, UpToHint
<1> QED
  BY <1>1, <1>2, <1>3 DEF pmm_alloc

LEMMA AllocRunStep ==
  ASSUME IInv, NEW n \in Nat, pmm_alloc_contiguous(n)
  PROVE  \/ \E i \in free : /\ n > 0
                            /\ Run(i, n) \subseteq free
                            /\ HandOut(i, n)
                            /\ last' \in {last, i + n}
                            /\ i + n <= Total
                            /\ reply' = Reply("pmm_alloc_contiguous", n, i)
         \/ Refuse /\ reply' = Reply("pmm_alloc_contiguous", n, 0)
<1>1. /\ Total \in Nat /\ last \in 0 .. Total
      /\ free \subseteq 0 .. (Total - 1)
  BY MapBounds DEF IInv, TypeOK, Total, Frame
<1>2. ASSUME NEW i \in RunsFromHint(n) \cup RunsUpToHint(n), n > 0
      PROVE  i \in free /\ Run(i, n) \subseteq free /\ i + n <= Total
  BY <1>1, <1>2, SMT DEF RunsFromHint, RunsUpToHint, Run
<1> QED
  BY <1>2 DEF pmm_alloc_contiguous

LEMMA NextInvariant == IInv /\ [Next]_vars => IInv'
<1> SUFFICES ASSUME IInv, [Next]_vars PROVE IInv'
  OBVIOUS
<1>1. /\ boot \in Layouts /\ Total \in Nat /\ last \in 0 .. Total
      /\ Frame(boot) = 0 .. (Total - 1)
      /\ free \subseteq Frame(boot) /\ held \subseteq Frame(boot)
  BY MapBounds DEF IInv, TypeOK, Total
<1>2. free \cap held = {} /\ (free \cup held) \cap ReservedAtBoot(boot) = {}
  BY DEF IInv, HeldNotFree, CriticalNeverHeld
<1>3. 0 \notin free
  BY <1>1, <1>2, FrameZeroReserved
<1>4. ASSUME pmm_alloc PROVE IInv'
  <2>1. boot' = boot
    BY <1>4 DEF pmm_alloc
  <2>2. CASE free = {} /\ Refuse /\ reply' = Reply("pmm_alloc", 1, 0)
    BY <2>1, <2>2 DEF IInv, TypeOK, HeldNotFree, CriticalNeverHeld,
         AllocFailsOnlyWhenFull, Refuse, Reply, Total, Frame
  <2>3. ASSUME NEW i \in free, i \in 0 .. (Total - 1), HandOut(i, 1),
               last' = i + 1, reply' = Reply("pmm_alloc", 1, i)
        PROVE  IInv'
    <3>1. Run(i, 1) = {i} /\ last' \in 0 .. Total
      BY <1>1, <2>3, SMT DEF Run
    <3>2. TypeOK'
      BY <1>1, <2>1, <2>3, <3>1 DEF TypeOK, HandOut, Reply, Total, Frame
    <3>3. HeldNotFree' /\ CriticalNeverHeld'
      BY <1>2, <2>1, <2>3, <3>1 DEF HeldNotFree, CriticalNeverHeld, HandOut
    <3>4. AllocFailsOnlyWhenFull'
      BY <1>3, <2>3 DEF AllocFailsOnlyWhenFull, Reply
    <3> QED
      BY <3>2, <3>3, <3>4 DEF IInv
  <2> QED
    BY <1>4, <2>2, <2>3, AllocStep
<1>5. ASSUME NEW n \in 0 .. MaxCount, pmm_alloc_contiguous(n) PROVE IInv'
  <2>1. n \in Nat /\ boot' = boot
    BY <1>5 DEF pmm_alloc_contiguous
  <2>2. CASE Refuse /\ reply' = Reply("pmm_alloc_contiguous", n, 0)
    BY <2>1, <2>2 DEF IInv, TypeOK, HeldNotFree, CriticalNeverHeld,
         AllocFailsOnlyWhenFull, Refuse, Reply, Total, Frame
  <2>3. ASSUME NEW i \in free, Run(i, n) \subseteq free, HandOut(i, n),
               n > 0, last' \in {last, i + n}, i + n <= Total,
               reply' = Reply("pmm_alloc_contiguous", n, i)
        PROVE  IInv'
    <3>1. last' \in 0 .. Total
      BY <1>1, <2>1, <2>3, SMT
    <3>2. TypeOK'
      BY <1>1, <2>1, <2>3, <3>1 DEF TypeOK, HandOut, Reply, Total, Frame
    <3>3. HeldNotFree' /\ CriticalNeverHeld'
      BY <1>2, <2>1, <2>3 DEF HeldNotFree, CriticalNeverHeld, HandOut
    <3>4. AllocFailsOnlyWhenFull'
      BY <2>3 DEF AllocFailsOnlyWhenFull, Reply
    <3> QED
      BY <3>2, <3>3, <3>4 DEF IInv
  <2> QED
    BY <1>5, <2>1, <2>2, <2>3, AllocRunStep
<1>6. ASSUME NEW f \in held, pmm_free(f) PROVE IInv'
  <2>1. boot' = boot /\ last' = last /\ held' = held \ {f}
        /\ free' = free \cup {f} /\ reply' = Reply("pmm_free", 1, f)
    BY <1>1, <1>6, SMT DEF pmm_free
  <2>2. TypeOK'
    BY <1>1, <2>1 DEF TypeOK, Reply, Total, Frame
  <2>3. HeldNotFree' /\ CriticalNeverHeld' /\ AllocFailsOnlyWhenFull'
    BY <1>2, <2>1 DEF HeldNotFree, CriticalNeverHeld, AllocFailsOnlyWhenFull,
         Reply
  <2> QED
    BY <2>2, <2>3 DEF IInv
<1>7. ASSUME NEW base, NEW len, pmm_mark_reserved(base, len) PROVE IInv'
  BY <1>1, <1>2, <1>7 DEF pmm_mark_reserved, IInv, TypeOK, HeldNotFree,
       CriticalNeverHeld, AllocFailsOnlyWhenFull, Reply, Total, Frame
<1>8. CASE UNCHANGED vars
  BY <1>8 DEF vars, IInv, TypeOK, HeldNotFree, CriticalNeverHeld,
       AllocFailsOnlyWhenFull, Total
<1> QED
  BY <1>4, <1>5, <1>6, <1>7, <1>8 DEF Next

\* Every reachable state satisfies the inductive invariant.
THEOREM Invariant == Spec => []IInv
BY InitInvariant, NextInvariant, PTL DEF Spec

\* The bitmap, the hint and the replies stay inside the map.
THEOREM TypeCorrect == Spec => []TypeOK
<1>1. IInv => TypeOK
  BY DEF IInv
<1> QED
  BY <1>1, Invariant, PTL

\* No frame is handed out while a caller owns it.
THEOREM NoDoubleAllocation == Spec => []HeldNotFree
<1>1. IInv => HeldNotFree
  BY DEF IInv
<1> QED
  BY <1>1, Invariant, PTL

\* No caller ever owns a frame that pmm_init reserved.
THEOREM CriticalStaysReserved == Spec => []CriticalNeverHeld
<1>1. IInv => CriticalNeverHeld
  BY DEF IInv
<1> QED
  BY <1>1, Invariant, PTL

\* pmm_alloc answers 0 only when the bitmap is full.
THEOREM FailureMeansFull == Spec => []AllocFailsOnlyWhenFull
<1>1. IInv => AllocFailsOnlyWhenFull
  BY DEF IInv
<1> QED
  BY <1>1, Invariant, PTL

\* Frames are moved between the bitmap and the callers, never lost.
THEOREM Conservation == Spec => FramesConserved
<1>1. IInv /\ [Next]_vars =>
        [reply'.op # "pmm_mark_reserved"
           => free' \cup held' = free \cup held]_vars
  <2> SUFFICES ASSUME IInv, Next, reply'.op # "pmm_mark_reserved"
               PROVE  free' \cup held' = free \cup held
    OBVIOUS
  <2>1. CASE pmm_alloc
    <3>1. \A i \in free : i \in Int => Run(i, 1) \subseteq free
      BY SMT DEF Run
    <3> QED
      BY <2>1, <3>1, AllocStep, HandOutFacts DEF Refuse
  <2>2. ASSUME NEW n \in 0 .. MaxCount, pmm_alloc_contiguous(n)
        PROVE  free' \cup held' = free \cup held
    BY <2>2, AllocRunStep, HandOutFacts DEF Refuse
  <2>3. ASSUME NEW f \in held, pmm_free(f)
        PROVE  free' \cup held' = free \cup held
    <3>1. f < Total
      BY MapBounds, SMT DEF IInv, TypeOK, Total
    <3> QED
      BY <2>3, <3>1 DEF pmm_free
  <2>4. ASSUME NEW base, NEW len, pmm_mark_reserved(base, len)
        PROVE  FALSE
    BY <2>4 DEF pmm_mark_reserved, Reply
  <2> QED
    BY <2>1, <2>2, <2>3, <2>4 DEF Next
<1> QED
  BY <1>1, Invariant, PTL DEF Spec, FramesConserved

\* The bitmap allocator implements the abstract one: every call is an
\* abstract call with the same answer.
THEOREM Refinement == Spec => ImplementsFrameAllocator
<1>1. Init => FA!Init
  BY DEF Init, FA!Init, Reply
<1>2. IInv /\ [Next]_vars => [FA!Next]_(FA!faVars)
  <2> SUFFICES ASSUME IInv, [Next]_vars PROVE [FA!Next]_(FA!faVars)
    OBVIOUS
  <2> USE DEF FA!Take, FA!Answer
  <2>1. ASSUME pmm_alloc PROVE FA!AllocOne
    <3>1. \A i \in free : i \in Int => Run(i, 1) = {i}
      BY SMT DEF Run
    <3> QED
      BY <2>1, <3>1, AllocStep DEF FA!AllocOne, HandOut, Refuse, Reply
  <2>2. ASSUME NEW n \in 0 .. MaxCount, pmm_alloc_contiguous(n)
        PROVE  FA!AllocRun(n)
    BY <2>2, AllocRunStep DEF FA!AllocRun, HandOut, Refuse, Reply, Run
  <2>3. ASSUME NEW f \in held, pmm_free(f) PROVE FA!Release
    <3>1. f < Total
      BY MapBounds, SMT DEF IInv, TypeOK, Total
    <3> QED
      BY <2>3, <3>1 DEF pmm_free, FA!Release, Reply
  <2>4. ASSUME NEW base, NEW len, pmm_mark_reserved(base, len)
        PROVE  FA!Retire
    BY <2>4 DEF pmm_mark_reserved, FA!Retire, Reply
  <2>5. CASE UNCHANGED vars
    BY <2>5 DEF vars, FA!faVars
  <2> QED
    BY <2>1, <2>2, <2>3, <2>4, <2>5 DEF Next, FA!Next
<1> QED
  BY <1>1, <1>2, Invariant, PTL DEF Spec, ImplementsFrameAllocator, FA!Spec
=============================================================================

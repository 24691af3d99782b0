------------------------------ MODULE Kmalloc -------------------------------
(***************************************************************************)
(* The kernel heap (src/src/kmalloc.c): first fit on a free list sorted by *)
(* address, in pools of whole frames taken from the frame allocator, which *)
(* is the module FrameAllocator and serves other callers too.              *)
(*                                                                         *)
(* Memory is counted in units of ALIGN = sizeof(blk_t) = 16 bytes, so a    *)
(* header is one unit.  A block is named by the address of its header and  *)
(* its payload follows.  No interrupt handler uses the heap: each call is  *)
(* one step.                                                               *)
(***************************************************************************)
EXTENDS Integers, SequencesExt

CONSTANTS
  FrameUnits,   \* units in a frame: 256
  POOL_SIZE,    \* units asked for beyond the request when a pool is added
  MemFrames,    \* the frames the allocator starts with; 0 is never one
  MaxRequest    \* bound: largest request, in units

ASSUME HeapAssumption ==
  /\ FrameUnits \in Nat \ {0} /\ POOL_SIZE \in Nat \ {0} /\ MaxRequest \in Nat
  /\ MemFrames \subseteq Nat \ {0}

\* Mutant of PoolFrames.
PoolFrames_NoHeader(n) == (n + FrameUnits - 1) \div FrameUnits

\* The frames that add_pool asks for when a request of n units finds no block.
PoolFrames(n) == (n + POOL_SIZE + FrameUnits - 1) \div FrameUnits

MaxCount == PoolFrames(MaxRequest)

VARIABLES
  free, held, reply,   \* the frame allocator: see FrameAllocator
  pools,      \* the pools added so far, [base, units]
  freelist,   \* the free list, in list order
  size,       \* block -> blk_t.size, the units of its payload
  live,       \* blocks that callers hold
  wrote,      \* the payload the last call filled: block and units, or Nothing
  stuck       \* malloc calls itself again and again

frameVars == <<free, held, reply>>
heapVars == <<pools, freelist, size, live, wrote, stuck>>
vars == <<frameVars, heapVars>>

None == 0   \* NULL, which is no block
Nothing == [block |-> None, units |-> 0]

Frames == INSTANCE FrameAllocator

Init ==
  /\ free = MemFrames /\ Frames!Init
  /\ pools = {} /\ freelist = <<>> /\ size = << >>
  /\ live = {}
  /\ wrote = Nothing
  /\ stuck = FALSE

-----------------------------------------------------------------------------
(* A heap [list, size] and what the functions make of it *)

Heap == [list |-> freelist, size |-> size]

End(h, b) == b + 1 + h.size[b]

\* Where b belongs in the list: before the first block that is not below it.
Position(list, b) ==
  Min({i \in 1 .. (Len(list) + 1) : i <= Len(list) => list[i] >= b})

InsertSorted(list, b) == InsertAt(list, Position(list, b), b)

\* The loop "coalesce with predecessor": it stops at the predecessor of b, and
\* prev is the block before that one.  If prev ends at b the two are joined
\* and the list goes on behind b.
CoalescePrevious(h, b) ==
  LET k == CHOOSE i \in DOMAIN h.list : h.list[i] = b
      prev == h.list[k - 2]
  IN  IF k > 2 /\ End(h, prev) = b
      THEN [list |-> SubSeq(h.list, 1, k - 2) \o SubSeq(h.list, k + 1, Len(h.list)),
            size |-> [c \in DOMAIN h.size \ {b} |->
                        IF c = prev THEN h.size[c] + 1 + h.size[b] ELSE h.size[c]]]
      ELSE h

\* Mutant of CoalesceNext.
CoalesceNext_HeaderLost(h, b) ==
  LET k == CHOOSE i \in DOMAIN h.list : h.list[i] = b
      next == h.list[k + 1]
  IN  IF k < Len(h.list) /\ End(h, b) = next
      THEN [list |-> RemoveAt(h.list, k + 1),
            size |-> [c \in DOMAIN h.size \ {next} |->
                        IF c = b THEN h.size[c] + h.size[next] ELSE h.size[c]]]
      ELSE h

CoalesceNext(h, b) ==
  LET k == CHOOSE i \in DOMAIN h.list : h.list[i] = b
      next == h.list[k + 1]
  IN  IF k < Len(h.list) /\ End(h, b) = next
      THEN [list |-> RemoveAt(h.list, k + 1),
            size |-> [c \in DOMAIN h.size \ {next} |->
                        IF c = b THEN h.size[c] + 1 + h.size[next] ELSE h.size[c]]]
      ELSE h

\* add_pool, once the frame allocator has answered with `units` from b on.
AddPool(h, b, units) ==
  CoalescePrevious(
    [list |-> InsertSorted(h.list, b),
     size |-> [c \in DOMAIN h.size \cup {b} |->
                 IF c = b THEN units - 1 ELSE h.size[c]]], b)

\* Mutant of FreeBlock.
FreeBlock_JoinsAnyNext(h, b) ==
  LET g == [h EXCEPT !.list = InsertSorted(h.list, b)]
  IN  IF End(h, b) \in live
      THEN [g EXCEPT !.size[b] = @ + 1 + h.size[End(h, b)], !.size[End(h, b)] = 1]
      ELSE CoalesceNext(g, b)

FreeBlock(h, b) ==
  CoalescePrevious(
    CoalesceNext([h EXCEPT !.list = InsertSorted(h.list, b)], b), b)

\* Mutant of FirstFit.
FirstFit_WithHeader(h, n) == SelectInSeq(h.list, LAMBDA b : h.size[b] + 1 >= n)

\* The place in the list of the first block large enough for n, 0 if none is.
FirstFit(h, n) == SelectInSeq(h.list, LAMBDA b : h.size[b] >= n)

\* The found block leaves the list; when it can spare a header and a unit, the
\* rest takes its place.
Carve(h, i, n) ==
  LET b == h.list[i]
      nb == b + 1 + n
  IN  IF h.size[b] >= n + 1 + 1
      THEN [list |-> [h.list EXCEPT ![i] = nb],
            size |-> [c \in DOMAIN h.size \cup {nb} |->
                        IF c = b THEN n
                        ELSE IF c = nb THEN h.size[b] - n - 1 ELSE h.size[c]]]
      ELSE [h EXCEPT !.list = RemoveAt(h.list, i)]

-----------------------------------------------------------------------------
(* The operations *)

Become(h) == freelist' = h.list /\ size' = h.size

\* malloc's first lines: a request for nothing is one for the least.
Rounded(n) == IF n = 0 THEN 1 ELSE n

\* The i-th free block of heap h goes to a caller who wants n units and writes
\* `units` of them; the block `old`, if it is one, goes back (realloc).
HandOver(h, i, n, old, units) ==
  LET b == h.list[i]
      g == Carve(h, i, n)
  IN  /\ Become(IF old = None THEN g ELSE FreeBlock(g, old))
      /\ live' = (live \cup {b}) \ {old}
      /\ wrote' = IF units = 0 THEN Nothing ELSE [block |-> b, units |-> units]

\* malloc(n) on the heap as it is or, when nothing fits, with one more pool.
\* malloc calls itself until something fits: without frames, or with a pool that
\* is too small for the request and so is every one that follows it, for ever.
Allocate(n, old, units) ==
  \/ LET i == FirstFit(Heap, n)
     IN  /\ i > 0
         /\ HandOver(Heap, i, n, old, units)
         /\ UNCHANGED <<frameVars, pools, stuck>>
  \/ /\ FirstFit(Heap, n) = 0
     /\ Frames!AllocRun(PoolFrames(n))
     /\ IF reply'.frame = 0
        THEN /\ stuck' = TRUE
             /\ UNCHANGED <<pools, freelist, size, live, wrote>>
        ELSE LET pool == [base |-> reply'.frame * FrameUnits,
                          units |-> PoolFrames(n) * FrameUnits]
                 h == AddPool(Heap, pool.base, pool.units)
                 j == FirstFit(h, n)
             IN  /\ pools' = pools \cup {pool}
                 /\ IF j > 0
                    THEN HandOver(h, j, n, old, units) /\ UNCHANGED stuck
                    ELSE Become(h) /\ stuck' = TRUE /\ UNCHANGED <<live, wrote>>

malloc(n) == ~stuck /\ Allocate(Rounded(n), None, 0)

\* free(NULL) does nothing; a caller frees only what it holds.
free_(b) ==
  /\ ~stuck
  /\ b \in live
  /\ Become(FreeBlock(Heap, b))
  /\ live' = live \ {b}
  /\ wrote' = Nothing
  /\ UNCHANGED <<frameVars, pools, stuck>>

calloc(n) == ~stuck /\ Allocate(Rounded(n), None, n)

\* realloc of a block that is held; realloc(NULL, n) is malloc(n) and
\* realloc(p, 0) is free(p).
realloc(p, n) ==
  /\ ~stuck
  /\ p \in live /\ n > 0
  /\ \/ size[p] >= n /\ UNCHANGED vars
     \/ size[p] < n /\ Allocate(n, p, size[p])

\* Page tables and program pages come from the same frames.
other_alloc == ~stuck /\ Frames!AllocOne /\ UNCHANGED heapVars

Next ==
  \/ \E n \in 0 .. MaxRequest : malloc(n) \/ calloc(n)
  \/ \E b \in live : free_(b) \/ \E n \in 1 .. MaxRequest : realloc(b, n)
  \/ other_alloc

Spec == Init /\ [][Next]_vars

-----------------------------------------------------------------------------
(* Properties *)

Unit == UNION {p.base .. (p.base + p.units - 1) : p \in pools}

Span(b) == b .. (b + size[b])

\* Headers and payloads tile the pools: through every sequence of splits,
\* joins and moves no two blocks overlap, no unit is lost, and no block sticks
\* out of the frames that the allocator handed over; and each block is either on
\* the free list, once, or held by a caller.
BlocksTilePools ==
  /\ IsInjective(freelist)
  /\ ToSet(freelist) \cap live = {} /\ ToSet(freelist) \cup live = DOMAIN size
  /\ UNION {Span(b) : b \in DOMAIN size} = Unit
  /\ \A b, c \in DOMAIN size : b # c => Span(b) \cap Span(c) = {}

\* A block that is held keeps its size, and is given up only by its holder:
\* splits and joins are made of free blocks.
HeldBlocksKept ==
  [][\A b \in live \cap live' : size'[b] = size[b]]_vars

\* What calloc clears and realloc copies fits the block it goes to.
WritesFit == wrote # Nothing => wrote.units <= size[wrote.block]

\* malloc never returns only when the frame allocator refused a pool: a pool
\* that it got has room for the request beside its header, at any size.
StuckOnlyWithoutFrames ==
  stuck => reply.op = "pmm_alloc_contiguous" /\ reply.frame = 0

-----------------------------------------------------------------------------
(* What the comments say and the code does not do *)

\* src/src/kmalloc.c:91, "coalesce with previous" (and :34): after free, no two
\* free blocks of one pool touch.
NoAdjacentFree ==
  \A p \in pools, b, c \in ToSet(freelist) :
    b + 1 + size[b] = c => ~({b, c} \subseteq p.base .. (p.base + p.units - 1))
=============================================================================

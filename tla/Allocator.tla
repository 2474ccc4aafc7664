----------------------------- MODULE Allocator -----------------------------
(***************************************************************************)
(* The kernel's global allocator (allocator.rs): lists of free blocks, one *)
(* per size class, over a list of free regions that serves the large       *)
(* requests and the empty classes.  Every operation holds the allocator's  *)
(* lock from its first step to its last, and no interrupt handler          *)
(* allocates, so each is one action.                                       *)
(*                                                                         *)
(* The lists appear here as sets.  The list of free regions is sorted by   *)
(* address, so the set says all that the list does; which of its free      *)
(* blocks a class hands out is left open.  LinkedAllocator has the lists.  *)
(***************************************************************************)
EXTENDS HeapLayout

VARIABLES free,      \* the fallback allocator's regions: records [start, size]
          pool,      \* the free blocks of all classes: records [start, size]
          live,      \* blocks in use: records [start, layout]
          oom        \* a request was refused: the kernel has panicked

vars == <<free, pool, live, oom>>

TypeOK ==
  /\ free \subseteq Region
  /\ pool \subseteq {r \in Region : r.size \in BlockSizes}
  /\ live \subseteq [start : Nat, layout : Layouts]
  /\ oom \in BOOLEAN

-----------------------------------------------------------------------------
\* add_free_region.  A region too small for its node is lost; any other is
\* joined with the regions of F that touch it.
Join(F, a, n) ==
  LET before == {r \in F : End(r) = a}
      after == {r \in F : r.start = a + n}
      first == IF before = {} THEN a ELSE (CHOOSE r \in before : TRUE).start
      last == IF after = {} THEN a + n ELSE End(CHOOSE r \in after : TRUE)
  IN  (F \ (before \cup after)) \cup {[start |-> first, size |-> last - first]}

AddFreeRegion(F, a, n) ==
  LET start == AlignUp(a, NodeAlign)
      padding == start - a
  IN  IF n <= padding \/ n - padding < NodeSize
        THEN F
        ELSE Join(F, start, n - padding)

\* find_region: the first region of the list that fits.
FirstFit(r, l) ==
  /\ r \in free
  /\ Fits(r, l)
  /\ \A q \in free : Fits(q, l) => r.start <= q.start

\* fallback_alloc, serving the request l by region r.
FallbackAlloc(r, l) ==
  LET end == AllocEnd(r, l)
      excess == End(r) - end
  IN  /\ FirstFit(r, l)
      /\ free' = IF excess >= NodeSize
                   THEN AddFreeRegion(free \ {r}, end, excess)
                   ELSE free \ {r}

-----------------------------------------------------------------------------
\* init_heap
Init ==
  /\ free = AddFreeRegion({}, HeapStart, HeapSize)
  /\ pool = {}
  /\ live = {}
  /\ oom = FALSE

\* alloc of a small request: a free block of its class, or a new one, aligned
\* to its own size.
AllocPooled(l) ==
  /\ Small(l)
  /\ \E r \in pool :
       /\ r.size = Class(l)
       /\ pool' = pool \ {r}
       /\ live' = live \cup {Block(r.start, l)}
  /\ UNCHANGED <<free, oom>>

AllocBlock(l) ==
  /\ Small(l)
  /\ \A r \in pool : r.size # Class(l)
  /\ \E r \in free :
       /\ FallbackAlloc(r, NewBlock(l))
       /\ live' = live \cup {Block(AllocStart(r, NewBlock(l)), l)}
  /\ UNCHANGED <<pool, oom>>

AllocLarge(l) ==
  /\ ~Small(l)
  /\ \E r \in free :
       /\ FallbackAlloc(r, l)
       /\ live' = live \cup {Block(AllocStart(r, l), l)}
  /\ UNCHANGED <<pool, oom>>

\* alloc returns null, and its caller panics.
AllocFails(l) ==
  /\ \/ /\ Small(l)
        /\ \A r \in pool : r.size # Class(l)
        /\ \A r \in free : ~Fits(r, NewBlock(l))
     \/ /\ ~Small(l)
        /\ \A r \in free : ~Fits(r, l)
  /\ oom' = TRUE
  /\ UNCHANGED <<free, pool, live>>

\* dealloc.  A small block joins the list of its class; of a large one, the
\* bytes that were asked for go back to the regions.
DeallocSmall(b) ==
  /\ Small(b.layout)
  /\ pool' = pool \cup {[start |-> b.start, size |-> Class(b.layout)]}
  /\ live' = live \ {b}
  /\ UNCHANGED <<free, oom>>

DeallocLarge(b) ==
  /\ ~Small(b.layout)
  /\ free' = AddFreeRegion(free, b.start, b.layout.size)
  /\ live' = live \ {b}
  /\ UNCHANGED <<pool, oom>>

Alloc(l) == AllocPooled(l) \/ AllocBlock(l) \/ AllocLarge(l) \/ AllocFails(l)

Dealloc(b) == DeallocSmall(b) \/ DeallocLarge(b)

Next ==
  /\ ~oom
  /\ (\E l \in Layouts : Alloc(l)) \/ (\E b \in live : Dealloc(b))

Spec == Init /\ [][Next]_vars

-----------------------------------------------------------------------------
\* No byte has two owners: free regions, free blocks and blocks in use are
\* pairwise disjoint and lie in the heap, however they have been split, joined
\* and reused.
NoOverlap ==
  /\ \A r \in free : InHeap(r) /\ \A q \in free \ {r} : Apart(r, q)
  /\ \A r \in pool : InHeap(r) /\ \A q \in pool \ {r} : Apart(r, q)
  /\ \A b \in live : InHeap(Extent(b)) /\ \A c \in live \ {b} : Apart(Extent(b), Extent(c))
  /\ \A r \in free, q \in pool : Apart(r, q)
  /\ \A r \in free, b \in live : Apart(r, Extent(b))
  /\ \A r \in pool, b \in live : Apart(r, Extent(b))

\* Every free region can hold its own node, and no two regions touch:
\* add_free_region never leaves behind regions it should have joined.
FreeListSound ==
  \A r \in free :
    /\ r.start % NodeAlign = 0
    /\ r.size >= NodeSize
    /\ \A q \in free : End(r) # q.start

\* A block stays aligned to its class on its way from the regions through the
\* lists to any request the class serves; a large one is aligned as asked.
BlocksAligned ==
  /\ \A r \in pool : r.start % r.size = 0
  /\ \A b \in live :
       b.start % (IF Small(b.layout) THEN Class(b.layout) ELSE b.layout.align) = 0

\* The allocator keeps the promise of a global allocator.
Promise == INSTANCE Heap
HeapRefinement == Promise!Spec

\* allocator.rs:314 says of dealloc that it "Prevents memory leaks in
\* long-running kernel environment": once every block has been given back, the
\* allocator owns every byte it owned at boot.
Owned == UNION {r.start .. End(r) - 1 : r \in free \cup pool}
AtBoot == UNION {r.start .. End(r) - 1 : r \in AddFreeRegion({}, HeapStart, HeapSize)}
NoLeak == live = {} => Owned = AtBoot
=============================================================================

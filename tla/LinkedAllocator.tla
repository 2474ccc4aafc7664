-------------------------- MODULE LinkedAllocator --------------------------
(***************************************************************************)
(* The allocator of allocator.rs with its lists: the regions in the order  *)
(* in which their nodes are linked, and the blocks of a class as the stack *)
(* that its list head starts.  It implements Allocator, which has sets     *)
(* where this module has lists.                                            *)
(***************************************************************************)
EXTENDS HeapLayout, Sequences, SequencesExt

VARIABLES regions,   \* the nodes after FallbackAllocator.head: records [start, size]
          blocks,    \* list_heads: for each class its blocks, the newest first
          live, oom

vars == <<regions, blocks, live, oom>>

PoolOf(lists) ==
  UNION {{[start |-> a, size |-> s] : a \in ToSet(lists[s])} : s \in BlockSizes}

Sets == INSTANCE Allocator WITH free <- ToSet(regions), pool <- PoolOf(blocks)

-----------------------------------------------------------------------------
\* Slip: a region goes to the head of the list, not to its place.
Inserted_AtHead(list, node) == <<node>> \o list

Inserted(list, node) ==
  LET i == SelectInSeq(list, LAMBDA r : r.start > node.start)
  IN  IF i = 0 THEN Append(list, node) ELSE InsertAt(list, i, node)

\* Slip: a node is compared with the one after it and passed over.
Coalesced_Never(list) == list

\* A node absorbs its successors for as long as they touch it.
Coalesced(list) ==
  LET absorb(done, r) ==
        IF done # <<>> /\ End(Last(done)) = r.start
          THEN Append(Front(done), [Last(done) EXCEPT !.size = @ + r.size])
          ELSE Append(done, r)
  IN  FoldLeft(absorb, <<>>, list)

\* Slip: the bytes before the aligned start are not taken off the size.
AddFreeRegion_WithPadding(list, a, n) ==
  Coalesced(Inserted(list, [start |-> AlignUp(a, NodeAlign), size |-> n]))

AddFreeRegion(list, a, n) ==
  LET start == AlignUp(a, NodeAlign)
      padding == start - a
  IN  IF n <= padding \/ n - padding < NodeSize
        THEN list
        ELSE Coalesced(Inserted(list, [start |-> start, size |-> n - padding]))

-----------------------------------------------------------------------------
\* find_region: the position of the first node that fits, 0 if none does.
FindRegion(l) == SelectInSeq(regions, LAMBDA r : Fits(r, l))

FallbackAlloc(l, asked) ==
  LET i == FindRegion(l)
      end == AllocEnd(regions[i], l)
      excess == End(regions[i]) - end
      rest == RemoveAt(regions, i)
  IN  \/ /\ i # 0
         /\ regions' = IF excess >= NodeSize THEN AddFreeRegion(rest, end, excess) ELSE rest
         /\ live' = live \cup {Block(AllocStart(regions[i], l), asked)}
         /\ UNCHANGED <<blocks, oom>>
      \/ /\ i = 0
         /\ oom' = TRUE
         /\ UNCHANGED <<regions, blocks, live>>

-----------------------------------------------------------------------------
Init ==
  /\ regions = AddFreeRegion(<<>>, HeapStart, HeapSize)
  /\ blocks = [s \in BlockSizes |-> <<>>]
  /\ live = {}
  /\ oom = FALSE

AllocPooled(l) ==
  LET s == Class(l)
  IN  /\ Small(l)
      /\ blocks[s] # <<>>
      /\ live' = live \cup {Block(Head(blocks[s]), l)}
      /\ blocks' = [blocks EXCEPT ![s] = Tail(@)]
      /\ UNCHANGED <<regions, oom>>

AllocBlock(l) ==
  /\ Small(l)
  /\ blocks[Class(l)] = <<>>
  /\ FallbackAlloc(NewBlock(l), l)

AllocLarge(l) ==
  /\ ~Small(l)
  /\ FallbackAlloc(l, l)

DeallocSmall(b) ==
  /\ Small(b.layout)
  /\ blocks' = [blocks EXCEPT ![Class(b.layout)] = <<b.start>> \o @]
  /\ live' = live \ {b}
  /\ UNCHANGED <<regions, oom>>

DeallocLarge(b) ==
  /\ ~Small(b.layout)
  /\ regions' = AddFreeRegion(regions, b.start, b.layout.size)
  /\ live' = live \ {b}
  /\ UNCHANGED <<blocks, oom>>

Alloc(l) == AllocPooled(l) \/ AllocBlock(l) \/ AllocLarge(l)

Dealloc(b) == DeallocSmall(b) \/ DeallocLarge(b)

Next ==
  /\ ~oom
  /\ (\E l \in Layouts : Alloc(l)) \/ (\E b \in live : Dealloc(b))

Spec == Init /\ [][Next]_vars

-----------------------------------------------------------------------------
\* The lists do what the sets say: insertion keeps the nodes in the order of
\* their addresses, so that the first node that fits is the lowest region that
\* fits, and one pass over the list joins all the regions that touch.
AllocatorRefinement == Sets!Spec

\* What Allocator says of its sets, said of the lists: no byte of the heap has
\* two owners (find_region, fallback_alloc and add_free_region, allocator.rs).
NoOverlap == Sets!NoOverlap

\* Every free region holds its node, and regions that touch have been joined
\* (the coalescing loop of add_free_region).
FreeListSound == Sets!FreeListSound

\* The lists keep the promise of a global allocator to the kernel that calls
\* alloc and dealloc.
HeapRefinement == Sets!HeapRefinement

\* allocator.rs:314 says of dealloc that it "Prevents memory leaks in
\* long-running kernel environment": once every block has been given back, the
\* allocator owns every byte it owned at boot.
NoLeak == Sets!NoLeak
=============================================================================

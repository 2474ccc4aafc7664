----------------------------- MODULE HeapLayout -----------------------------
(***************************************************************************)
(* Addresses, regions and requests of allocator.rs: the arithmetic that    *)
(* Allocator and LinkedAllocator share, and what it asks of the constants. *)
(***************************************************************************)
EXTENDS Integers

\* An operator marked "Slip" is not the code: it is a mistake one could make in
\* the definition after it, and a property has to notice it.

CONSTANTS HeapStart, HeapSize,   \* HEAP_SPACE
          NodeSize, NodeAlign,   \* size and alignment of ListNode
          BlockSizes,            \* the size classes
          Layouts                \* the requests: records [size, align]

ASSUME HeapAssumption ==
  /\ HeapStart \in Nat \ {0}
  /\ HeapSize \in Nat
  /\ NodeSize \in Nat \ {0}
  /\ NodeAlign \in Nat \ {0}

\* Sizes of classes and alignments are powers of two; all that is needed of
\* them is that an alignment divides every class that is not smaller.
ASSUME BlockAssumption ==
  \A s \in BlockSizes : s \in Nat /\ s >= NodeSize

ASSUME LayoutAssumption ==
  /\ Layouts \subseteq [size : Nat \ {0}, align : Nat \ {0}]
  /\ \A l \in Layouts, s \in BlockSizes : s >= l.align => s % l.align = 0

-----------------------------------------------------------------------------
Region == [start : Nat, size : Nat \ {0}]

End(r) == r.start + r.size

AlignUp(a, n) == IF a % n = 0 THEN a ELSE a - (a % n) + n

\* list_index: the smallest class that holds the request, if there is one.
Needed(l) == IF l.size >= l.align THEN l.size ELSE l.align
Small(l) == \E s \in BlockSizes : s >= Needed(l)
Class(l) == CHOOSE s \in BlockSizes :
              s >= Needed(l) /\ \A t \in BlockSizes : t >= Needed(l) => s <= t

\* alloc_from_region: where a request is placed in region r, and whether it
\* fits without leaving a remainder too small for a node.
AllocStart(r, l) == AlignUp(r.start, l.align)
AllocEnd(r, l) == AlignUp(AllocStart(r, l) + l.size, NodeAlign)

Fits(r, l) ==
  LET excess == End(r) - AllocEnd(r, l)
  IN  excess = 0 \/ excess >= NodeSize

\* Slip: a new block is aligned as its first owner asks.
NewBlock_AsAsked(l) == [size |-> Class(l), align |-> l.align]

\* The layout a new block of a class is asked for with: aligned to its size.
NewBlock(l) == [size |-> Class(l), align |-> Class(l)]

Block(a, l) == [start |-> a, layout |-> l]

\* The memory a block in use takes from the allocator.
Extent(b) == [start |-> b.start,
              size |-> IF Small(b.layout) THEN Class(b.layout) ELSE b.layout.size]

Apart(r, q) == End(r) <= q.start \/ End(q) <= r.start

InHeap(r) == HeapStart <= r.start /\ End(r) <= HeapStart + HeapSize
=============================================================================

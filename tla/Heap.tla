------------------------------- MODULE Heap -------------------------------
(***************************************************************************)
(* What a global allocator promises the kernel: a block that is aligned,   *)
(* lies in the heap and shares no byte with another block in use, or no    *)
(* block at all.  Allocator implements it.                                 *)
(***************************************************************************)
EXTENDS Naturals

CONSTANTS HeapStart, HeapSize,   \* the memory there is
          Layouts                \* the requests: records [size, align]

VARIABLES live,                  \* blocks in use: records [start, layout]
          oom                    \* a request was refused

Apart(a, m, b, n) == a + m <= b \/ b + n <= a

Free(a, n) == \A c \in live : Apart(a, n, c.start, c.layout.size)

Init == live = {} /\ oom = FALSE

Alloc(l) ==
  \/ /\ \E a \in HeapStart .. HeapStart + HeapSize - l.size :
          /\ a % l.align = 0
          /\ Free(a, l.size)
          /\ live' = live \cup {[start |-> a, layout |-> l]}
     /\ UNCHANGED oom
  \/ /\ oom' = TRUE
     /\ UNCHANGED live

Dealloc(b) ==
  /\ live' = live \ {b}
  /\ UNCHANGED oom

Next ==
  /\ ~oom
  /\ (\E l \in Layouts : Alloc(l)) \/ (\E b \in live : Dealloc(b))

Spec == Init /\ [][Next]_<<live, oom>>
=============================================================================

------------------------- MODULE MCLinkedAllocator -------------------------
\* Instance of LinkedAllocator for TLC.  A node is 4 bytes, aligned to 2; the classes
\* are 4 and 8.
EXTENDS LinkedAllocator

\* Both classes; the second also for a small request with the alignment of the
\* whole block, which a block made for the other one has to serve; a large request
\* that leaves no gaps, so that what it gives back joins its neighbours, and one of
\* odd size that is large only because of its alignment.
MCLayouts == {[size |-> 3, align |-> 1], [size |-> 6, align |-> 2],
              [size |-> 3, align |-> 8],
              [size |-> 10, align |-> 1], [size |-> 5, align |-> 16]}

\* Large requests only: of odd size, or with a gap before their start.
MCLargeLayouts == {[size |-> 9, align |-> 1], [size |-> 12, align |-> 16]}
=============================================================================

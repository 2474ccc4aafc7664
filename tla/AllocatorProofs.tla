-------------------------- MODULE AllocatorProofs --------------------------
(***************************************************************************)
(* Proofs about Allocator, for every heap, every node layout and all sizes *)
(* of the classes: no byte has two owners, the free list is sound, blocks  *)
(* are aligned, and the allocator keeps the promise of Heap.               *)
(***************************************************************************)
EXTENDS Allocator, SequenceLemmas

LEMMA DivMod ==
  ASSUME NEW a \in Nat, NEW n \in Nat \ {0}
  PROVE  /\ a % n \in 0 .. n - 1
         /\ a \div n \in Nat
         /\ a = n * (a \div n) + (a % n)
OBVIOUS

LEMMA Multiple ==
  ASSUME NEW k \in Nat, NEW n \in Nat \ {0}
  PROVE  (n * k) % n = 0
OBVIOUS

LEMMA Divides ==
  ASSUME NEW d \in Nat \ {0}, NEW s \in Nat \ {0}, NEW a \in Nat,
         s % d = 0, a % s = 0
  PROVE  a % d = 0
<1> DEFINE p == s \div d
           q == a \div s
<1>1. s = d * p /\ p \in Nat
  BY DivMod
<1>2. a = s * q /\ q \in Nat
  BY DivMod
<1> HIDE DEF p, q
<1>3. a = d * (p * q) /\ p * q \in Nat
  BY <1>1, <1>2
<1> QED BY <1>3, Multiple

\* align_up rounds up, and to a multiple.
LEMMA AlignUpType ==
  ASSUME NEW a \in Nat, NEW n \in Nat \ {0}
  PROVE  /\ AlignUp(a, n) \in Nat
         /\ AlignUp(a, n) >= a
         /\ AlignUp(a, n) % n = 0
<1>1. AlignUp(a, n) \in Nat /\ AlignUp(a, n) >= a
  BY DEF AlignUp
<1>2. CASE a % n # 0
  <2> DEFINE q == a \div n
  <2>1. a = n * q + (a % n) /\ q \in Nat /\ a % n \in Nat
    BY DivMod
  <2> HIDE DEF q
  <2>2. a - (a % n) = n * q
    BY <2>1
  <2>3. n * (q + 1) = n * q + n
    BY <2>1
  <2>4. AlignUp(a, n) = n * (q + 1)
    BY <1>2, <2>2, <2>3 DEF AlignUp
  <2> QED BY <1>1, <2>1, <2>4, Multiple
<1>3. CASE a % n = 0
  BY <1>1, <1>3 DEF AlignUp
<1> QED BY <1>2, <1>3

\* list_index: the class of a small request exists and holds the request.
LEMMA ClassType ==
  ASSUME NEW l \in Layouts, Small(l)
  PROVE  /\ Class(l) \in BlockSizes
         /\ Class(l) \in Nat \ {0}
         /\ Class(l) >= NodeSize
         /\ Class(l) >= l.size
         /\ Class(l) % l.align = 0
<1> DEFINE S == {s \in BlockSizes : s >= Needed(l)}
<1>1. S \subseteq Nat /\ S # {}
  BY BlockAssumption DEF Small
<1>2. \E s \in S : \A t \in S : s <= t
  BY <1>1, Smallest
<1>3. Class(l) \in BlockSizes /\ Class(l) >= Needed(l)
  BY <1>2 DEF Class
<1>4. l \in [size : Nat \ {0}, align : Nat \ {0}]
  BY LayoutAssumption
<1>5. Class(l) \in Nat /\ Class(l) >= NodeSize
  BY <1>3, BlockAssumption
<1>6. Class(l) >= l.size /\ Class(l) >= l.align
  BY <1>3, <1>4, <1>5 DEF Needed
<1> QED BY <1>3, <1>5, <1>6, LayoutAssumption, HeapAssumption

-----------------------------------------------------------------------------
\* A free list in good order, and the regions that share no byte with it.
Good(F) ==
  /\ F \subseteq Region
  /\ \A r \in F : InHeap(r) /\ r.start % NodeAlign = 0 /\ r.size >= NodeSize
  /\ \A r, q \in F : r # q => Apart(r, q)
  /\ \A r, q \in F : End(r) # q.start

Away(F, q) == \A r \in F : Apart(r, q)

\* The bytes of a set of regions.
Has(r, p) == r.start <= p /\ p < End(r)
Covered(F, p) == \E r \in F : Has(r, p)

\* The lists after an operation reach no byte they did not reach before.
Within(F, r, G) ==
  \A q \in Region : Away(F, q) /\ Apart(r, q) => Away(G, q)

LEMMA JoinGood ==
  ASSUME NEW F, Good(F), NEW a \in Nat, NEW n \in Nat \ {0}, n >= NodeSize,
         a % NodeAlign = 0,
         InHeap([start |-> a, size |-> n]),
         Away(F, [start |-> a, size |-> n])
  PROVE  /\ Good(Join(F, a, n))
         /\ Within(F, [start |-> a, size |-> n], Join(F, a, n))
         /\ \A p \in Nat : Covered(Join(F, a, n), p)
                         <=> Covered(F, p) \/ (a <= p /\ p < a + n)
<1> DEFINE new == [start |-> a, size |-> n]
           before == {r \in F : End(r) = a}
           after == {r \in F : r.start = a + n}
           first == IF before = {} THEN a ELSE (CHOOSE r \in before : TRUE).start
           last == IF after = {} THEN a + n ELSE End(CHOOSE r \in after : TRUE)
           m == [start |-> first, size |-> last - first]
           K == F \ (before \cup after)
<1>0. Join(F, a, n) = K \cup {m}
  BY DEF Join
<1>F. /\ F \subseteq Region
      /\ \A r \in F : r.start \in Nat /\ r.size \in Nat \ {0} /\ End(r) = r.start + r.size
  BY DEF Good, Region, End
<1>1. \/ before = {} /\ first = a
      \/ \E b \in F : End(b) = a /\ first = b.start /\ before = {b}
  <2>1. CASE before # {}
    <3>1. PICK b \in before : b = CHOOSE r \in before : TRUE
      BY <2>1
    <3>2. \A r \in before : r = b
      BY <3>1, <1>F DEF Good, Apart
    <3> QED BY <2>1, <3>1, <3>2
  <2> QED BY <2>1
<1>2. \/ after = {} /\ last = a + n
      \/ \E c \in F : c.start = a + n /\ last = End(c) /\ after = {c}
  <2>1. CASE after # {}
    <3>1. PICK c \in after : c = CHOOSE r \in after : TRUE
      BY <2>1
    <3>2. \A r \in after : r = c
      BY <3>1, <1>F DEF Good, Apart
    <3> QED BY <2>1, <3>1, <3>2
  <2> QED BY <2>1
<1>3. /\ first \in Nat /\ first <= a /\ first % NodeAlign = 0 /\ HeapStart <= first
      /\ \A k \in K : End(k) # first
  BY <1>1, <1>F DEF Good, InHeap
<1>4. /\ last \in Nat /\ a + n <= last /\ last <= HeapStart + HeapSize
      /\ \A k \in K : k.start # last
  BY <1>2, <1>F DEF Good, InHeap, End
<1>5. m \in Region /\ m.start = first /\ End(m) = last /\ m.size >= NodeSize
  <2> HIDE DEF first, last
  <2> QED BY <1>3, <1>4, HeapAssumption DEF Region, End
<1>6. \A q \in Region : Away(F, q) /\ Apart(new, q) => Apart(m, q)
  <2> SUFFICES ASSUME NEW q \in Region, Away(F, q), Apart(new, q) PROVE Apart(m, q)
    OBVIOUS
  <2>1. q.start \in Nat /\ q.size \in Nat \ {0} /\ End(q) = q.start + q.size
    BY DEF Region, End
  <2>2. a + n <= q.start \/ End(q) <= a
    BY DEF Apart, End
  <2>3. first <= q.start \/ End(q) <= first
    BY <1>1, <1>F, <2>1, <2>2 DEF Away, Apart
  <2>4. last <= q.start \/ End(q) <= last
    BY <1>2, <1>F, <2>1, <2>2 DEF Away, Apart
  <2>5. (q.start < a => End(q) <= first) /\ (q.start >= a => last <= q.start)
    BY <1>1, <1>2, <1>F, <2>1, <2>2, <2>3, <2>4 DEF Away, Apart
  <2> HIDE DEF first, last
  <2> QED BY <1>3, <1>4, <1>5, <2>1, <2>5 DEF Apart
<1>7. \A k \in K : Apart(m, k) /\ Apart(k, m)
  <2> SUFFICES ASSUME NEW k \in K PROVE Apart(m, k)
    BY DEF Apart
  <2>1. k.start \in Nat /\ k.size \in Nat \ {0} /\ End(k) = k.start + k.size
    BY <1>F
  <2>2. a + n <= k.start \/ End(k) <= a
    BY DEF Away, Apart, End
  <2>3. \A r \in before \cup after : Apart(r, k)
    BY DEF Good
  <2>4. (k.start < a => End(k) <= first) /\ (k.start >= a => last <= k.start)
    BY <1>1, <1>2, <1>F, <2>1, <2>2, <2>3 DEF Apart
  <2> HIDE DEF first, last
  <2> QED BY <1>3, <1>4, <1>5, <2>1, <2>4 DEF Apart
<1> HIDE DEF first, last, m
<1>8. \A r \in K \cup {m} : InHeap(r) /\ r.start % NodeAlign = 0 /\ r.size >= NodeSize
  BY <1>3, <1>4, <1>5 DEF Good, InHeap
<1>9. \A r, q \in K \cup {m} : r # q => Apart(r, q)
  BY <1>7 DEF Good
<1>10. \A r, q \in K \cup {m} : End(r) # q.start
  BY <1>3, <1>4, <1>5 DEF Good
<1>11. K \cup {m} \subseteq Region
  BY <1>5, <1>F
<1>12. Good(K \cup {m})
  BY <1>8, <1>9, <1>10, <1>11 DEF Good
<1>13. \A q \in Region : Away(F, q) /\ Apart(new, q) => Away(K \cup {m}, q)
  BY <1>6 DEF Away
<1>14. \A p \in Nat : Covered(K \cup {m}, p) <=> Covered(F, p) \/ (a <= p /\ p < a + n)
  <2> SUFFICES ASSUME NEW p \in Nat
               PROVE  Covered(K \cup {m}, p) <=> Covered(F, p) \/ (a <= p /\ p < a + n)
    OBVIOUS
  <2>1. Has(m, p) <=> first <= p /\ p < last
    BY <1>5 DEF Has
  <2>2. first <= p /\ p < a <=> \E r \in before : Has(r, p)
    BY <1>1, <1>F DEF Has
  <2>3. a + n <= p /\ p < last <=> \E r \in after : Has(r, p)
    BY <1>2, <1>F DEF Has
  <2>4. \A r \in F : r \in K \/ r \in before \/ r \in after
    OBVIOUS
  <2>5. Has(m, p) <=> (\E r \in before : Has(r, p)) \/ (\E r \in after : Has(r, p))
                      \/ (a <= p /\ p < a + n)
    BY <1>3, <1>4, <2>1, <2>2, <2>3
  <2>6. before \subseteq F /\ after \subseteq F /\ K \subseteq F
    OBVIOUS
  <2> HIDE DEF before, after, K
  <2> QED BY <2>4, <2>5, <2>6 DEF Covered
<1> QED BY <1>0, <1>12, <1>13, <1>14 DEF Within

\* What is left of a region behind the first aligned address in it.
LEMMA Trimmed ==
  ASSUME NEW e \in Region, InHeap(e),
         NEW a, a = AlignUp(e.start, NodeAlign),
         NEW n, n = e.size - (a - e.start), n >= NodeSize,
         NEW new, new = [start |-> a, size |-> n]
  PROVE  /\ a \in Nat /\ a % NodeAlign = 0 /\ n \in Nat \ {0}
         /\ new \in Region /\ InHeap(new)
         /\ \A q \in Region : (Apart(e, q) => Apart(new, q)) /\ (Apart(q, e) => Apart(q, new))
<1>1. e.start \in Nat /\ e.size \in Nat \ {0} /\ End(e) = e.start + e.size
  BY DEF Region, End
<1>2. a \in Nat /\ a >= e.start /\ a % NodeAlign = 0
  BY <1>1, AlignUpType, HeapAssumption
<1>3. n \in Nat \ {0} /\ a + n = End(e)
  BY <1>1, <1>2, HeapAssumption
<1>4. new \in Region /\ new.start = a /\ End(new) = End(e)
  BY <1>2, <1>3 DEF Region, End
<1>5. InHeap(new)
  BY <1>1, <1>2, <1>4, HeapAssumption DEF InHeap
<1>6. \A q \in Region : (Apart(e, q) => Apart(new, q)) /\ (Apart(q, e) => Apart(q, new))
  BY <1>1, <1>2, <1>3, <1>4 DEF Apart, Region, End
<1> QED BY <1>2, <1>3, <1>4, <1>5, <1>6

LEMMA AddGood ==
  ASSUME NEW F, Good(F), NEW e \in Region, InHeap(e), Away(F, e)
  PROVE  /\ Good(AddFreeRegion(F, e.start, e.size))
         /\ Within(F, e, AddFreeRegion(F, e.start, e.size))
<1> DEFINE start == AlignUp(e.start, NodeAlign)
           padding == start - e.start
           n == e.size - padding
           new == [start |-> start, size |-> n]
<1>1. CASE e.size <= padding \/ n < NodeSize
  <2>1. AddFreeRegion(F, e.start, e.size) = F
    BY <1>1 DEF AddFreeRegion
  <2> QED BY <2>1 DEF Within
<1>2. CASE ~(e.size <= padding \/ n < NodeSize)
  <2>1. AddFreeRegion(F, e.start, e.size) = Join(F, start, n)
    BY <1>2 DEF AddFreeRegion
  <2>2. n >= NodeSize
    <3>1. n \in Int
      BY AlignUpType, HeapAssumption DEF Region
    <3> HIDE DEF n
    <3> QED BY <1>2, <3>1, HeapAssumption
  <2> HIDE DEF new
  <2>3. /\ start \in Nat /\ start % NodeAlign = 0 /\ n \in Nat \ {0}
        /\ new \in Region /\ InHeap(new)
        /\ \A q \in Region : (Apart(e, q) => Apart(new, q)) /\ (Apart(q, e) => Apart(q, new))
    BY <2>2, Trimmed DEF new
  <2> HIDE DEF start, n
  <2>4. Away(F, new)
    BY <2>3 DEF Away, Good
  <2>5. /\ Good(Join(F, start, n))
        /\ Within(F, new, Join(F, start, n))
    BY <2>2, <2>3, <2>4, JoinGood DEF new
  <2> QED BY <2>1, <2>3, <2>5 DEF Within
<1> QED BY <1>1, <1>2

\* What fallback_alloc leaves behind the end of a request is a region apart
\* from those that stay.
LEMMA Leftover ==
  ASSUME NEW l \in [size : Nat \ {0}, align : Nat \ {0}], NEW F, Good(F), NEW r \in F,
         NEW end, end = AllocEnd(r, l),
         NEW excess, excess = End(r) - end, excess >= NodeSize,
         NEW left, left = [start |-> end, size |-> excess]
  PROVE  /\ left \in Region /\ left.start = end /\ left.size = excess
         /\ End(left) = End(r)
         /\ InHeap(left) /\ Away(F \ {r}, left)
         /\ \A q \in Region : (Apart(r, q) => Apart(left, q)) /\ (Apart(q, r) => Apart(q, left))
<1>1. r \in Region /\ r.start \in Nat /\ r.size \in Nat \ {0}
      /\ End(r) \in Nat /\ InHeap(r)
  BY DEF Good, Region, End
<1>2. AllocStart(r, l) \in Nat /\ AllocStart(r, l) >= r.start
  BY <1>1, AlignUpType DEF AllocStart
<1>3. end \in Nat /\ end >= AllocStart(r, l) + l.size
  BY <1>2, AlignUpType, HeapAssumption DEF AllocEnd
<1>4. /\ left \in Region /\ left.start = end /\ left.size = excess
      /\ End(left) = End(r) /\ InHeap(left)
  BY <1>1, <1>2, <1>3, HeapAssumption DEF Region, End, InHeap
<1>5. \A q \in Region : (Apart(r, q) => Apart(left, q)) /\ (Apart(q, r) => Apart(q, left))
  BY <1>1, <1>2, <1>3, <1>4 DEF Apart, Region, End
<1>6. Away(F \ {r}, left)
  BY <1>5 DEF Away, Good
<1> QED BY <1>4, <1>5, <1>6

\* What fallback_alloc takes from a region lies inside it, aligned as asked, and
\* no region that stays on the list overlaps it.
LEMMA FallbackGood ==
  ASSUME NEW l \in [size : Nat \ {0}, align : Nat \ {0}], NEW r \in free,
         Good(free), FallbackAlloc(r, l),
         NEW taken, taken = [start |-> AllocStart(r, l), size |-> l.size]
  PROVE  /\ taken \in Region
         /\ taken.start % l.align = 0
         /\ InHeap(taken)
         /\ Good(free')
         /\ Away(free', taken)
         /\ \A q \in Region : Away(free, q) => Apart(taken, q) /\ Away(free', q)
<1> DEFINE end == AllocEnd(r, l)
           excess == End(r) - end
           rest == free \ {r}
           left == [start |-> end, size |-> excess]
<1>1. r \in Region /\ r.start \in Nat /\ r.size \in Nat \ {0}
      /\ End(r) \in Nat /\ InHeap(r)
  BY DEF Good, Region, End
<1>2. /\ AllocStart(r, l) \in Nat /\ AllocStart(r, l) >= r.start
      /\ AllocStart(r, l) % l.align = 0
  BY <1>1, AlignUpType DEF AllocStart
<1>3. end \in Nat /\ end >= AllocStart(r, l) + l.size
  BY <1>2, AlignUpType, HeapAssumption DEF AllocEnd
<1>4. excess = 0 \/ excess >= NodeSize
  BY DEF FallbackAlloc, FirstFit, Fits
<1>5. free' = IF excess >= NodeSize THEN AddFreeRegion(rest, end, excess) ELSE rest
  BY DEF FallbackAlloc
<1> HIDE DEF end, excess
<1>6. excess = End(r) - end /\ end <= End(r)
  BY <1>1, <1>3, <1>4, HeapAssumption DEF excess
<1>7. /\ taken \in Region /\ taken.start = AllocStart(r, l)
      /\ End(taken) = AllocStart(r, l) + l.size
      /\ InHeap(taken)
  BY <1>1, <1>2, <1>3, <1>6, HeapAssumption DEF Region, End, InHeap
<1>8. \A q \in Region : Apart(r, q) => Apart(taken, q)
  BY <1>1, <1>2, <1>3, <1>6, <1>7 DEF Apart, Region, End
<1>9. Good(rest) /\ Away(rest, taken)
      /\ \A q \in Region : Away(free, q) => Away(rest, q)
  <2>1. Good(rest)
    BY DEF Good
  <2>2. \A q \in rest : q \in Region /\ Apart(r, q)
    BY DEF Good
  <2>3. \A q \in rest : Apart(q, taken)
    BY <2>2, <1>8 DEF Apart
  <2> QED BY <2>1, <2>3 DEF Away
<1>10. \A q \in Region : Away(free, q) => Apart(taken, q)
  BY <1>8 DEF Away
<1>11. CASE excess >= NodeSize
  <2>1. /\ left \in Region /\ left.start = end /\ left.size = excess
        /\ End(left) = End(r) /\ InHeap(left) /\ Away(rest, left)
        /\ \A q \in Region : (Apart(r, q) => Apart(left, q)) /\ (Apart(q, r) => Apart(q, left))
    <3> HIDE DEF left, rest
    <3>1. end = AllocEnd(r, l) /\ End(r) - end >= NodeSize
      BY <1>6, <1>11 DEF end
    <3>2. left = [start |-> end, size |-> End(r) - end]
      BY <1>6 DEF left
    <3> QED BY <1>6, <3>1, <3>2, Leftover DEF rest
  <2>4. /\ Good(AddFreeRegion(rest, end, excess))
        /\ Within(rest, left, AddFreeRegion(rest, end, excess))
    BY <1>9, <2>1, AddGood
  <2>5. Apart(left, taken)
    BY <1>2, <1>3, <1>7, <2>1 DEF Apart
  <2>6. Away(free', taken)
    BY <1>5, <1>7, <1>9, <1>11, <2>4, <2>5 DEF Within
  <2>7. \A q \in Region : Away(free, q) => Away(free', q)
    BY <1>5, <1>9, <1>11, <2>1, <2>4 DEF Within, Away
  <2> QED BY <1>2, <1>5, <1>7, <1>10, <1>11, <2>4, <2>6, <2>7
<1>12. CASE ~(excess >= NodeSize)
  BY <1>2, <1>5, <1>7, <1>9, <1>10, <1>12
<1> QED BY <1>11, <1>12

-----------------------------------------------------------------------------
\* The inductive invariant: all that TLC checks of the state, in the form in
\* which the steps of the proof use it.
Aligned(b) ==
  b.start % (IF Small(b.layout) THEN Class(b.layout) ELSE b.layout.align) = 0

GoodPool(P) ==
  /\ P \subseteq {r \in Region : r.size \in BlockSizes}
  /\ \A r \in P : InHeap(r) /\ r.start % r.size = 0
  /\ \A r, q \in P : r # q => Apart(r, q)

GoodLive(L) ==
  /\ L \subseteq [start : Nat, layout : Layouts]
  /\ \A b \in L : InHeap(Extent(b)) /\ Aligned(b)
  /\ \A b, c \in L : b # c => Apart(Extent(b), Extent(c))

Disjoint(F, P, L) ==
  /\ \A q \in P : Away(F, q)
  /\ \A b \in L : Away(F, Extent(b)) /\ Away(P, Extent(b))

Inv ==
  /\ Good(free)
  /\ GoodPool(pool)
  /\ GoodLive(live)
  /\ Disjoint(free, pool, live)
  /\ oom \in BOOLEAN

LEMMA InvMeaning == Inv <=> TypeOK /\ NoOverlap /\ FreeListSound /\ BlocksAligned
<1>1. Inv => TypeOK
  BY DEF Inv, TypeOK, Good, GoodPool, GoodLive
<1>2. Inv => NoOverlap
  BY DEF Inv, NoOverlap, Good, GoodPool, GoodLive, Disjoint, Away
<1>3. Inv => FreeListSound /\ BlocksAligned
  BY DEF Inv, FreeListSound, BlocksAligned, Good, GoodPool, GoodLive, Aligned
<1>4. ASSUME TypeOK, NoOverlap, FreeListSound, BlocksAligned PROVE Inv
  <2>1. Good(free)
    BY <1>4 DEF TypeOK, NoOverlap, FreeListSound, Good
  <2>2. GoodPool(pool) /\ GoodLive(live)
    BY <1>4 DEF TypeOK, NoOverlap, BlocksAligned, GoodPool, GoodLive, Aligned
  <2>3. Disjoint(free, pool, live)
    BY <1>4 DEF NoOverlap, Disjoint, Away
  <2> QED BY <1>4, <2>1, <2>2, <2>3 DEF Inv, TypeOK
<1> QED BY <1>1, <1>2, <1>3, <1>4

LEMMA ExtentType ==
  ASSUME NEW b \in [start : Nat, layout : Layouts]
  PROVE  /\ Extent(b) \in Region
         /\ Extent(b).start = b.start
         /\ Extent(b).size >= b.layout.size
         /\ Extent(b).size \in Nat /\ b.layout.size \in Nat
<1>1. b.layout \in Layouts /\ b.layout \in [size : Nat \ {0}, align : Nat \ {0}]
  BY LayoutAssumption
<1> QED BY <1>1, ClassType DEF Extent, Region

\* Moving memory between the three owners: a block from the free lists into use,
\* a block of use into the free lists, and either against the regions.
LEMMA TakeFromPool ==
  ASSUME Inv, NEW l \in Layouts, Small(l), NEW r \in pool, r.size = Class(l)
  PROVE  /\ GoodPool(pool \ {r})
         /\ GoodLive(live \cup {Block(r.start, l)})
         /\ Disjoint(free, pool \ {r}, live \cup {Block(r.start, l)})
<1> DEFINE b == Block(r.start, l)
<1>1. b \in [start : Nat, layout : Layouts] /\ b.layout = l /\ b.start = r.start
  BY DEF Block, Inv, GoodPool, Region
<1>2. Extent(b) = r
  <2>1. r \in Region
    BY DEF Inv, GoodPool
  <2> QED BY <1>1, <2>1 DEF Extent, Region
<1>3. InHeap(r) /\ Aligned(b)
  BY <1>1 DEF Inv, GoodPool, Aligned
<1>4. \A c \in live : Apart(r, Extent(c)) /\ Apart(Extent(c), r)
  BY DEF Inv, Disjoint, Away, Apart
<1> HIDE DEF b
<1>5. GoodLive(live \cup {b})
  BY <1>1, <1>2, <1>3, <1>4 DEF Inv, GoodLive
<1>6. Disjoint(free, pool \ {r}, live \cup {b})
  BY <1>2 DEF Inv, Disjoint, Away, GoodPool
<1> QED BY <1>5, <1>6 DEF Inv, GoodPool, b

LEMMA TakeFromFree ==
  ASSUME Inv, NEW b \in [start : Nat, layout : Layouts], Aligned(b),
         InHeap(Extent(b)), NEW F, Good(F), Away(F, Extent(b)),
         \A q \in Region : Away(free, q) => Apart(Extent(b), q) /\ Away(F, q)
  PROVE  /\ GoodLive(live \cup {b})
         /\ Disjoint(F, pool, live \cup {b})
<1>1. \A c \in live : /\ Apart(Extent(b), Extent(c)) /\ Apart(Extent(c), Extent(b))
                      /\ Away(F, Extent(c))
  BY ExtentType DEF Inv, GoodLive, Disjoint, Apart
<1>2. \A q \in pool : Apart(q, Extent(b)) /\ Away(F, q)
  BY DEF Inv, GoodPool, Disjoint, Apart
<1>3. GoodLive(live \cup {b})
  BY <1>1 DEF Inv, GoodLive
<1> QED BY <1>1, <1>2, <1>3 DEF Inv, Disjoint, Away

LEMMA GiveToPool ==
  ASSUME Inv, NEW b \in live, Small(b.layout)
  PROVE  /\ GoodPool(pool \cup {Extent(b)})
         /\ GoodLive(live \ {b})
         /\ Disjoint(free, pool \cup {Extent(b)}, live \ {b})
<1>1. b \in [start : Nat, layout : Layouts] /\ b.layout \in Layouts
  BY DEF Inv, GoodLive
<1>2. /\ Extent(b) \in {r \in Region : r.size \in BlockSizes}
      /\ InHeap(Extent(b))
      /\ Extent(b).start % Extent(b).size = 0
  BY <1>1, ExtentType, ClassType DEF Inv, GoodLive, Aligned, Extent
<1>3. \A q \in pool : Apart(q, Extent(b)) /\ Apart(Extent(b), q)
  BY DEF Inv, Disjoint, Away, Apart
<1>4. GoodPool(pool \cup {Extent(b)})
  BY <1>2, <1>3 DEF Inv, GoodPool
<1>5. Disjoint(free, pool \cup {Extent(b)}, live \ {b})
  BY DEF Inv, Disjoint, Away, GoodLive
<1> QED BY <1>4, <1>5 DEF Inv, GoodLive

LEMMA GiveToFree ==
  ASSUME Inv, NEW b \in live, NEW F, Good(F), Within(free, Extent(b), F)
  PROVE  /\ GoodLive(live \ {b})
         /\ Disjoint(F, pool, live \ {b})
<1>1. \A c \in live \ {b} : Away(F, Extent(c))
  BY ExtentType DEF Inv, GoodLive, Disjoint, Within
<1>2. \A q \in pool : Away(F, q)
  BY DEF Inv, GoodPool, Disjoint, Within, Away, Apart
<1> QED BY <1>1, <1>2 DEF Inv, GoodLive, Disjoint

-----------------------------------------------------------------------------
LEMMA NewBlockType ==
  ASSUME NEW l \in Layouts, Small(l)
  PROVE  NewBlock(l) \in [size : Nat \ {0}, align : Nat \ {0}]
BY ClassType DEF NewBlock

LEMMA AllocStep ==
  ASSUME Inv, NEW l \in Layouts, Alloc(l)
  PROVE  Inv'
<1>l. l \in [size : Nat \ {0}, align : Nat \ {0}]
  BY LayoutAssumption
<1>1. CASE AllocPooled(l)
  <2>1. PICK r \in pool : /\ r.size = Class(l)
                          /\ pool' = pool \ {r}
                          /\ live' = live \cup {Block(r.start, l)}
    BY <1>1 DEF AllocPooled
  <2> QED BY <1>1, <2>1, TakeFromPool DEF AllocPooled, Inv
<1>2. CASE AllocBlock(l)
  <2>1. PICK r \in free : /\ FallbackAlloc(r, NewBlock(l))
                          /\ live' = live \cup {Block(AllocStart(r, NewBlock(l)), l)}
    BY <1>2 DEF AllocBlock
  <2> DEFINE b == Block(AllocStart(r, NewBlock(l)), l)
             taken == [start |-> AllocStart(r, NewBlock(l)), size |-> NewBlock(l).size]
  <2>2. /\ taken \in Region
        /\ taken.start % NewBlock(l).align = 0
        /\ InHeap(taken) /\ Good(free') /\ Away(free', taken)
        /\ \A q \in Region : Away(free, q) => Apart(taken, q) /\ Away(free', q)
    BY <1>2, <2>1, NewBlockType, FallbackGood DEF AllocBlock, Inv
  <2>3. /\ b \in [start : Nat, layout : Layouts]
        /\ Extent(b) = taken /\ Aligned(b)
    BY <1>2, <2>2 DEF AllocBlock, Region, Block, Extent, NewBlock, Aligned
  <2> HIDE DEF b, taken
  <2>4. /\ GoodLive(live \cup {b})
        /\ Disjoint(free', pool, live \cup {b})
    BY <2>2, <2>3, TakeFromFree
  <2> QED BY <1>2, <2>1, <2>2, <2>4 DEF AllocBlock, Inv, b
<1>3. CASE AllocLarge(l)
  <2>1. PICK r \in free : /\ FallbackAlloc(r, l)
                          /\ live' = live \cup {Block(AllocStart(r, l), l)}
    BY <1>3 DEF AllocLarge
  <2> DEFINE b == Block(AllocStart(r, l), l)
             taken == [start |-> AllocStart(r, l), size |-> l.size]
  <2>2. /\ taken \in Region
        /\ taken.start % l.align = 0
        /\ InHeap(taken) /\ Good(free') /\ Away(free', taken)
        /\ \A q \in Region : Away(free, q) => Apart(taken, q) /\ Away(free', q)
    BY <1>l, <2>1, FallbackGood DEF Inv
  <2>3. /\ b \in [start : Nat, layout : Layouts]
        /\ Extent(b) = taken /\ Aligned(b)
    BY <1>3, <2>2 DEF AllocLarge, Region, Block, Extent, Aligned
  <2> HIDE DEF b, taken
  <2>4. /\ GoodLive(live \cup {b})
        /\ Disjoint(free', pool, live \cup {b})
    BY <2>2, <2>3, TakeFromFree
  <2> QED BY <1>3, <2>1, <2>2, <2>4 DEF AllocLarge, Inv, b
<1>4. CASE AllocFails(l)
  BY <1>4 DEF AllocFails, Inv
<1> QED BY <1>1, <1>2, <1>3, <1>4 DEF Alloc

LEMMA DeallocStep ==
  ASSUME Inv, NEW b \in live, Dealloc(b)
  PROVE  Inv'
<1>1. CASE DeallocSmall(b)
  <2>1. Extent(b) = [start |-> b.start, size |-> Class(b.layout)]
    BY <1>1 DEF DeallocSmall, Extent
  <2> QED BY <1>1, <2>1, GiveToPool DEF DeallocSmall, Inv
<1>2. CASE DeallocLarge(b)
  <2>1. /\ Extent(b) \in Region /\ InHeap(Extent(b)) /\ Away(free, Extent(b))
        /\ Extent(b).start = b.start /\ Extent(b).size = b.layout.size
    <3>1. b \in [start : Nat, layout : Layouts]
      BY DEF Inv, GoodLive
    <3> QED BY <1>2, <3>1, ExtentType DEF Inv, GoodLive, Disjoint, DeallocLarge, Extent
  <2>2. /\ Good(AddFreeRegion(free, b.start, b.layout.size))
        /\ Within(free, Extent(b), AddFreeRegion(free, b.start, b.layout.size))
    BY <2>1, AddGood DEF Inv
  <2>3. Good(free') /\ Within(free, Extent(b), free')
    BY <1>2, <2>2 DEF DeallocLarge
  <2>4. GoodLive(live \ {b}) /\ Disjoint(free', pool, live \ {b})
    BY <2>3, GiveToFree
  <2> QED BY <1>2, <2>3, <2>4 DEF DeallocLarge, Inv
<1> QED BY <1>1, <1>2 DEF Dealloc

LEMMA InvStep == Inv /\ [Next]_vars => Inv'
<1> SUFFICES ASSUME Inv, [Next]_vars PROVE Inv'
  OBVIOUS
<1>1. CASE UNCHANGED vars
  BY <1>1 DEF vars, Inv
<1>2. CASE Next
  BY <1>2, AllocStep, DeallocStep DEF Next
<1> QED BY <1>1, <1>2

LEMMA InvInit == Init => Inv
<1> SUFFICES ASSUME Init PROVE Inv
  OBVIOUS
<1> DEFINE heap == [start |-> HeapStart, size |-> HeapSize]
<1>1. Good({})
  BY DEF Good
<1>2. Good(free)
  <2>1. CASE HeapSize = 0
    <3>1. HeapSize <= AlignUp(HeapStart, NodeAlign) - HeapStart
      BY <2>1, AlignUpType, HeapAssumption
    <3>2. AddFreeRegion({}, HeapStart, HeapSize) = {}
      BY <3>1 DEF AddFreeRegion
    <3> QED BY <1>1, <3>2 DEF Init
  <2>2. CASE HeapSize # 0
    <3>1. heap \in Region /\ InHeap(heap) /\ Away({}, heap)
      BY <2>2, HeapAssumption DEF Region, InHeap, End, Away
    <3>2. Good(AddFreeRegion({}, heap.start, heap.size))
      BY <1>1, <3>1, AddGood
    <3> QED BY <3>2 DEF Init
  <2> QED BY <2>1, <2>2
<1>3. GoodPool({}) /\ GoodLive({}) /\ Disjoint(free, {}, {})
  BY DEF GoodPool, GoodLive, Disjoint
<1> QED BY <1>2, <1>3 DEF Init, Inv

THEOREM InvHolds == Spec => []Inv
BY InvInit, InvStep, PTL DEF Spec

\* The types of the allocator's state.
THEOREM TypeCorrect == Spec => []TypeOK
BY InvHolds, InvMeaning, PTL

\* No byte of the heap ever has two owners, for every heap, every set of classes
\* and every sequence of requests and returns.
THEOREM NeverOverlaps == Spec => []NoOverlap
BY InvHolds, InvMeaning, PTL

\* The list of free regions stays sound: nodes fit, and no two regions touch.
THEOREM FreeListStaysSound == Spec => []FreeListSound
BY InvHolds, InvMeaning, PTL

\* Every block, pooled or in use, keeps its alignment.
THEOREM AlwaysAligned == Spec => []BlocksAligned
BY InvHolds, InvMeaning, PTL

-----------------------------------------------------------------------------
\* A block the allocator puts in use is one the promise allows.
LEMMA NewIsAllowed ==
  ASSUME Inv, Inv', NEW l \in Layouts, NEW a, live' = live \cup {Block(a, l)},
         Block(a, l) \notin live, UNCHANGED oom
  PROVE  Promise!Alloc(l)
<1> DEFINE b == Block(a, l)
<1>1. /\ b \in [start : Nat, layout : Layouts] /\ b.start = a /\ b.layout = l
      /\ a \in Nat /\ b \in live'
      /\ InHeap(Extent(b)) /\ Aligned(b)
      /\ \A c \in live : Apart(Extent(b), Extent(c))
  <2>1. b \in live' /\ \A c \in live : c \in live' /\ c # b
    OBVIOUS
  <2>2. b \in [start : Nat, layout : Layouts]
    BY <2>1 DEF Inv, GoodLive
  <2>3. b.start = a /\ b.layout = l
    BY DEF Block
  <2>4. InHeap(Extent(b)) /\ Aligned(b) /\ \A c \in live : Apart(Extent(b), Extent(c))
    BY <2>1 DEF Inv, GoodLive
  <2> QED BY <2>1, <2>2, <2>3, <2>4
<1>2. l.size \in Nat \ {0} /\ l.align \in Nat \ {0}
  BY LayoutAssumption
<1>3. a % l.align = 0
  <2>1. CASE Small(l)
    BY <1>1, <1>2, <2>1, ClassType, Divides DEF Aligned
  <2>2. CASE ~Small(l)
    BY <1>1, <2>2 DEF Aligned
  <2> QED BY <2>1, <2>2
<1>4. a \in HeapStart .. HeapStart + HeapSize - l.size
  <2>1. /\ Extent(b).start = a /\ Extent(b).size >= l.size /\ Extent(b).size \in Nat
        /\ HeapStart <= a /\ a + Extent(b).size <= HeapStart + HeapSize
    BY <1>1, ExtentType DEF InHeap, End
  <2> QED BY <1>1, <1>2, <2>1, HeapAssumption
<1>5. \A c \in live : Promise!Apart(a, l.size, c.start, c.layout.size)
  <2> SUFFICES ASSUME NEW c \in live
               PROVE  Promise!Apart(a, l.size, c.start, c.layout.size)
    OBVIOUS
  <2>1. c \in [start : Nat, layout : Layouts] /\ Apart(Extent(b), Extent(c))
    BY <1>1 DEF Inv, GoodLive
  <2>2. /\ Extent(b).start = a /\ Extent(b).size >= l.size /\ Extent(b).size \in Nat
        /\ Extent(c).start = c.start /\ Extent(c).size >= c.layout.size
        /\ Extent(c).size \in Nat /\ c.layout.size \in Nat /\ c.start \in Nat
    BY <1>1, <2>1, ExtentType
  <2> QED BY <1>1, <1>2, <2>1, <2>2 DEF Apart, End, Promise!Apart
<1> QED BY <1>3, <1>4, <1>5 DEF Promise!Alloc, Promise!Free, Block

LEMMA AllocAllowed ==
  ASSUME Inv, NEW l \in Layouts, Alloc(l)
  PROVE  Promise!Alloc(l) \/ UNCHANGED <<live, oom>>
<1>l. Inv' /\ l \in [size : Nat \ {0}, align : Nat \ {0}]
  BY AllocStep, LayoutAssumption
<1>1. CASE AllocPooled(l)
  <2>1. PICK r \in pool : live' = live \cup {Block(r.start, l)}
    BY <1>1 DEF AllocPooled
  <2> QED BY <1>1, <1>l, <2>1, NewIsAllowed DEF AllocPooled
<1>2. CASE AllocBlock(l)
  <2>1. PICK r \in free : live' = live \cup {Block(AllocStart(r, NewBlock(l)), l)}
    BY <1>2 DEF AllocBlock
  <2> QED BY <1>2, <1>l, <2>1, NewIsAllowed DEF AllocBlock
<1>3. CASE AllocLarge(l)
  <2>1. PICK r \in free : live' = live \cup {Block(AllocStart(r, l), l)}
    BY <1>3 DEF AllocLarge
  <2> QED BY <1>3, <1>l, <2>1, NewIsAllowed DEF AllocLarge
<1>4. CASE AllocFails(l)
  BY <1>4 DEF AllocFails, Promise!Alloc
<1> QED BY <1>1, <1>2, <1>3, <1>4 DEF Alloc

\* The allocator implements the promise of Heap: whatever the requests, a block
\* it hands out is aligned, inside the heap, and apart from every block in use.
THEOREM KeepsPromise == Spec => HeapRefinement
<1>1. Init => Promise!Init
  BY DEF Init, Promise!Init
<1>2. Inv /\ [Next]_vars => [Promise!Next]_<<live, oom>>
  <2> SUFFICES ASSUME Inv, [Next]_vars PROVE [Promise!Next]_<<live, oom>>
    OBVIOUS
  <2>1. CASE UNCHANGED vars
    BY <2>1 DEF vars
  <2>2. ASSUME ~oom, NEW l \in Layouts, Alloc(l) PROVE [Promise!Next]_<<live, oom>>
    BY <2>2, AllocAllowed DEF Promise!Next
  <2>3. ASSUME ~oom, NEW b \in live, Dealloc(b) PROVE Promise!Next
    <3>1. Promise!Dealloc(b)
      BY <2>3 DEF Dealloc, DeallocSmall, DeallocLarge, Promise!Dealloc
    <3> QED BY <2>3, <3>1 DEF Promise!Next
  <2> QED BY <2>1, <2>2, <2>3 DEF Next
<1> QED BY <1>1, <1>2, InvHolds, PTL DEF Spec, HeapRefinement, Promise!Spec
=============================================================================

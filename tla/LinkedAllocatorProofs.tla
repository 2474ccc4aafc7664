----------------------- MODULE LinkedAllocatorProofs -----------------------
(***************************************************************************)
(* The lists of LinkedAllocator implement the sets of Allocator.           *)
(***************************************************************************)
EXTENDS LinkedAllocator, SequenceLemmas

Absorb(done, r) ==
  IF done # <<>> /\ End(Last(done)) = r.start
    THEN Append(Front(done), [Last(done) EXCEPT !.size = @ + r.size])
    ELSE Append(done, r)

LEMMA AbsorbType ==
  ASSUME NEW done \in Seq(Region), NEW r \in Region
  PROVE  Absorb(done, r) \in Seq(Region)
<1>1. CASE done # <<>>
  <2>1. Last(done) \in Region /\ Front(done) \in Seq(Region)
    BY <1>1 DEF Last, Front
  <2>2. ASSUME NEW q \in Region
        PROVE  [q EXCEPT !.size = @ + r.size] \in Region
    <3>1. q.size + r.size \in Nat \ {0} /\ q.start \in Nat
      BY DEF Region
    <3>2. [q EXCEPT !.size = @ + r.size] = [start |-> q.start, size |-> q.size + r.size]
      BY DEF Region
    <3> QED BY <3>1, <3>2 DEF Region
  <2>3. [Last(done) EXCEPT !.size = @ + r.size] \in Region
    BY <2>1, <2>2
  <2> QED BY <2>1, <2>3 DEF Absorb
<1>2. CASE done = <<>>
  BY <1>2 DEF Absorb
<1> QED BY <1>1, <1>2

\* The pass over the list, node by node.
LEMMA CoalescedSteps ==
  ASSUME NEW list \in Seq(Region)
  PROVE  \E g \in [0 .. Len(list) -> Seq(Region)] :
           /\ g[0] = <<>>
           /\ \A k \in 1 .. Len(list) : g[k] = Absorb(g[k - 1], list[k])
           /\ Coalesced(list) = g[Len(list)]
<1> DEFINE n == Len(list)
           step == [p \in (1 .. n) \X Seq(Region) |-> Absorb(p[2], list[p[1]])]
           It(it) == it = [s \in SUBSET DOMAIN list |->
                             IF s = {} THEN <<>>
                             ELSE Absorb(it[s \ {Max(s)}], list[Max(s)])]
           f == CHOOSE it : It(it)
           g == [k \in 0 .. n |-> f[1 .. k]]
<1>n. n \in Nat /\ DOMAIN list = 1 .. n /\ \A i \in 1 .. n : list[i] \in Region
  OBVIOUS
<1>1. Coalesced(list) = f[DOMAIN list]
  BY Zenon DEF Coalesced, FoldLeft, MapThenFoldSet, Absorb
<1>2. \E it : It(it)
  <2>1. <<>> \in Seq(Region)
    OBVIOUS
  <2>2. step \in [(1 .. n) \X Seq(Region) -> Seq(Region)]
    <3>1. \A p \in (1 .. n) \X Seq(Region) : p[1] \in 1 .. n /\ p[2] \in Seq(Region)
      OBVIOUS
    <3> HIDE DEF n
    <3> QED BY <1>n, <3>1, AbsorbType
  <2>3. PICK it \in [SUBSET (1 .. n) -> Seq(Region)] : Unfolds(it, n, <<>>, step)
    <3> HIDE DEF step, n
    <3> QED BY <1>n, <2>1, <2>2, FoldExists
  <2>4. ASSUME NEW s \in SUBSET (1 .. n), s # {}
        PROVE  step[<<Max(s), it[s \ {Max(s)}]>>] = Absorb(it[s \ {Max(s)}], list[Max(s)])
    <3>1. Max(s) \in 1 .. n
      <4> HIDE DEF n
      <4> QED BY <1>n, <2>4, MaxOfSome
    <3>2. it[s \ {Max(s)}] \in Seq(Region)
      OBVIOUS
    <3> QED BY <3>1, <3>2
  <2>5. It(it)
    <3> HIDE DEF step, n
    <3> QED BY <1>n, <2>3, <2>4 DEF Unfolds
  <2> QED BY <2>5
<1>3. It(f)
  <2> HIDE DEF It
  <2> QED BY <1>2
<1> HIDE DEF f, n
<1>4. f[1 .. 0] = <<>>
  <2>1. 1 .. 0 = {} /\ {} \in SUBSET DOMAIN list
    OBVIOUS
  <2> QED BY <1>3, <2>1
<1>5. ASSUME NEW k \in 1 .. n
      PROVE  f[1 .. k] = Absorb(f[1 .. k - 1], list[k])
  <2>1. Max(1 .. k) = k /\ (1 .. k) \ {k} = 1 .. k - 1 /\ 1 .. k # {}
    BY MaxOfInterval
  <2>2. 1 .. k \in SUBSET DOMAIN list
    BY <1>n
  <2> QED BY <1>3, <2>1, <2>2
<1>6. g[0] = <<>> /\ \A k \in 1 .. n : g[k] = Absorb(g[k - 1], list[k])
  <2>1. \A k \in 1 .. n : k \in 0 .. n /\ k - 1 \in 0 .. n
    BY <1>n
  <2>2. 0 \in 0 .. n
    BY <1>n
  <2> QED BY <1>4, <1>5, <2>1, <2>2
<1>7. g \in [0 .. n -> Seq(Region)]
  <2> DEFINE S == {k \in 0 .. n : g[k] \in Seq(Region)}
  <2>1. 0 \in S
    <3> HIDE DEF g
    <3>1. g[0] \in Seq(Region) /\ 0 \in 0 .. n
      BY <1>6, <1>n
    <3> QED BY <3>1
  <2>2. \A k \in 0 .. n - 1 : k \in S => k + 1 \in S
    <3> HIDE DEF g
    <3> SUFFICES ASSUME NEW k \in 0 .. n - 1, g[k] \in Seq(Region)
                 PROVE  k + 1 \in 0 .. n /\ g[k + 1] \in Seq(Region)
      BY <1>n
    <3>1. k + 1 \in 1 .. n /\ k + 1 \in 0 .. n /\ (k + 1) - 1 = k
      BY <1>n
    <3>2. g[k + 1] = Absorb(g[k], list[k + 1])
      BY <1>6, <3>1
    <3>3. list[k + 1] \in Region
      BY <1>n, <3>1
    <3> QED BY <3>1, <3>2, <3>3, AbsorbType
  <2>3. 0 .. n \subseteq S
    <3> HIDE DEF S
    <3> QED BY <1>n, <2>1, <2>2, UpTo
  <2> QED BY <2>3
<1>8. Coalesced(list) = g[n]
  BY <1>1, <1>n
<1> HIDE DEF g
<1> QED BY <1>6, <1>7, <1>8 DEF n

-----------------------------------------------------------------------------
\* Regions in the order of their addresses, and such that do not touch either;
\* the bytes they cover.
InOrder(list) == \A i, j \in DOMAIN list : i < j => End(list[i]) <= list[j].start
Loose(list) == \A i, j \in DOMAIN list : i < j => End(list[i]) < list[j].start
Has(r, p) == r.start <= p /\ p < End(r)
Covers(list, p) == \E i \in DOMAIN list : Has(list[i], p)

LEMMA RegionType ==
  ASSUME NEW r \in Region
  PROVE  /\ r.start \in Nat /\ r.size \in Nat \ {0} /\ End(r) \in Nat
         /\ End(r) = r.start + r.size /\ r.start < End(r)
BY DEF Region, End

LEMMA AbsorbStep ==
  ASSUME NEW done \in Seq(Region), Loose(done), NEW r \in Region,
         done # <<>> => End(Last(done)) <= r.start
  PROVE  /\ Loose(Absorb(done, r))
         /\ Absorb(done, r) # <<>>
         /\ End(Last(Absorb(done, r))) = End(r)
         /\ \A p \in Nat : Covers(Absorb(done, r), p) <=> Covers(done, p) \/ Has(r, p)
<1> DEFINE m == Len(done)
           new == Absorb(done, r)
<1>m. m \in Nat /\ DOMAIN done = 1 .. m /\ (done # <<>> <=> m # 0)
  OBVIOUS
<1>t. /\ \A i \in 1 .. m : /\ done[i].start \in Nat /\ End(done[i]) \in Nat
                           /\ done[i].start < End(done[i])
      /\ r.start \in Nat /\ End(r) \in Nat /\ r.start < End(r)
  BY RegionType
<1>1. CASE done # <<>> /\ End(Last(done)) = r.start
  <2> DEFINE x == [Last(done) EXCEPT !.size = @ + r.size]
  <2>1. new = Append(Front(done), x)
    BY <1>1 DEF Absorb
  <2>2. m \in 1 .. m /\ Last(done) = done[m] /\ done[m] \in Region
    BY <1>1, <1>m DEF Last
  <2>3. x.start = done[m].start /\ End(x) = End(r)
    <3>1. x.start = done[m].start /\ x.size = done[m].size + r.size
      BY <2>2 DEF Region
    <3> HIDE DEF x
    <3>2. End(done[m]) = done[m].start + done[m].size /\ End(r) = r.start + r.size
          /\ End(x) = x.start + x.size
      BY DEF End
    <3> QED BY <1>1, <2>2, <3>1, <3>2, RegionType
  <2> HIDE DEF x
  <2>4. DOMAIN new = 1 .. m /\ Len(new) = m /\ new[m] = x
        /\ \A i \in 1 .. m - 1 : new[i] = done[i]
    <3>1. /\ Len(Front(done)) = m - 1 /\ Front(done) \in Seq(Region)
          /\ \A i \in 1 .. m - 1 : Front(done)[i] = done[i]
      BY <1>1, <1>m DEF Front
    <3>2. x \in Region
      <4>1. x.size \in Nat \ {0}
        BY <2>2 DEF x, Region
      <4> QED BY <2>2, <4>1 DEF x, Region
    <3> HIDE DEF m, new
    <3> QED BY <1>1, <1>m, <2>1, <3>1, <3>2
  <2> HIDE DEF new, m
  <2>5. Loose(new)
    <3> SUFFICES ASSUME NEW i \in 1 .. m, NEW j \in 1 .. m, i < j
                 PROVE  End(new[i]) < new[j].start
      BY <2>4 DEF Loose
    <3>1. i \in 1 .. m - 1
      BY <1>m
    <3>2. new[i] = done[i] /\ new[j].start = done[j].start
      BY <1>m, <2>3, <2>4, <3>1
    <3> QED BY <1>m, <3>2 DEF Loose
  <2>6. Last(new) = x /\ new # <<>>
    BY <1>m, <2>2, <2>4 DEF Last
  <2>7. ASSUME NEW p \in Nat
        PROVE  Covers(new, p) <=> Covers(done, p) \/ Has(r, p)
    <3>1. Has(x, p) <=> Has(done[m], p) \/ Has(r, p)
      BY <1>1, <1>t, <2>2, <2>3 DEF Has
    <3>2. \A i \in 1 .. m : i = m \/ i \in 1 .. m - 1
      BY <1>m
    <3>3. \A i \in 1 .. m - 1 : i \in 1 .. m
      BY <1>m
    <3> QED BY <1>m, <2>2, <2>4, <3>1, <3>2, <3>3 DEF Covers
  <2> QED BY <2>3, <2>5, <2>6, <2>7 DEF new
<1>2. CASE ~(done # <<>> /\ End(Last(done)) = r.start)
  <2>1. new = Append(done, r)
    BY <1>2 DEF Absorb
  <2>2. DOMAIN new = 1 .. m + 1 /\ Len(new) = m + 1 /\ new[m + 1] = r
        /\ \A i \in 1 .. m : new[i] = done[i]
    BY <1>m, <2>1
  <2>3. Last(new) = r /\ new # <<>>
    BY <2>1, <2>2 DEF Last
  <2>4. \A i \in 1 .. m : End(done[i]) < r.start
    <3> SUFFICES ASSUME NEW i \in 1 .. m PROVE End(done[i]) < r.start
      OBVIOUS
    <3>1. m \in 1 .. m /\ Last(done) = done[m]
      BY <1>m DEF Last
    <3>2. End(done[m]) < r.start
      BY <1>2, <1>m, <1>t, <3>1
    <3>3. i = m \/ End(done[i]) < done[m].start
      <4> HIDE DEF m
      <4>1. i = m \/ i < m
        BY <1>m
      <4> QED BY <1>m, <3>1, <4>1 DEF Loose
    <3> QED BY <1>t, <3>1, <3>2, <3>3
  <2> HIDE DEF new, m
  <2>5. Loose(new)
    <3> SUFFICES ASSUME NEW i \in 1 .. m + 1, NEW j \in 1 .. m + 1, i < j
                 PROVE  End(new[i]) < new[j].start
      BY <2>2 DEF Loose
    <3>1. i \in 1 .. m /\ (j = m + 1 \/ j \in 1 .. m)
      BY <1>m
    <3> QED BY <1>m, <2>2, <2>4, <3>1 DEF Loose
  <2>6. ASSUME NEW p \in Nat
        PROVE  Covers(new, p) <=> Covers(done, p) \/ Has(r, p)
    <3>1. \A i \in 1 .. m + 1 : i = m + 1 \/ i \in 1 .. m
      BY <1>m
    <3>2. m + 1 \in 1 .. m + 1 /\ \A i \in 1 .. m : i \in 1 .. m + 1
      BY <1>m
    <3> QED BY <1>m, <2>2, <3>1, <3>2 DEF Covers
  <2> QED BY <2>3, <2>5, <2>6 DEF new
<1> QED BY <1>1, <1>2

\* One pass over an ordered list joins all the regions that touch, and keeps
\* every byte.
LEMMA CoalescedIs ==
  ASSUME NEW list \in Seq(Region), InOrder(list)
  PROVE  /\ Coalesced(list) \in Seq(Region)
         /\ Loose(Coalesced(list))
         /\ \A p \in Nat : Covers(Coalesced(list), p) <=> Covers(list, p)
<1> DEFINE n == Len(list)
<1>n. n \in Nat /\ DOMAIN list = 1 .. n /\ \A i \in 1 .. n : list[i] \in Region
  OBVIOUS
<1>1. PICK g \in [0 .. n -> Seq(Region)] :
           /\ g[0] = <<>>
           /\ \A k \in 1 .. n : g[k] = Absorb(g[k - 1], list[k])
           /\ Coalesced(list) = g[n]
  BY CoalescedSteps
<1> DEFINE Reached(k) ==
             /\ Loose(g[k])
             /\ g[k] # <<>> => k # 0 /\ End(Last(g[k])) = End(list[k])
             /\ \A p \in Nat : Covers(g[k], p) <=> \E i \in 1 .. k : Has(list[i], p)
           S == {k \in 0 .. n : Reached(k)}
<1> HIDE DEF n
<1>2. 0 \in S
  <2>1. Loose(<<>>) /\ \A p \in Nat : ~Covers(<<>>, p)
    BY DEF Loose, Covers
  <2> QED BY <1>1, <1>n, <2>1
<1>3. ASSUME NEW k \in 0 .. n - 1, Reached(k)
      PROVE  Reached(k + 1)
  <2>1. k + 1 \in 1 .. n /\ k \in 0 .. n /\ (k + 1) - 1 = k
    BY <1>n
  <2>2. g[k] \in Seq(Region) /\ list[k + 1] \in Region /\ g[k + 1] = Absorb(g[k], list[k + 1])
    BY <1>1, <1>n, <2>1
  <2>3. g[k] # <<>> => End(Last(g[k])) <= list[k + 1].start
    <3> SUFFICES ASSUME g[k] # <<>> PROVE End(list[k]) <= list[k + 1].start
      BY <1>3
    <3>1. k \in 1 .. n /\ k < k + 1
      BY <1>3, <2>1
    <3> QED BY <1>n, <2>1, <3>1 DEF InOrder
  <2>4. /\ Loose(g[k + 1])
        /\ End(Last(g[k + 1])) = End(list[k + 1])
        /\ \A p \in Nat : Covers(g[k + 1], p) <=> Covers(g[k], p) \/ Has(list[k + 1], p)
    BY <1>3, <2>2, <2>3, AbsorbStep
  <2>5. \A i : i \in 1 .. k + 1 <=> i \in 1 .. k \/ i = k + 1
    BY <2>1
  <2>6. \A p \in Nat : Covers(g[k + 1], p) <=> \E i \in 1 .. k + 1 : Has(list[i], p)
    BY <1>3, <2>4, <2>5
  <2>7. k + 1 # 0
    BY <2>1
  <2> QED BY <2>4, <2>6, <2>7
<1>4. n \in S
  <2>1. \A k \in 0 .. n - 1 : k \in S => k + 1 \in S
    <3>1. \A k \in 0 .. n - 1 : k + 1 \in 0 .. n
      BY <1>n
    <3> HIDE DEF Reached
    <3> QED BY <1>3, <3>1
  <2> HIDE DEF S
  <2>2. 0 .. n \subseteq S
    BY <1>n, <1>2, <2>1, UpTo
  <2> QED BY <1>n, <2>2
<1> QED BY <1>1, <1>4, <1>n DEF Covers

\* A region goes before the first one that lies behind it.
LEMMA InsertedIs ==
  ASSUME NEW list \in Seq(Region), Loose(list), NEW node \in Region,
         \A i \in DOMAIN list : Apart(list[i], node)
  PROVE  /\ Inserted(list, node) \in Seq(Region)
         /\ InOrder(Inserted(list, node))
         /\ \A p \in Nat : Covers(Inserted(list, node), p)
                           <=> Covers(list, p) \/ Has(node, p)
<1> DEFINE n == Len(list)
           I == {i \in 1 .. n : list[i].start > node.start}
           new == Inserted(list, node)
<1>n. n \in Nat /\ DOMAIN list = 1 .. n /\ \A i \in 1 .. n : list[i] \in Region
  OBVIOUS
<1>t. /\ \A i \in 1 .. n : /\ list[i].start \in Nat /\ End(list[i]) \in Nat
                           /\ list[i].start < End(list[i])
      /\ node.start \in Nat /\ End(node) \in Nat /\ node.start < End(node)
  BY <1>n, RegionType
<1>1. new = IF I = {} THEN Append(list, node) ELSE InsertAt(list, Min(I), node)
  <2>1. ASSUME I # {} PROVE Min(I) # 0
    <3>1. I \in SUBSET Nat /\ 0 \notin I
      OBVIOUS
    <3> HIDE DEF I
    <3> QED BY <2>1, <3>1, MinOfSome
  <2>2. new = LET i == IF I # {} THEN Min(I) ELSE 0
              IN  IF i = 0 THEN Append(list, node) ELSE InsertAt(list, i, node)
    BY Zenon DEF Inserted, SelectInSeq
  <2> HIDE DEF I, new
  <2> QED BY <2>1, <2>2
\* Both ways at once: the new region is at place i.
<1>2. \E i \in 1 .. n + 1 :
        /\ new \in Seq(Region) /\ Len(new) = n + 1
        /\ \A k \in 1 .. n + 1 :
             new[k] = IF k < i THEN list[k] ELSE IF k = i THEN node ELSE list[k - 1]
        /\ \A k \in 1 .. i - 1 : list[k].start <= node.start
        /\ i <= n => list[i].start > node.start
  <2>1. CASE I = {}
    <3>1. new = Append(list, node)
      BY <1>1, <2>1
    <3>2. new \in Seq(Region) /\ Len(new) = n + 1 /\ new[n + 1] = node
          /\ \A k \in 1 .. n : new[k] = list[k]
      BY <3>1
    <3>3. \A k \in 1 .. n : list[k].start <= node.start
      BY <1>t, <2>1
    <3>4. \A k \in 1 .. n + 1 : k = n + 1 \/ (k \in 1 .. n /\ k < n + 1)
      BY <1>n
    <3>5. n + 1 \in 1 .. n + 1 /\ (n + 1) - 1 = n /\ ~(n + 1 <= n)
      BY <1>n
    <3>6. \A k \in 1 .. n + 1 :
             new[k] = IF k < n + 1 THEN list[k] ELSE IF k = n + 1 THEN node ELSE list[k - 1]
      BY <3>2, <3>4, <1>n
    <3> HIDE DEF new, n
    <3> QED BY <3>2, <3>3, <3>5, <3>6
  <2>2. CASE I # {}
    <3>1. I \in SUBSET Nat
      OBVIOUS
    <3>2. PICK i \in I : i = Min(I) /\ \A t \in I : i <= t
      <4> HIDE DEF I
      <4> QED BY <2>2, <3>1, MinOfSome
    <3>3. i \in 1 .. n /\ list[i].start > node.start /\ i \in 1 .. n + 1
      OBVIOUS
    <3>4. new = InsertAt(list, i, node)
      BY <1>1, <2>2, <3>2
    <3>5. /\ new \in Seq(Region) /\ Len(new) = n + 1
          /\ \A k \in 1 .. n + 1 :
               new[k] = IF k < i THEN list[k] ELSE IF k = i THEN node ELSE list[k - 1]
      <4> HIDE DEF new, I
      <4>1. i \in 1 .. Len(list)
        BY <3>3
      <4>2. /\ InsertAt(list, i, node) \in Seq(Region)
            /\ Len(InsertAt(list, i, node)) = Len(list) + 1
            /\ \A k \in 1 .. Len(list) + 1 :
                 InsertAt(list, i, node)[k]
                   = IF k < i THEN list[k] ELSE IF k = i THEN node ELSE list[k - 1]
        BY <4>1, InsertAtIs
      <4> QED BY <3>4, <4>2
    <3>6. ASSUME NEW k \in 1 .. i - 1 PROVE list[k].start <= node.start
      <4>1. k \in 1 .. n /\ k \notin I
        BY <1>n, <3>2, <3>3
      <4> QED BY <1>t, <4>1
    <3> HIDE DEF new, n
    <3> QED BY <3>3, <3>5, <3>6
  <2> QED BY <2>1, <2>2
<1>3. PICK i \in 1 .. n + 1 :
        /\ new \in Seq(Region) /\ Len(new) = n + 1
        /\ \A k \in 1 .. n + 1 :
             new[k] = IF k < i THEN list[k] ELSE IF k = i THEN node ELSE list[k - 1]
        /\ \A k \in 1 .. i - 1 : list[k].start <= node.start
        /\ i <= n => list[i].start > node.start
  BY <1>2
<1>4. DOMAIN new = 1 .. n + 1
  BY <1>3
<1> HIDE DEF new, n, I
<1>5. \A k \in 1 .. n : k < i => End(list[k]) <= node.start
  <2> SUFFICES ASSUME NEW k \in 1 .. n, k < i PROVE End(list[k]) <= node.start
    OBVIOUS
  <2>1. list[k].start <= node.start
    BY <1>n, <1>3
  <2> QED BY <1>n, <1>t, <2>1 DEF Apart
<1>6. \A k \in 1 .. n : k >= i => End(node) <= list[k].start
  <2> SUFFICES ASSUME NEW k \in 1 .. n, k >= i PROVE End(node) <= list[k].start
    OBVIOUS
  <2>1. i \in 1 .. n /\ list[i].start > node.start
    BY <1>n, <1>3
  <2>2. i = k \/ End(list[i]) < list[k].start
    <3>1. i = k \/ i < k
      BY <1>n
    <3> QED BY <1>n, <2>1, <3>1 DEF Loose
  <2>3. list[k].start > node.start
    BY <1>t, <2>1, <2>2
  <2>4. End(list[k]) <= node.start \/ End(node) <= list[k].start
    BY <1>n DEF Apart
  <2> QED BY <1>t, <2>3, <2>4
<1>7. InOrder(new)
  <2> SUFFICES ASSUME NEW k \in 1 .. n + 1, NEW j \in 1 .. n + 1, k < j
               PROVE  End(new[k]) <= new[j].start
    BY <1>4 DEF InOrder
  <2>1. CASE k < i /\ j < i
    <3>1. k \in 1 .. n /\ j \in 1 .. n /\ new[k] = list[k] /\ new[j] = list[j]
      BY <1>3, <1>n, <2>1
    <3>2. End(list[k]) < list[j].start
      BY <1>n, <3>1 DEF Loose
    <3> QED BY <1>t, <3>1, <3>2
  <2>2. CASE k < i /\ j = i
    <3>1. k \in 1 .. n /\ new[k] = list[k] /\ new[j] = node
      BY <1>3, <1>n, <2>2
    <3> QED BY <1>5, <2>2, <3>1
  <2>3. CASE k < i /\ j > i
    <3>1. k \in 1 .. n /\ j - 1 \in 1 .. n /\ new[k] = list[k] /\ new[j] = list[j - 1]
          /\ k < j - 1
      BY <1>3, <1>n, <2>3
    <3>2. End(list[k]) < list[j - 1].start
      BY <1>n, <3>1 DEF Loose
    <3> QED BY <1>t, <3>1, <3>2
  <2>4. CASE k = i
    <3>1. j - 1 \in 1 .. n /\ new[k] = node /\ new[j] = list[j - 1] /\ j - 1 >= i
      BY <1>3, <1>n, <2>4
    <3> QED BY <1>6, <3>1
  <2>5. CASE k > i
    <3>1. k - 1 \in 1 .. n /\ j - 1 \in 1 .. n /\ k - 1 < j - 1
          /\ new[k] = list[k - 1] /\ new[j] = list[j - 1]
      BY <1>3, <1>n, <2>5
    <3>2. End(list[k - 1]) < list[j - 1].start
      BY <1>n, <3>1 DEF Loose
    <3> QED BY <1>t, <3>1, <3>2
  <2>6. \/ k < i /\ j < i
        \/ k < i /\ j = i
        \/ k < i /\ j > i
        \/ k = i
        \/ k > i
    BY <1>n
  <2> QED BY <2>1, <2>2, <2>3, <2>4, <2>5, <2>6
<1>8. ASSUME NEW p \in Nat
      PROVE  Covers(new, p) <=> Covers(list, p) \/ Has(node, p)
  <2>1. ASSUME NEW k \in 1 .. n + 1, Has(new[k], p)
        PROVE  Covers(list, p) \/ Has(node, p)
    <3>1. \/ k \in 1 .. n /\ new[k] = list[k]
          \/ new[k] = node
          \/ k - 1 \in 1 .. n /\ new[k] = list[k - 1]
      BY <1>3, <1>n
    <3> QED BY <1>n, <2>1, <3>1 DEF Covers
  <2>2. ASSUME NEW k \in 1 .. n, Has(list[k], p)
        PROVE  Covers(new, p)
    <3>1. \/ k \in 1 .. n + 1 /\ new[k] = list[k]
          \/ k + 1 \in 1 .. n + 1 /\ new[k + 1] = list[k]
      BY <1>3, <1>n
    <3> QED BY <1>4, <2>2, <3>1 DEF Covers
  <2>3. ASSUME Has(node, p)
        PROVE  Covers(new, p)
    <3>1. new[i] = node
      BY <1>3, <1>n
    <3> QED BY <1>4, <2>3, <3>1 DEF Covers
  <2> QED BY <1>4, <1>n, <2>1, <2>2, <2>3 DEF Covers
<1> QED BY <1>3, <1>7, <1>8 DEF new

-----------------------------------------------------------------------------
\* Regions that do not touch are told by the bytes they cover.
LEMMA OneDecomposition ==
  ASSUME NEW A \in SUBSET Region, NEW B \in SUBSET Region,
         \A r, q \in A : r # q => End(r) < q.start \/ End(q) < r.start,
         \A r, q \in B : r # q => End(r) < q.start \/ End(q) < r.start,
         \A p \in Nat : (\E r \in A : Has(r, p)) <=> (\E r \in B : Has(r, p))
  PROVE  A \subseteq B
<1> SUFFICES ASSUME NEW r \in A PROVE r \in B
  OBVIOUS
<1>t. \A q \in A \cup B : /\ q.start \in Nat /\ q.size \in Nat \ {0} /\ End(q) \in Nat
                          /\ End(q) = q.start + q.size /\ q.start < End(q)
  BY RegionType
<1>1. PICK s \in B : Has(s, r.start)
  BY <1>t DEF Has
<1>2. s.start = r.start
  <2> SUFFICES ASSUME s.start < r.start PROVE FALSE
    BY <1>t, <1>1 DEF Has
  <2>1. r.start - 1 \in Nat /\ Has(s, r.start - 1)
    BY <1>t, <1>1 DEF Has
  <2>2. PICK q \in A : Has(q, r.start - 1)
    BY <2>1
  <2> QED BY <1>t, <2>2 DEF Has
<1>3. End(s) <= End(r)
  <2> SUFFICES ASSUME End(r) < End(s) PROVE FALSE
    BY <1>t
  <2>1. Has(s, End(r))
    BY <1>t, <1>2 DEF Has
  <2>2. PICK q \in A : Has(q, End(r))
    BY <1>t, <2>1
  <2> QED BY <1>t, <2>2 DEF Has
<1>4. End(r) <= End(s)
  <2> SUFFICES ASSUME End(s) < End(r) PROVE FALSE
    BY <1>t
  <2>1. Has(r, End(s))
    BY <1>t, <1>2 DEF Has
  <2>2. PICK q \in B : Has(q, End(s))
    BY <1>t, <2>1
  <2> QED BY <1>t, <2>2 DEF Has
<1>5. r.size = s.size
  BY <1>t, <1>2, <1>3, <1>4
<1>6. r = s
  BY <1>2, <1>5 DEF Region
<1> QED BY <1>6

-----------------------------------------------------------------------------
\* What is known of the sets, said of the sets that the lists stand for.
Lemmas == INSTANCE AllocatorProofs WITH free <- ToSet(regions), pool <- PoolOf(blocks)

LEMMA SameLayout ==
  /\ Lemmas!Region = Region
  /\ \A r : Lemmas!End(r) = End(r)
  /\ \A r, q : Lemmas!Apart(r, q) <=> Apart(r, q)
  /\ \A r : Lemmas!InHeap(r) <=> InHeap(r)
  /\ \A r, p : Lemmas!Has(r, p) <=> Has(r, p)
  /\ \A a, n : Lemmas!AlignUp(a, n) = AlignUp(a, n)
  /\ \A r, l : Lemmas!AllocStart(r, l) = AllocStart(r, l)
  /\ \A r, l : Lemmas!AllocEnd(r, l) = AllocEnd(r, l)
  /\ \A r, l : Lemmas!Fits(r, l) <=> Fits(r, l)
  /\ \A l : (Lemmas!Small(l) <=> Small(l)) /\ Lemmas!Class(l) = Class(l)
            /\ Lemmas!NewBlock(l) = NewBlock(l)
  /\ \A a, l : Lemmas!Block(a, l) = Block(a, l)
<1>1. Lemmas!Region = Region
  BY DEF Lemmas!Region, Region
<1>2. \A r : Lemmas!End(r) = End(r)
  BY DEF Lemmas!End, End
<1>3. \A r, q : Lemmas!Apart(r, q) <=> Apart(r, q)
  BY <1>2 DEF Lemmas!Apart, Apart
<1>4. \A r : Lemmas!InHeap(r) <=> InHeap(r)
  BY <1>2 DEF Lemmas!InHeap, InHeap
<1>5. \A r, p : Lemmas!Has(r, p) <=> Has(r, p)
  BY <1>2 DEF Lemmas!Has, Has
<1>6. \A a, n : Lemmas!AlignUp(a, n) = AlignUp(a, n)
  BY DEF Lemmas!AlignUp, AlignUp
<1>7. \A r, l : Lemmas!AllocStart(r, l) = AllocStart(r, l)
  BY <1>6 DEF Lemmas!AllocStart, AllocStart
<1>8. \A r, l : Lemmas!AllocEnd(r, l) = AllocEnd(r, l)
  BY <1>6, <1>7 DEF Lemmas!AllocEnd, AllocEnd
<1>9. \A r, l : Lemmas!Fits(r, l) <=> Fits(r, l)
  BY <1>2, <1>8 DEF Lemmas!Fits, Fits
<1>10. \A l : (Lemmas!Small(l) <=> Small(l)) /\ Lemmas!Class(l) = Class(l)
              /\ Lemmas!NewBlock(l) = NewBlock(l)
  BY DEF Lemmas!Small, Small, Lemmas!Class, Class, Lemmas!NewBlock, NewBlock,
         Lemmas!Needed, Needed
<1>11. \A a, l : Lemmas!Block(a, l) = Block(a, l)
  BY DEF Lemmas!Block, Block
<1> QED
  BY <1>1, <1>2, <1>3, <1>4, <1>5, <1>6, <1>7, <1>8, <1>9, <1>10, <1>11

\* add_free_region does to the list what it does to the set: the node goes to
\* its place and is joined with what touches it on either side.
LEMMA AddIs ==
  ASSUME NEW list \in Seq(Region), Loose(list), Lemmas!Good(ToSet(list)),
         NEW e \in Region, InHeap(e), Lemmas!Away(ToSet(list), e)
  PROVE  /\ AddFreeRegion(list, e.start, e.size) \in Seq(Region)
         /\ Loose(AddFreeRegion(list, e.start, e.size))
         /\ ToSet(AddFreeRegion(list, e.start, e.size))
              = Lemmas!AddFreeRegion(ToSet(list), e.start, e.size)
<1> DEFINE start == AlignUp(e.start, NodeAlign)
           padding == start - e.start
           n == e.size - padding
           new == [start |-> start, size |-> n]
           F == ToSet(list)
<1>1. CASE e.size <= padding \/ n < NodeSize
  <2>1. AddFreeRegion(list, e.start, e.size) = list
    BY <1>1 DEF AddFreeRegion
  <2>2. Lemmas!AddFreeRegion(F, e.start, e.size) = F
    BY <1>1, SameLayout DEF Lemmas!AddFreeRegion
  <2> QED BY <2>1, <2>2
<1>2. CASE ~(e.size <= padding \/ n < NodeSize)
  <2>1. AddFreeRegion(list, e.start, e.size) = Coalesced(Inserted(list, new))
    BY <1>2 DEF AddFreeRegion
  <2>2. Lemmas!AddFreeRegion(F, e.start, e.size) = Lemmas!Join(F, start, n)
    BY <1>2, SameLayout DEF Lemmas!AddFreeRegion
  <2>3. n >= NodeSize
    <3>1. start \in Nat
      <4>1. e.start \in Nat /\ NodeAlign \in Nat \ {0}
        BY HeapAssumption DEF Region
      <4>2. Lemmas!AlignUp(e.start, NodeAlign) \in Nat
        BY <4>1, Lemmas!AlignUpType, HeapAssumption, BlockAssumption, LayoutAssumption
      <4> QED BY <4>2, SameLayout
    <3> HIDE DEF start
    <3>2. n \in Int
      BY <3>1 DEF Region
    <3> HIDE DEF n
    <3> QED BY <1>2, <3>2, HeapAssumption
  <2> HIDE DEF F, new
  <2>4. /\ start \in Nat /\ start % NodeAlign = 0 /\ n \in Nat \ {0}
        /\ new \in Region /\ InHeap(new)
        /\ \A q \in Region : (Apart(e, q) => Apart(new, q)) /\ (Apart(q, e) => Apart(q, new))
    BY <2>3, Lemmas!Trimmed, SameLayout,
       HeapAssumption, BlockAssumption, LayoutAssumption
    DEF new
  <2>5. F \subseteq Region /\ \A i \in DOMAIN list : list[i] \in F
    BY DEF F, ToSet
  <2>6. \A r \in F : Apart(r, new)
    BY <2>4, <2>5, SameLayout DEF Lemmas!Away, F
  <2>7. new.start = start /\ End(new) = start + n /\ new = [start |-> start, size |-> n]
    BY DEF new, End
  <2> HIDE DEF start, n
  <2>8. /\ Lemmas!Good(Lemmas!Join(F, start, n))
        /\ \A p \in Nat : Lemmas!Covered(Lemmas!Join(F, start, n), p)
                          <=> Lemmas!Covered(F, p) \/ (start <= p /\ p < start + n)
    <3>1. Lemmas!Away(F, new)
      BY <2>6, SameLayout DEF Lemmas!Away
    <3>2. Lemmas!Good(F) /\ Lemmas!InHeap(new)
      BY <2>4, SameLayout DEF F
    <3>3. /\ Lemmas!InHeap([start |-> start, size |-> n])
          /\ Lemmas!Away(F, [start |-> start, size |-> n])
      BY <2>7, <3>1, <3>2
    <3> QED
      BY <2>3, <2>4, <3>2, <3>3, Lemmas!JoinGood,
         HeapAssumption, BlockAssumption, LayoutAssumption
  <2> DEFINE I == Inserted(list, new)
             C == Coalesced(I)
             J == Lemmas!Join(F, start, n)
  <2>9. /\ I \in Seq(Region) /\ InOrder(I)
        /\ \A p \in Nat : Covers(I, p) <=> Covers(list, p) \/ Has(new, p)
    BY <2>4, <2>5, <2>6, InsertedIs
  <2> HIDE DEF I
  <2>10. /\ C \in Seq(Region) /\ Loose(C)
         /\ \A p \in Nat : Covers(C, p) <=> Covers(I, p)
    BY <2>9, CoalescedIs
  <2> HIDE DEF C, J
  <2>11. ToSet(C) \in SUBSET Region /\ J \in SUBSET Region
    BY <2>8, <2>10, SameLayout DEF ToSet, Lemmas!Good, J
  <2>12. \A r, q \in ToSet(C) : r # q => End(r) < q.start \/ End(q) < r.start
    <3> SUFFICES ASSUME NEW i \in DOMAIN C, NEW j \in DOMAIN C, C[i] # C[j]
                 PROVE  End(C[i]) < C[j].start \/ End(C[j]) < C[i].start
      BY DEF ToSet
    <3>1. i < j \/ j < i
      BY <2>10
    <3> QED BY <3>1, <2>10 DEF Loose
  <2>13. \A r, q \in J : r # q => End(r) < q.start \/ End(q) < r.start
    <3> SUFFICES ASSUME NEW r \in J, NEW q \in J, r # q
                 PROVE  End(r) < q.start \/ End(q) < r.start
      OBVIOUS
    <3>1. Apart(r, q) /\ End(r) # q.start /\ End(q) # r.start
      BY <2>8, SameLayout DEF Lemmas!Good, J
    <3>2. r.start \in Nat /\ q.start \in Nat /\ End(r) \in Nat /\ End(q) \in Nat
      BY <2>11, RegionType
    <3> QED BY <3>1, <3>2 DEF Apart
  <2>14. \A p \in Nat : (\E r \in ToSet(C) : Has(r, p)) <=> (\E r \in J : Has(r, p))
    <3> SUFFICES ASSUME NEW p \in Nat
                 PROVE  (\E r \in ToSet(C) : Has(r, p)) <=> (\E r \in J : Has(r, p))
      OBVIOUS
    <3>1. (\E r \in ToSet(C) : Has(r, p)) <=> Covers(C, p)
      BY DEF ToSet, Covers
    <3>2. (\E r \in F : Has(r, p)) <=> Covers(list, p)
      BY DEF ToSet, Covers, F
    <3>3. (\E r \in J : Has(r, p)) <=> (\E r \in F : Has(r, p)) \/ Has(new, p)
      BY <2>7, <2>8, SameLayout DEF Lemmas!Covered, J, Has
    <3> QED BY <2>9, <2>10, <3>1, <3>2, <3>3
  <2>15. ToSet(C) = J
    <3>1. ToSet(C) \subseteq J
      BY <2>11, <2>12, <2>13, <2>14, OneDecomposition
    <3>2. J \subseteq ToSet(C)
      BY <2>11, <2>12, <2>13, <2>14, OneDecomposition
    <3> QED BY <3>1, <3>2
  <2> QED BY <2>1, <2>2, <2>10, <2>15 DEF C, I, J, F
<1> QED BY <1>1, <1>2

-----------------------------------------------------------------------------
\* The inductive invariant of the lists: the nodes are linked in the order of
\* their addresses and do not touch, and no class holds a block twice.
Distinct(list) == \A i, j \in DOMAIN list : list[i] = list[j] => i = j

ListInv ==
  /\ regions \in Seq(Region)
  /\ Loose(regions)
  /\ blocks \in [BlockSizes -> Seq(Nat)]
  /\ \A s \in BlockSizes : Distinct(blocks[s])

\* The first node that fits is the lowest region that fits.
LEMMA FirstIsLowest ==
  ASSUME ListInv, NEW l, FindRegion(l) # 0
  PROVE  /\ FindRegion(l) \in DOMAIN regions
         /\ Fits(regions[FindRegion(l)], l)
         /\ \A q \in ToSet(regions) : Fits(q, l) => regions[FindRegion(l)].start <= q.start
<1> DEFINE I == {i \in 1 .. Len(regions) : Fits(regions[i], l)}
           i == FindRegion(l)
<1>1. i = IF I # {} THEN Min(I) ELSE 0
  BY Zenon DEF FindRegion, SelectInSeq
<1>2. I \in SUBSET Nat /\ DOMAIN regions = 1 .. Len(regions)
      /\ \A k \in DOMAIN regions : regions[k] \in Region
  BY DEF ListInv
<1>3. i \in I /\ \A t \in I : i <= t
  <2> HIDE DEF I
  <2> QED BY <1>1, <1>2, MinOfSome
<1> HIDE DEF i
<1>4. ASSUME NEW k \in DOMAIN regions, Fits(regions[k], l)
      PROVE  regions[i].start <= regions[k].start
  <2>1. k \in I /\ i \in DOMAIN regions /\ i \in Nat /\ k \in Nat
    BY <1>2, <1>3, <1>4
  <2>2. i = k \/ i < k
    BY <1>3, <2>1
  <2>3. i < k => End(regions[i]) < regions[k].start
    BY <2>1 DEF ListInv, Loose
  <2>4. /\ regions[i].start \in Nat /\ End(regions[i]) \in Nat
        /\ regions[i].start < End(regions[i]) /\ regions[k].start \in Nat
    BY <1>2, <2>1, RegionType
  <2> QED BY <2>2, <2>3, <2>4
<1>5. i \in DOMAIN regions /\ Fits(regions[i], l)
  BY <1>2, <1>3
<1> QED BY <1>4, <1>5 DEF ToSet, i

LEMMA NoneFits ==
  ASSUME ListInv, NEW l, FindRegion(l) = 0
  PROVE  \A q \in ToSet(regions) : ~Fits(q, l)
<1> DEFINE I == {i \in 1 .. Len(regions) : Fits(regions[i], l)}
<1>1. 0 = IF I # {} THEN Min(I) ELSE 0
  BY Zenon DEF FindRegion, SelectInSeq
<1>2. I \in SUBSET Nat /\ 0 \notin I
  OBVIOUS
<1>3. I = {}
  <2> HIDE DEF I
  <2> QED BY <1>1, <1>2, MinOfSome
<1> QED BY <1>3 DEF ToSet, ListInv

\* Unlinking a node leaves the others in order.
LEMMA Unlinked ==
  ASSUME NEW list \in Seq(Region), Loose(list), NEW i \in DOMAIN list
  PROVE  /\ RemoveAt(list, i) \in Seq(Region)
         /\ Loose(RemoveAt(list, i))
         /\ ToSet(RemoveAt(list, i)) = ToSet(list) \ {list[i]}
<1> DEFINE n == Len(list)
           rest == RemoveAt(list, i)
<1>n. n \in Nat /\ DOMAIN list = 1 .. n /\ i \in 1 .. n
      /\ \A k \in 1 .. n : list[k] \in Region
  OBVIOUS
<1>1. rest \in Seq(Region) /\ Len(rest) = n - 1
  BY <1>n, RemoveAtIs
<1>2. \A k \in 1 .. n - 1 : rest[k] = IF k < i THEN list[k] ELSE list[k + 1]
  BY <1>n, RemoveAtIs
<1>3. DOMAIN rest = 1 .. n - 1
  BY <1>1
<1> HIDE DEF n, rest
<1>4. Loose(rest)
  <2> SUFFICES ASSUME NEW k \in 1 .. n - 1, NEW j \in 1 .. n - 1, k < j
               PROVE  End(rest[k]) < rest[j].start
    BY <1>3 DEF Loose
  <2> DEFINE u == IF k < i THEN k ELSE k + 1
             v == IF j < i THEN j ELSE j + 1
  <2>1. u \in 1 .. n /\ v \in 1 .. n /\ u < v
    BY <1>n
  <2>2. rest[k] = list[u] /\ rest[j] = list[v]
    BY <1>2
  <2> HIDE DEF u, v
  <2> QED BY <1>n, <2>1, <2>2 DEF Loose
<1>5. ASSUME NEW k \in 1 .. n, k # i
      PROVE  list[k] # list[i] /\ \E j \in 1 .. n - 1 : rest[j] = list[k]
  <2>1. k < i \/ i < k
    BY <1>n, <1>5
  <2>2. End(list[k]) < list[i].start \/ End(list[i]) < list[k].start
    BY <1>n, <2>1 DEF Loose
  <2>3. list[k].start < End(list[k]) /\ list[k].start \in Nat /\ End(list[k]) \in Nat
    BY <1>n, RegionType
  <2>4. list[k] # list[i]
    BY <2>2, <2>3
  <2> DEFINE j == IF k < i THEN k ELSE k - 1
  <2>5. j \in 1 .. n - 1 /\ (IF j < i THEN j ELSE j + 1) = k
    BY <1>n, <1>5
  <2>6. rest[j] = list[k]
    BY <1>2, <2>5
  <2> QED BY <2>4, <2>5, <2>6
<1>6. ASSUME NEW j \in 1 .. n - 1
      PROVE  \E k \in 1 .. n : k # i /\ rest[j] = list[k]
  <2> DEFINE k == IF j < i THEN j ELSE j + 1
  <2>1. k \in 1 .. n /\ k # i
    BY <1>n
  <2>2. rest[j] = list[k]
    BY <1>2
  <2> QED BY <2>1, <2>2
<1>7. ToSet(rest) = ToSet(list) \ {list[i]}
  <2>1. ToSet(rest) = {rest[j] : j \in 1 .. n - 1}
    BY <1>3 DEF ToSet
  <2>2. ToSet(list) = {list[k] : k \in 1 .. n}
    BY <1>n DEF ToSet
  <2>3. ASSUME NEW r \in ToSet(rest) PROVE r \in ToSet(list) \ {list[i]}
    BY <1>5, <1>6, <2>1, <2>2
  <2>4. ASSUME NEW r \in ToSet(list), r # list[i] PROVE r \in ToSet(rest)
    BY <1>5, <2>1, <2>2, <2>4
  <2> QED BY <2>3, <2>4
<1> QED BY <1>1, <1>4, <1>7 DEF rest

\* fallback_alloc on the list is fallback_alloc on the set.
LEMMA FallbackIs ==
  ASSUME ListInv, Lemmas!Inv, NEW l \in [size : Nat \ {0}, align : Nat \ {0}],
         NEW asked, FallbackAlloc(l, asked), FindRegion(l) # 0
  PROVE  /\ ListInv'
         /\ \E r \in ToSet(regions) :
              /\ Lemmas!FallbackAlloc(r, l)
              /\ live' = live \cup {Block(AllocStart(r, l), asked)}
         /\ UNCHANGED <<blocks, oom>>
<1> DEFINE i == FindRegion(l)
           r == regions[i]
           end == AllocEnd(r, l)
           excess == End(r) - end
           rest == RemoveAt(regions, i)
           F == ToSet(regions)
<1>1. /\ i \in DOMAIN regions /\ Fits(r, l)
      /\ \A q \in F : Fits(q, l) => r.start <= q.start
  BY FirstIsLowest
<1>2. /\ regions' = IF excess >= NodeSize THEN AddFreeRegion(rest, end, excess) ELSE rest
      /\ live' = live \cup {Block(AllocStart(r, l), asked)}
      /\ UNCHANGED <<blocks, oom>>
  BY DEF FallbackAlloc
<1>3. r \in F
  BY <1>1 DEF ToSet
<1>4. /\ rest \in Seq(Region) /\ Loose(rest)
      /\ ToSet(rest) = F \ {r}
  BY <1>1, Unlinked DEF ListInv
<1> HIDE DEF i, rest
<1>5. Lemmas!Good(F) /\ Lemmas!Good(F \ {r})
  BY DEF Lemmas!Inv, Lemmas!Good
<1>6. ASSUME excess >= NodeSize
      PROVE  /\ regions' \in Seq(Region) /\ Loose(regions')
             /\ ToSet(regions') = Lemmas!AddFreeRegion(F \ {r}, end, excess)
  <2> DEFINE left == [start |-> end, size |-> excess]
  <2>1. end = Lemmas!AllocEnd(r, l) /\ excess = Lemmas!End(r) - end
        /\ Lemmas!End(r) - end >= NodeSize
    BY <1>6, SameLayout
  <2> HIDE DEF F, r, end, excess
  <2>2. /\ left \in Lemmas!Region /\ left.start = end /\ left.size = excess
        /\ Lemmas!InHeap(left) /\ Lemmas!Away(F \ {r}, left)
    <3>1. left = [start |-> end, size |-> excess]
      OBVIOUS
    <3> HIDE DEF left
    <3>2. end = Lemmas!AllocEnd(r, l) /\ excess = Lemmas!End(r) - end
          /\ excess >= NodeSize /\ Lemmas!Good(F)
      BY <1>5, <1>6, <2>1
    <3> QED BY <1>3, <3>1, <3>2, Lemmas!Leftover,
               HeapAssumption, BlockAssumption, LayoutAssumption
  <2>3. /\ AddFreeRegion(rest, left.start, left.size) \in Seq(Region)
        /\ Loose(AddFreeRegion(rest, left.start, left.size))
        /\ ToSet(AddFreeRegion(rest, left.start, left.size))
              = Lemmas!AddFreeRegion(ToSet(rest), left.start, left.size)
    BY <1>4, <1>5, <2>2, SameLayout, AddIs
  <2> QED BY <1>2, <1>4, <1>6, <2>2, <2>3
<1>7. ASSUME ~(excess >= NodeSize)
      PROVE  /\ regions' \in Seq(Region) /\ Loose(regions')
             /\ ToSet(regions') = F \ {r}
  BY <1>2, <1>4, <1>7
<1>8. ToSet(regions)' = IF excess >= NodeSize THEN Lemmas!AddFreeRegion(F \ {r}, end, excess)
                                              ELSE F \ {r}
  <2>1. ToSet(regions)' = ToSet(regions')
    BY DEF ToSet
  <2> HIDE DEF F, r, end, excess
  <2> QED BY <1>6, <1>7, <2>1
<1>9. Lemmas!FallbackAlloc(r, l)
  <2>1. Lemmas!FirstFit(r, l)
    BY <1>1, <1>3, SameLayout DEF Lemmas!FirstFit
  <2> HIDE DEF r
  <2> QED BY <1>8, <2>1, SameLayout DEF Lemmas!FallbackAlloc
<1>10. ListInv'
  <2>1. regions' \in Seq(Region) /\ Loose(regions')
    BY <1>6, <1>7
  <2> QED BY <1>2, <2>1 DEF ListInv, Loose, Distinct
<1> HIDE DEF r
<1> QED BY <1>2, <1>3, <1>9, <1>10

-----------------------------------------------------------------------------
\* The blocks of a class and the pool.
LEMMA InPool ==
  ASSUME NEW lists, NEW r
  PROVE  r \in PoolOf(lists)
         <=> \E t, i : /\ t \in BlockSizes /\ i \in DOMAIN lists[t]
                       /\ r = [start |-> lists[t][i], size |-> t]
BY DEF PoolOf, ToSet

\* A class whose list is empty is one of which the pool has no block.
LEMMA EmptyClass ==
  ASSUME NEW lists \in [BlockSizes -> Seq(Nat)], NEW s \in BlockSizes
  PROVE  lists[s] = <<>> <=> \A r \in PoolOf(lists) : r.size # s
<1>1. ASSUME lists[s] = <<>>, NEW r \in PoolOf(lists) PROVE r.size # s
  <2>1. PICK t, i : /\ t \in BlockSizes /\ i \in DOMAIN lists[t]
                     /\ r = [start |-> lists[t][i], size |-> t]
    BY InPool
  <2>2. DOMAIN lists[s] = {}
    BY <1>1
  <2> QED BY <2>1, <2>2
<1>2. ASSUME lists[s] # <<>> PROVE \E r \in PoolOf(lists) : r.size = s
  <2>1. 1 \in DOMAIN lists[s]
    BY <1>2
  <2>2. [start |-> lists[s][1], size |-> s] \in PoolOf(lists)
    BY <2>1, InPool
  <2> QED BY <2>2
<1> QED BY <1>1, <1>2

\* Taking the head of a class takes its block, and no other, from the pool.
LEMMA Pop ==
  ASSUME NEW lists \in [BlockSizes -> Seq(Nat)], \A t \in BlockSizes : Distinct(lists[t]),
         NEW s \in BlockSizes, lists[s] # <<>>,
         NEW new \in [BlockSizes -> Seq(Nat)], new[s] = Tail(lists[s]),
         \A t \in BlockSizes \ {s} : new[t] = lists[t]
  PROVE  /\ \A t \in BlockSizes : Distinct(new[t])
         /\ [start |-> Head(lists[s]), size |-> s] \in PoolOf(lists)
         /\ PoolOf(new) = PoolOf(lists) \ {[start |-> Head(lists[s]), size |-> s]}
<1> DEFINE n == Len(lists[s])
           top == [start |-> Head(lists[s]), size |-> s]
<1>1. /\ n \in Nat \ {0} /\ DOMAIN lists[s] = 1 .. n
      /\ lists[s] \in Seq(Nat)
      /\ Head(lists[s]) = lists[s][1]
  OBVIOUS
<1>2. /\ new[s] \in Seq(Nat) /\ DOMAIN new[s] = 1 .. n - 1
      /\ \A i \in 1 .. n - 1 : new[s][i] = lists[s][i + 1]
  <2>2. Tail(lists[s]) \in Seq(Nat) /\ Len(Tail(lists[s])) = n - 1
    BY <1>1
  <2>3. \A i \in 1 .. n - 1 : Tail(lists[s])[i] = lists[s][i + 1]
    BY <1>1
  <2> QED BY <2>2, <2>3
<1>3. \A t \in BlockSizes \ {s} : new[t] = lists[t]
  OBVIOUS
<1>5. Distinct(new[s])
  <2> SUFFICES ASSUME NEW i \in 1 .. n - 1, NEW j \in 1 .. n - 1, new[s][i] = new[s][j]
               PROVE  i = j
    BY <1>2 DEF Distinct
  <2>1. /\ i + 1 \in DOMAIN lists[s] /\ j + 1 \in DOMAIN lists[s]
        /\ lists[s][i + 1] = lists[s][j + 1]
    BY <1>1, <1>2
  <2>2. i + 1 = j + 1
    BY <2>1 DEF Distinct
  <2> QED BY <1>1, <2>2
<1>6. top = [start |-> lists[s][1], size |-> s]
  BY <1>1
<1>7. top \in PoolOf(lists)
  <2>1. 1 \in DOMAIN lists[s]
    BY <1>1
  <2> QED BY <1>6, <2>1, InPool
<1>8. ASSUME NEW r \in PoolOf(new) PROVE r \in PoolOf(lists) /\ r # top
  <2>1. PICK t, i : /\ t \in BlockSizes /\ i \in DOMAIN new[t]
                     /\ r = [start |-> new[t][i], size |-> t]
    BY InPool
  <2>2. CASE t # s
    <3>1. i \in DOMAIN lists[t] /\ r = [start |-> lists[t][i], size |-> t] /\ r.size # s
      BY <1>3, <2>1, <2>2
    <3> QED BY <3>1, InPool
  <2>3. CASE t = s
    <3>1. i \in 1 .. n - 1 /\ r = [start |-> lists[s][i + 1], size |-> s]
      BY <1>2, <2>1, <2>3
    <3>2. i + 1 \in DOMAIN lists[s] /\ 1 \in DOMAIN lists[s] /\ i + 1 # 1
      BY <1>1, <3>1
    <3>3. lists[s][i + 1] # lists[s][1]
      BY <3>2 DEF Distinct
    <3>4. r # top
      BY <1>6, <3>1, <3>3
    <3> QED BY <3>1, <3>2, <3>4, InPool
  <2> QED BY <2>2, <2>3
<1>9. ASSUME NEW r \in PoolOf(lists), r # top PROVE r \in PoolOf(new)
  <2>1. PICK t, i : /\ t \in BlockSizes /\ i \in DOMAIN lists[t]
                     /\ r = [start |-> lists[t][i], size |-> t]
    BY InPool
  <2>2. CASE t # s
    <3>1. i \in DOMAIN new[t] /\ r = [start |-> new[t][i], size |-> t]
      BY <1>3, <2>1, <2>2
    <3> QED BY <3>1, InPool
  <2>3. CASE t = s
    <3>1. i \in 1 .. n /\ i # 1
      BY <1>1, <1>6, <1>9, <2>1, <2>3
    <3>2. i - 1 \in 1 .. n - 1 /\ (i - 1) + 1 = i
      BY <1>1, <3>1
    <3>3. i - 1 \in DOMAIN new[s] /\ r = [start |-> new[s][i - 1], size |-> s]
      BY <1>2, <2>1, <2>3, <3>2
    <3> QED BY <3>3, InPool
  <2> QED BY <2>2, <2>3
<1>10. PoolOf(new) = PoolOf(lists) \ {top}
  BY <1>8, <1>9
<1>11. \A t \in BlockSizes : Distinct(new[t])
  <2> SUFFICES ASSUME NEW t \in BlockSizes PROVE Distinct(new[t])
    OBVIOUS
  <2>1. t = s \/ new[t] = lists[t]
    BY <1>3
  <2> QED BY <1>5, <2>1
<1> QED BY <1>7, <1>10, <1>11

\* A block pushed on a class is, besides those that were there, the only one in
\* the pool; when it is new to the class, no block is there twice.
LEMMA Pushed ==
  ASSUME NEW lists \in [BlockSizes -> Seq(Nat)], NEW s \in BlockSizes, NEW a \in Nat,
         NEW longer, longer = <<a>> \o lists[s],
         NEW new \in [BlockSizes -> Seq(Nat)], new[s] = longer
  PROVE  /\ DOMAIN lists[s] = 1 .. Len(lists[s]) /\ Len(lists[s]) \in Nat
         /\ DOMAIN new[s] = 1 .. Len(lists[s]) + 1 /\ new[s][1] = a
         /\ \A i \in 1 .. Len(lists[s]) : new[s][i + 1] = lists[s][i]
<1> DEFINE n == Len(lists[s])
<1>1. n \in Nat /\ DOMAIN lists[s] = 1 .. n /\ lists[s] \in Seq(Nat)
  OBVIOUS
<1>2. <<a>> \in Seq(Nat) /\ Len(<<a>>) = 1 /\ <<a>>[1] = a
  OBVIOUS
<1>3. /\ <<a>> \o lists[s] \in Seq(Nat) /\ Len(<<a>> \o lists[s]) = n + 1
      /\ (<<a>> \o lists[s])[1] = a
  BY <1>1, <1>2
<1>4. \A i \in 1 .. n : (<<a>> \o lists[s])[i + 1] = lists[s][i]
  BY <1>1, <1>2
<1> QED BY <1>1, <1>3, <1>4

LEMMA PushPool ==
  ASSUME NEW lists \in [BlockSizes -> Seq(Nat)], NEW s \in BlockSizes, NEW a \in Nat,
         NEW longer, longer = <<a>> \o lists[s],
         NEW new \in [BlockSizes -> Seq(Nat)], new[s] = longer,
         \A t \in BlockSizes \ {s} : new[t] = lists[t]
  PROVE  \A r : r \in PoolOf(new) <=> r \in PoolOf(lists) \/ r = [start |-> a, size |-> s]
<1> DEFINE n == Len(lists[s])
           top == [start |-> a, size |-> s]
<1>1. n \in Nat /\ DOMAIN lists[s] = 1 .. n
  BY Pushed
<1>2. /\ DOMAIN new[s] = 1 .. n + 1 /\ new[s][1] = a
      /\ \A i \in 1 .. n : new[s][i + 1] = lists[s][i]
  BY Pushed
<1>3. \A t \in BlockSizes \ {s} : new[t] = lists[t]
  OBVIOUS
<1>4. ASSUME NEW r \in PoolOf(new) PROVE r \in PoolOf(lists) \cup {top}
  <2>1. PICK t, i : /\ t \in BlockSizes /\ i \in DOMAIN new[t]
                     /\ r = [start |-> new[t][i], size |-> t]
    BY InPool
  <2>2. CASE t # s
    <3>1. i \in DOMAIN lists[t] /\ r = [start |-> lists[t][i], size |-> t]
      BY <1>3, <2>1, <2>2
    <3> QED BY <3>1, InPool
  <2>3. CASE t = s /\ i # 1
    <3>1. i - 1 \in 1 .. n /\ (i - 1) + 1 = i
      BY <1>1, <1>2, <2>1, <2>3
    <3>2. i - 1 \in DOMAIN lists[s] /\ r = [start |-> lists[s][i - 1], size |-> s]
      BY <1>1, <1>2, <2>1, <2>3, <3>1
    <3> QED BY <3>2, InPool
  <2>4. CASE t = s /\ i = 1
    BY <1>2, <2>1, <2>4
  <2> QED BY <2>2, <2>3, <2>4
<1>5. ASSUME NEW r \in PoolOf(lists) \cup {top} PROVE r \in PoolOf(new)
  <2>1. CASE r = top
    <3>1. 1 \in DOMAIN new[s] /\ r = [start |-> new[s][1], size |-> s]
      BY <1>1, <1>2, <2>1
    <3> QED BY <3>1, InPool
  <2>2. CASE r \in PoolOf(lists)
    <3>1. PICK t, i : /\ t \in BlockSizes /\ i \in DOMAIN lists[t]
                     /\ r = [start |-> lists[t][i], size |-> t]
      BY <2>2, InPool
    <3>2. CASE t # s
      <4>1. i \in DOMAIN new[t] /\ r = [start |-> new[t][i], size |-> t]
        BY <1>3, <3>1, <3>2
      <4> QED BY <4>1, InPool
    <3>3. CASE t = s
      <4>1. i \in 1 .. n /\ i + 1 \in DOMAIN new[s]
        BY <1>1, <1>2, <3>1, <3>3
      <4>2. r = [start |-> new[s][i + 1], size |-> s]
        BY <1>2, <3>1, <3>3, <4>1
      <4> QED BY <4>1, <4>2, InPool
    <3> QED BY <3>2, <3>3
  <2> QED BY <2>1, <2>2
<1> QED BY <1>4, <1>5

LEMMA PushDistinct ==
  ASSUME NEW lists \in [BlockSizes -> Seq(Nat)], \A t \in BlockSizes : Distinct(lists[t]),
         NEW s \in BlockSizes, NEW a \in Nat,
         \A i \in DOMAIN lists[s] : lists[s][i] # a,
         NEW longer, longer = <<a>> \o lists[s],
         NEW new \in [BlockSizes -> Seq(Nat)], new[s] = longer,
         \A t \in BlockSizes \ {s} : new[t] = lists[t]
  PROVE  \A t \in BlockSizes : Distinct(new[t])
<1> DEFINE n == Len(lists[s])
<1>1. n \in Nat /\ DOMAIN lists[s] = 1 .. n
  BY Pushed
<1>2. /\ DOMAIN new[s] = 1 .. n + 1 /\ new[s][1] = a
      /\ \A i \in 1 .. n : new[s][i + 1] = lists[s][i]
  BY Pushed
<1>3. \A i \in 1 .. n : lists[s][i] # a
  BY <1>1
<1>4. Distinct(new[s])
  <2> SUFFICES ASSUME NEW i \in 1 .. n + 1, NEW j \in 1 .. n + 1, new[s][i] = new[s][j]
               PROVE  i = j
    BY <1>2 DEF Distinct
  <2>1. ASSUME NEW k \in 1 .. n + 1, k # 1
        PROVE  k - 1 \in 1 .. n /\ new[s][k] = lists[s][k - 1]
    <3>1. k - 1 \in 1 .. n /\ (k - 1) + 1 = k
      BY <1>1, <2>1
    <3> QED BY <1>2, <3>1
  <2>2. CASE i = 1 /\ j # 1
    BY <1>2, <1>3, <2>1, <2>2
  <2>3. CASE i # 1 /\ j = 1
    BY <1>2, <1>3, <2>1, <2>3
  <2>4. CASE i # 1 /\ j # 1
    <3>1. i - 1 = j - 1
      BY <1>1, <2>1, <2>4 DEF Distinct
    <3> QED BY <1>1, <3>1
  <2> QED BY <2>2, <2>3, <2>4
<1> SUFFICES ASSUME NEW t \in BlockSizes PROVE Distinct(new[t])
  OBVIOUS
<1>5. t = s \/ new[t] = lists[t]
  OBVIOUS
<1> QED BY <1>4, <1>5

-----------------------------------------------------------------------------
\* Each operation on the lists is the same operation on the sets.
LEMMA SizeOfClass ==
  ASSUME NEW l \in Layouts, Small(l)
  PROVE  Class(l) \in BlockSizes /\ NewBlock(l) \in [size : Nat \ {0}, align : Nat \ {0}]
<1>1. Lemmas!Small(l)
  BY SameLayout
<1>2. Lemmas!Class(l) \in BlockSizes
  BY <1>1, Lemmas!ClassType, HeapAssumption, BlockAssumption, LayoutAssumption
<1>3. Lemmas!NewBlock(l) \in [size : Nat \ {0}, align : Nat \ {0}]
  BY <1>1, Lemmas!NewBlockType, HeapAssumption, BlockAssumption, LayoutAssumption
<1> QED BY <1>2, <1>3, SameLayout

LEMMA PoolPrimed == PoolOf(blocks)' = PoolOf(blocks') /\ ToSet(regions)' = ToSet(regions')
BY DEF PoolOf, ToSet

LEMMA PooledIs ==
  ASSUME ListInv, NEW l \in Layouts, AllocPooled(l)
  PROVE  ListInv' /\ Lemmas!AllocPooled(l)
<1> DEFINE s == Class(l)
           top == [start |-> Head(blocks[s]), size |-> s]
<1>1. /\ Small(l) /\ blocks[s] # <<>> /\ s \in BlockSizes
      /\ live' = live \cup {Block(Head(blocks[s]), l)}
      /\ blocks' = [blocks EXCEPT ![s] = Tail(@)]
      /\ UNCHANGED <<regions, oom>>
  BY SizeOfClass DEF AllocPooled
<1> HIDE DEF s
<1>2. /\ blocks \in [BlockSizes -> Seq(Nat)]
      /\ \A t \in BlockSizes : Distinct(blocks[t])
  BY DEF ListInv
<1>3. /\ blocks' \in [BlockSizes -> Seq(Nat)]
      /\ blocks'[s] = Tail(blocks[s])
      /\ \A t \in BlockSizes \ {s} : blocks'[t] = blocks[t]
  <2>1. Tail(blocks[s]) \in Seq(Nat)
    BY <1>1, <1>2
  <2> QED BY <1>1, <1>2, <2>1
<1>4. /\ \A t \in BlockSizes : Distinct(blocks'[t])
      /\ top \in PoolOf(blocks)
      /\ PoolOf(blocks') = PoolOf(blocks) \ {top}
  BY <1>1, <1>2, <1>3, Pop
<1>5. ListInv'
  BY <1>1, <1>3, <1>4 DEF ListInv, Loose, Distinct
<1>6. top.size = s /\ top.start = Head(blocks[s])
  OBVIOUS
<1> HIDE DEF top
<1>7. Lemmas!AllocPooled(l)
  <2>1. /\ top \in PoolOf(blocks) /\ top.size = Lemmas!Class(l)
        /\ PoolOf(blocks)' = PoolOf(blocks) \ {top}
        /\ live' = live \cup {Lemmas!Block(top.start, l)}
    BY <1>1, <1>4, <1>6, SameLayout, PoolPrimed DEF s
  <2>2. ToSet(regions)' = ToSet(regions) /\ oom' = oom
    BY <1>1, PoolPrimed
  <2>3. Lemmas!Small(l)
    BY <1>1, SameLayout
  <2> QED BY <2>1, <2>2, <2>3 DEF Lemmas!AllocPooled
<1> QED BY <1>5, <1>7

LEMMA BlockIs ==
  ASSUME ListInv, Lemmas!Inv, NEW l \in Layouts, AllocBlock(l)
  PROVE  ListInv' /\ (Lemmas!AllocBlock(l) \/ Lemmas!AllocFails(l))
<1> DEFINE new == NewBlock(l)
<1>1. /\ Small(l) /\ blocks[Class(l)] = <<>> /\ FallbackAlloc(new, l)
      /\ Class(l) \in BlockSizes /\ new \in [size : Nat \ {0}, align : Nat \ {0}]
  BY SizeOfClass DEF AllocBlock
<1> HIDE DEF new
<1>2. /\ Lemmas!Small(l)
      /\ \A r \in PoolOf(blocks) : r.size # Lemmas!Class(l)
  BY <1>1, EmptyClass, SameLayout DEF ListInv
<1>3. CASE FindRegion(new) # 0
  <2>1. /\ ListInv'
        /\ \E r \in ToSet(regions) :
             /\ Lemmas!FallbackAlloc(r, new)
             /\ live' = live \cup {Block(AllocStart(r, new), l)}
        /\ UNCHANGED <<blocks, oom>>
    BY <1>1, <1>3, FallbackIs
  <2>2. \E r \in ToSet(regions) :
             /\ Lemmas!FallbackAlloc(r, Lemmas!NewBlock(l))
             /\ live' = live \cup {Lemmas!Block(Lemmas!AllocStart(r, Lemmas!NewBlock(l)), l)}
    BY <2>1, SameLayout DEF new
  <2>3. PoolOf(blocks)' = PoolOf(blocks) /\ oom' = oom
    BY <2>1, PoolPrimed
  <2>4. Lemmas!AllocBlock(l)
    BY <1>2, <2>2, <2>3 DEF Lemmas!AllocBlock
  <2> QED BY <2>1, <2>4
<1>4. CASE FindRegion(new) = 0
  <2>1. oom' = TRUE /\ UNCHANGED <<regions, blocks, live>>
    BY <1>1, <1>4 DEF FallbackAlloc
  <2>2. \A r \in ToSet(regions) : ~Lemmas!Fits(r, Lemmas!NewBlock(l))
    BY <1>4, NoneFits, SameLayout DEF new
  <2>3. PoolOf(blocks)' = PoolOf(blocks) /\ ToSet(regions)' = ToSet(regions)
    BY <2>1, PoolPrimed
  <2>4. Lemmas!AllocFails(l)
    BY <1>2, <2>1, <2>2, <2>3 DEF Lemmas!AllocFails
  <2> QED BY <2>1, <2>4 DEF ListInv, Loose, Distinct
<1> QED BY <1>3, <1>4

LEMMA LargeIs ==
  ASSUME ListInv, Lemmas!Inv, NEW l \in Layouts, AllocLarge(l)
  PROVE  ListInv' /\ (Lemmas!AllocLarge(l) \/ Lemmas!AllocFails(l))
<1>1. ~Small(l) /\ FallbackAlloc(l, l) /\ l \in [size : Nat \ {0}, align : Nat \ {0}]
  BY LayoutAssumption DEF AllocLarge
<1>2. ~Lemmas!Small(l)
  BY <1>1, SameLayout
<1>3. CASE FindRegion(l) # 0
  <2>1. /\ ListInv'
        /\ \E r \in ToSet(regions) :
             /\ Lemmas!FallbackAlloc(r, l)
             /\ live' = live \cup {Block(AllocStart(r, l), l)}
        /\ UNCHANGED <<blocks, oom>>
    BY <1>1, <1>3, FallbackIs
  <2>2. \E r \in ToSet(regions) :
             /\ Lemmas!FallbackAlloc(r, l)
             /\ live' = live \cup {Lemmas!Block(Lemmas!AllocStart(r, l), l)}
    BY <2>1, SameLayout
  <2>3. PoolOf(blocks)' = PoolOf(blocks) /\ oom' = oom
    BY <2>1, PoolPrimed
  <2>4. Lemmas!AllocLarge(l)
    BY <1>2, <2>2, <2>3 DEF Lemmas!AllocLarge
  <2> QED BY <2>1, <2>4
<1>4. CASE FindRegion(l) = 0
  <2>1. oom' = TRUE /\ UNCHANGED <<regions, blocks, live>>
    BY <1>1, <1>4 DEF FallbackAlloc
  <2>2. \A r \in ToSet(regions) : ~Lemmas!Fits(r, l)
    BY <1>4, NoneFits, SameLayout
  <2>3. PoolOf(blocks)' = PoolOf(blocks) /\ ToSet(regions)' = ToSet(regions)
    BY <2>1, PoolPrimed
  <2>4. Lemmas!AllocFails(l)
    BY <1>2, <2>1, <2>2, <2>3 DEF Lemmas!AllocFails
  <2> QED BY <2>1, <2>4 DEF ListInv, Loose, Distinct
<1> QED BY <1>3, <1>4

\* What is known of a block in use.
LEMMA LiveBlock ==
  ASSUME Lemmas!Inv, NEW b \in live
  PROVE  /\ b \in [start : Nat, layout : Layouts]
         /\ Extent(b) \in Region /\ InHeap(Extent(b)) /\ Extent(b).start = b.start
         /\ Lemmas!Away(ToSet(regions), Extent(b))
         /\ Lemmas!Away(PoolOf(blocks), Extent(b))
<1>1. Lemmas!Extent(b) = Extent(b)
  BY SameLayout DEF Lemmas!Extent, Extent
<1>2. /\ b \in [start : Nat, layout : Layouts]
      /\ Lemmas!InHeap(Lemmas!Extent(b))
      /\ Lemmas!Away(ToSet(regions), Lemmas!Extent(b))
      /\ Lemmas!Away(PoolOf(blocks), Lemmas!Extent(b))
  BY DEF Lemmas!Inv, Lemmas!GoodLive, Lemmas!Disjoint
<1>3. Lemmas!Extent(b) \in Lemmas!Region /\ Lemmas!Extent(b).start = b.start
  BY <1>2, Lemmas!ExtentType, HeapAssumption, BlockAssumption, LayoutAssumption
<1> QED BY <1>1, <1>2, <1>3, SameLayout

LEMMA DeallocSmallIs ==
  ASSUME ListInv, Lemmas!Inv, NEW b \in live, DeallocSmall(b)
  PROVE  ListInv' /\ Lemmas!DeallocSmall(b)
<1> DEFINE s == Class(b.layout)
           e == [start |-> b.start, size |-> s]
<1>1. /\ Small(b.layout) /\ live' = live \ {b}
      /\ blocks' = [blocks EXCEPT ![s] = <<b.start>> \o @]
      /\ UNCHANGED <<regions, oom>>
  BY DEF DeallocSmall
<1>2. b.layout \in Layouts /\ b.start \in Nat /\ s \in BlockSizes
  BY <1>1, LiveBlock, SizeOfClass
<1>3. e = Extent(b)
  BY <1>1 DEF Extent
<1> HIDE DEF s
<1>4. /\ blocks \in [BlockSizes -> Seq(Nat)]
      /\ \A t \in BlockSizes : Distinct(blocks[t])
  BY DEF ListInv
<1>5. e \notin PoolOf(blocks)
  <2>1. e \in Region /\ Lemmas!Away(PoolOf(blocks), e)
    BY <1>3, LiveBlock
  <2>2. ~Apart(e, e)
    BY <2>1 DEF Apart, End, Region
  <2> QED BY <2>1, <2>2, SameLayout DEF Lemmas!Away
<1>6. /\ blocks' \in [BlockSizes -> Seq(Nat)]
      /\ blocks'[s] = <<b.start>> \o blocks[s]
      /\ \A t \in BlockSizes \ {s} : blocks'[t] = blocks[t]
  <2>1. <<b.start>> \o blocks[s] \in Seq(Nat)
    BY <1>2, <1>4
  <2> QED BY <1>1, <1>2, <1>4, <2>1
<1>7. /\ \A t \in BlockSizes : Distinct(blocks'[t])
      /\ PoolOf(blocks') = PoolOf(blocks) \cup {e}
  <2> DEFINE a == b.start
             longer == <<a>> \o blocks[s]
             new == blocks'
  <2>1. a \in Nat /\ s \in BlockSizes /\ e = [start |-> a, size |-> s]
    BY <1>2
  <2>2. \A i \in DOMAIN blocks[s] : blocks[s][i] # a
    BY <1>2, <1>5, InPool
  <2>3. /\ longer = <<a>> \o blocks[s]
        /\ new \in [BlockSizes -> Seq(Nat)] /\ new[s] = longer
        /\ \A t \in BlockSizes \ {s} : new[t] = blocks[t]
    BY <1>6
  <2> HIDE DEF a, e, longer, new
  <2>4. \A t \in BlockSizes : Distinct(new[t])
    BY <1>4, <2>1, <2>2, <2>3, PushDistinct
  <2>5. \A r : r \in PoolOf(new) <=> r \in PoolOf(blocks) \/ r = [start |-> a, size |-> s]
    BY <1>4, <2>1, <2>3, PushPool
  <2>6. PoolOf(new) = PoolOf(blocks) \cup {e}
    BY <2>1, <2>5
  <2> QED BY <2>4, <2>6 DEF new
<1>8. ListInv'
  BY <1>1, <1>6, <1>7 DEF ListInv, Loose, Distinct
<1>9. Lemmas!DeallocSmall(b)
  <2>1. PoolOf(blocks)' = PoolOf(blocks) \cup {[start |-> b.start, size |-> Lemmas!Class(b.layout)]}
    BY <1>7, SameLayout, PoolPrimed DEF s
  <2>2. ToSet(regions)' = ToSet(regions) /\ oom' = oom
    BY <1>1, PoolPrimed
  <2>3. Lemmas!Small(b.layout)
    BY <1>1, SameLayout
  <2> QED BY <1>1, <2>1, <2>2, <2>3 DEF Lemmas!DeallocSmall
<1> QED BY <1>8, <1>9

LEMMA DeallocLargeIs ==
  ASSUME ListInv, Lemmas!Inv, NEW b \in live, DeallocLarge(b)
  PROVE  ListInv' /\ Lemmas!DeallocLarge(b)
<1>1. /\ ~Small(b.layout) /\ live' = live \ {b}
      /\ regions' = AddFreeRegion(regions, b.start, b.layout.size)
      /\ UNCHANGED <<blocks, oom>>
  BY DEF DeallocLarge
<1>2. /\ Extent(b) \in Region /\ InHeap(Extent(b)) /\ Lemmas!Away(ToSet(regions), Extent(b))
      /\ Extent(b).start = b.start /\ Extent(b).size = b.layout.size
  BY <1>1, LiveBlock DEF Extent
<1>3. regions \in Seq(Region) /\ Loose(regions) /\ Lemmas!Good(ToSet(regions))
  BY DEF ListInv, Lemmas!Inv
<1>4. /\ regions' \in Seq(Region) /\ Loose(regions')
      /\ ToSet(regions') = Lemmas!AddFreeRegion(ToSet(regions), b.start, b.layout.size)
  BY <1>1, <1>2, <1>3, AddIs
<1>5. ListInv'
  BY <1>1, <1>4 DEF ListInv, Loose, Distinct
<1>6. PoolOf(blocks)' = PoolOf(blocks) /\ oom' = oom
  BY <1>1, PoolPrimed
<1>7. Lemmas!DeallocLarge(b)
  BY <1>1, <1>4, <1>6, SameLayout, PoolPrimed DEF Lemmas!DeallocLarge
<1> QED BY <1>5, <1>7

LEMMA ListStep ==
  ListInv /\ Lemmas!Inv /\ [Next]_vars => ListInv' /\ [Lemmas!Next]_(Lemmas!vars)
<1> SUFFICES ASSUME ListInv, Lemmas!Inv, [Next]_vars
             PROVE  ListInv' /\ [Lemmas!Next]_(Lemmas!vars)
  OBVIOUS
<1>1. CASE UNCHANGED vars
  <2>1. UNCHANGED <<regions, blocks, live, oom>>
    BY <1>1 DEF vars
  <2>2. UNCHANGED Lemmas!vars
    BY <2>1, PoolPrimed DEF Lemmas!vars
  <2> QED BY <2>1, <2>2 DEF ListInv, Loose, Distinct
<1>2. ASSUME ~oom, NEW l \in Layouts, Alloc(l) PROVE ListInv' /\ Lemmas!Next
  <2>1. ListInv' /\ Lemmas!Alloc(l)
    BY <1>2, PooledIs, BlockIs, LargeIs DEF Alloc, Lemmas!Alloc
  <2> QED BY <1>2, <2>1 DEF Lemmas!Next
<1>3. ASSUME ~oom, NEW b \in live, Dealloc(b) PROVE ListInv' /\ Lemmas!Next
  <2>1. ListInv' /\ Lemmas!Dealloc(b)
    BY <1>3, DeallocSmallIs, DeallocLargeIs DEF Dealloc, Lemmas!Dealloc
  <2> QED BY <1>3, <2>1 DEF Lemmas!Next
<1> QED BY <1>1, <1>2, <1>3 DEF Next

LEMMA ListInit == Init => ListInv /\ Lemmas!Init
<1> SUFFICES ASSUME Init PROVE ListInv /\ Lemmas!Init
  OBVIOUS
<1> DEFINE heap == [start |-> HeapStart, size |-> HeapSize]
<1>1. /\ regions = AddFreeRegion(<<>>, HeapStart, HeapSize)
      /\ blocks = [s \in BlockSizes |-> <<>>] /\ live = {} /\ oom = FALSE
  BY DEF Init
<1>2. <<>> \in Seq(Region) /\ Loose(<<>>) /\ ToSet(<<>>) = {}
  BY DEF Loose, ToSet
<1>3. /\ regions \in Seq(Region) /\ Loose(regions)
      /\ ToSet(regions) = Lemmas!AddFreeRegion({}, HeapStart, HeapSize)
  <2>1. CASE HeapSize = 0
    <3>1. HeapSize <= AlignUp(HeapStart, NodeAlign) - HeapStart
      <4>1. /\ Lemmas!AlignUp(HeapStart, NodeAlign) \in Nat
            /\ Lemmas!AlignUp(HeapStart, NodeAlign) >= HeapStart
        BY HeapAssumption, BlockAssumption, LayoutAssumption, Lemmas!AlignUpType
      <4> QED BY <2>1, <4>1, SameLayout, HeapAssumption
    <3>2. AddFreeRegion(<<>>, HeapStart, HeapSize) = <<>>
      BY <3>1 DEF AddFreeRegion
    <3>3. Lemmas!AddFreeRegion({}, HeapStart, HeapSize) = {}
      BY <3>1, SameLayout DEF Lemmas!AddFreeRegion
    <3> QED BY <1>1, <1>2, <3>2, <3>3
  <2>2. CASE HeapSize # 0
    <3>1. /\ heap \in Region /\ InHeap(heap)
          /\ heap.start = HeapStart /\ heap.size = HeapSize
      BY <2>2, HeapAssumption DEF Region, InHeap, End
    <3> HIDE DEF heap
    <3>2. Lemmas!Away(ToSet(<<>>), heap) /\ Lemmas!Good(ToSet(<<>>))
      BY <1>2 DEF Lemmas!Away, Lemmas!Good
    <3>3. /\ AddFreeRegion(<<>>, heap.start, heap.size) \in Seq(Region)
          /\ Loose(AddFreeRegion(<<>>, heap.start, heap.size))
          /\ ToSet(AddFreeRegion(<<>>, heap.start, heap.size))
               = Lemmas!AddFreeRegion(ToSet(<<>>), heap.start, heap.size)
      BY <1>2, <3>1, <3>2, AddIs
    <3> QED BY <1>1, <1>2, <3>1, <3>3
  <2> QED BY <2>1, <2>2
<1>4. ListInv
  BY <1>1, <1>3 DEF ListInv, Distinct
<1>5. PoolOf(blocks) = {}
  <2> SUFFICES ASSUME NEW r \in PoolOf(blocks) PROVE FALSE
    OBVIOUS
  <2>1. PICK t, i : t \in BlockSizes /\ i \in DOMAIN blocks[t]
    BY InPool
  <2> QED BY <1>1, <2>1
<1> QED BY <1>1, <1>3, <1>4, <1>5 DEF Lemmas!Init

LEMMA ListsHold == Spec => [](ListInv /\ Lemmas!Inv)
<1>1. Init => ListInv /\ Lemmas!Inv
  BY ListInit, Lemmas!InvInit, HeapAssumption, BlockAssumption, LayoutAssumption
<1>2. ListInv /\ Lemmas!Inv /\ [Next]_vars => ListInv' /\ Lemmas!Inv'
  BY ListStep, Lemmas!InvStep, HeapAssumption, BlockAssumption, LayoutAssumption
<1> QED BY <1>1, <1>2, PTL DEF Spec

-----------------------------------------------------------------------------
\* The sets of Allocator, named twice: through the specification that
\* LinkedAllocator instantiates and through the module that proves about it.
LEMMA SameActions ==
  /\ \A l : Lemmas!Alloc(l) => Sets!Alloc(l)
  /\ \A b : Lemmas!Dealloc(b) => Sets!Dealloc(b)
<1>1. \A r, l : /\ Sets!Fits(r, l) <=> Lemmas!Fits(r, l)
               /\ Sets!AllocStart(r, l) = Lemmas!AllocStart(r, l)
               /\ Sets!AllocEnd(r, l) = Lemmas!AllocEnd(r, l)
               /\ Sets!End(r) = Lemmas!End(r)
  BY DEF Sets!Fits, Sets!AllocStart, Sets!AllocEnd, Sets!End, Sets!AlignUp,
         Lemmas!Fits, Lemmas!AllocStart, Lemmas!AllocEnd, Lemmas!End, Lemmas!AlignUp
<1>2. \A F, a, n : Sets!AddFreeRegion(F, a, n) = Lemmas!AddFreeRegion(F, a, n)
  BY DEF Sets!AddFreeRegion, Sets!Join, Sets!End, Sets!AlignUp,
         Lemmas!AddFreeRegion, Lemmas!Join, Lemmas!End, Lemmas!AlignUp
<1>3. \A l, a : /\ Sets!Small(l) <=> Lemmas!Small(l)
               /\ Sets!Class(l) = Lemmas!Class(l)
               /\ Sets!NewBlock(l) = Lemmas!NewBlock(l)
               /\ Sets!Block(a, l) = Lemmas!Block(a, l)
  BY DEF Sets!Small, Sets!Class, Sets!NewBlock, Sets!Block, Sets!Needed,
         Lemmas!Small, Lemmas!Class, Lemmas!NewBlock, Lemmas!Block, Lemmas!Needed
<1>4. \A r, l : Lemmas!FallbackAlloc(r, l) => Sets!FallbackAlloc(r, l)
  BY <1>1, <1>2 DEF Sets!FallbackAlloc, Lemmas!FallbackAlloc, Sets!FirstFit, Lemmas!FirstFit
<1>5. \A l : Lemmas!AllocPooled(l) => Sets!AllocPooled(l)
  BY <1>3 DEF Sets!AllocPooled, Lemmas!AllocPooled
<1>6. \A l : Lemmas!AllocBlock(l) => Sets!AllocBlock(l)
  BY <1>1, <1>3, <1>4 DEF Sets!AllocBlock, Lemmas!AllocBlock
<1>7. \A l : Lemmas!AllocLarge(l) => Sets!AllocLarge(l)
  BY <1>1, <1>3, <1>4 DEF Sets!AllocLarge, Lemmas!AllocLarge
<1>8. \A l : Lemmas!AllocFails(l) => Sets!AllocFails(l)
  BY <1>1, <1>3 DEF Sets!AllocFails, Lemmas!AllocFails
<1>9. \A b : Lemmas!DeallocSmall(b) => Sets!DeallocSmall(b)
  BY <1>3 DEF Sets!DeallocSmall, Lemmas!DeallocSmall
<1>10. \A b : Lemmas!DeallocLarge(b) => Sets!DeallocLarge(b)
  BY <1>2, <1>3 DEF Sets!DeallocLarge, Lemmas!DeallocLarge
<1> QED
  BY <1>5, <1>6, <1>7, <1>8, <1>9, <1>10
  DEF Sets!Alloc, Lemmas!Alloc, Sets!Dealloc, Lemmas!Dealloc

LEMMA SetsMeaning == Lemmas!Inv => Sets!NoOverlap /\ Sets!FreeListSound
<1> SUFFICES ASSUME Lemmas!Inv PROVE Sets!NoOverlap /\ Sets!FreeListSound
  OBVIOUS
<1>1. Lemmas!NoOverlap /\ Lemmas!FreeListSound
  BY Lemmas!InvMeaning, HeapAssumption, BlockAssumption, LayoutAssumption
<1>2. /\ \A r : Sets!End(r) = Lemmas!End(r)
      /\ \A b : Sets!Extent(b) = Lemmas!Extent(b)
  BY DEF Sets!End, Lemmas!End, Sets!Extent, Lemmas!Extent, Sets!Small, Lemmas!Small,
         Sets!Class, Lemmas!Class, Sets!Needed, Lemmas!Needed
<1>3. \A r, q : /\ Sets!Apart(r, q) <=> Lemmas!Apart(r, q)
               /\ Sets!InHeap(r) <=> Lemmas!InHeap(r)
  BY <1>2 DEF Sets!Apart, Lemmas!Apart, Sets!InHeap, Lemmas!InHeap
<1>4. Sets!NoOverlap
  BY <1>1, <1>2, <1>3 DEF Sets!NoOverlap, Lemmas!NoOverlap
<1>5. Sets!FreeListSound
  BY <1>1, <1>2 DEF Sets!FreeListSound, Lemmas!FreeListSound
<1> QED BY <1>4, <1>5

\* The sorted list with its coalescing pass, and the stacks of blocks, do what
\* the sets of Allocator say: for every heap, every set of classes and every
\* sequence of requests, each operation on the lists is the operation on the sets.
THEOREM ListsImplementSets == Spec => AllocatorRefinement
<1>1. Init => Sets!Init
  <2>1. Lemmas!Init => Sets!Init
    BY DEF Sets!Init, Sets!AddFreeRegion, Sets!Join, Sets!End, Sets!AlignUp,
           Lemmas!Init, Lemmas!AddFreeRegion, Lemmas!Join, Lemmas!End, Lemmas!AlignUp
  <2> QED BY <2>1, ListInit
<1>2. ListInv /\ Lemmas!Inv /\ [Next]_vars => [Sets!Next]_(Sets!vars)
  <2>1. Lemmas!Next => Sets!Next
    BY SameActions DEF Sets!Next, Lemmas!Next
  <2>2. UNCHANGED Lemmas!vars => UNCHANGED Sets!vars
    BY DEF Sets!vars, Lemmas!vars
  <2> QED BY <2>1, <2>2, ListStep
<1> QED BY <1>1, <1>2, ListsHold, PTL DEF Spec, AllocatorRefinement, Sets!Spec

\* No byte of the heap ever has two owners: no node of the list of regions, no
\* block on a class's list and no block in use overlaps another.
THEOREM ListsNeverOverlap == Spec => []NoOverlap
<1>1. Lemmas!Inv => NoOverlap
  BY SetsMeaning DEF NoOverlap
<1> QED BY <1>1, ListsHold, PTL

\* Every node on the list has room for itself, and the coalescing pass never
\* leaves two nodes that touch.
THEOREM ListStaysSound == Spec => []FreeListSound
<1>1. Lemmas!Inv => FreeListSound
  BY SetsMeaning DEF FreeListSound
<1> QED BY <1>1, ListsHold, PTL

\* The lists keep the promise of Heap to the kernel: a block that alloc hands
\* out is aligned, lies in the heap and is apart from every block in use.
THEOREM ListsKeepPromise == Spec => HeapRefinement
<1>1. Lemmas!Spec => Lemmas!HeapRefinement
  BY Lemmas!KeepsPromise, HeapAssumption, BlockAssumption, LayoutAssumption
<1>2. Init => Lemmas!Init
  BY ListInit
<1>3. ListInv /\ Lemmas!Inv /\ [Next]_vars => [Lemmas!Next]_(Lemmas!vars)
  BY ListStep
<1>4. Spec => Lemmas!Spec
  BY <1>2, <1>3, ListsHold, PTL DEF Spec, Lemmas!Spec
<1>5. Lemmas!Promise!Init => Sets!Promise!Init
  BY DEF Lemmas!Promise!Init, Sets!Promise!Init
<1>6. [Lemmas!Promise!Next]_<<live, oom>> => [Sets!Promise!Next]_<<live, oom>>
  <2>1. \A l : Lemmas!Promise!Alloc(l) => Sets!Promise!Alloc(l)
    BY DEF Lemmas!Promise!Alloc, Sets!Promise!Alloc, Lemmas!Promise!Free, Sets!Promise!Free,
           Lemmas!Promise!Apart, Sets!Promise!Apart
  <2>2. \A b : Lemmas!Promise!Dealloc(b) => Sets!Promise!Dealloc(b)
    BY DEF Lemmas!Promise!Dealloc, Sets!Promise!Dealloc
  <2> QED BY <2>1, <2>2 DEF Lemmas!Promise!Next, Sets!Promise!Next
<1> QED
  BY <1>1, <1>4, <1>5, <1>6, PTL
  DEF HeapRefinement, Sets!HeapRefinement, Lemmas!HeapRefinement,
      Sets!Promise!Spec, Lemmas!Promise!Spec
=============================================================================

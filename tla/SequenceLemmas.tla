--------------------------- MODULE SequenceLemmas ---------------------------
(***************************************************************************)
(* Induction for the proofs about lists.  The folds and flattenings of the *)
(* community modules are functions defined by recursion; here is what is   *)
(* needed to reason about them: a least number exists, so a property that  *)
(* goes from each number to the next holds of all; the function that a     *)
(* fold applies exists; and a row of lists is flattened list by list.      *)
(***************************************************************************)
EXTENDS Integers, Sequences, SequencesExt, WellFoundedInduction, TLAPS

LEMMA Smallest ==
  ASSUME NEW S, S \subseteq Nat, S # {}
  PROVE  \E s \in S : \A t \in S : s <= t
<1> DEFINE Under == {p \in Nat \X Nat : p[1] < p[2]}
<1>1. IsWellFoundedOn(Under, Nat)
  <2>1. OpToRel(<, Nat) = Under
    BY Zenon DEF OpToRel
  <2> QED BY <2>1, NatLessThanWellFounded, Zenon
<1>2. PICK s \in S : \A t \in S : ~ (<<t, s>> \in Under)
  <2> HIDE DEF Under
  <2> QED BY <1>1, WFMin
<1>3. \A t \in S : <<t, s>> \in Nat \X Nat /\ <<t, s>>[1] = t /\ <<t, s>>[2] = s
  OBVIOUS
<1>4. \A t \in S : ~ (t < s)
  BY <1>2, <1>3, Zenon
<1> QED BY <1>4

\* What holds of 0 and goes from each number to the next holds up to n.
LEMMA UpTo ==
  ASSUME NEW n \in Nat, NEW S, 0 \in S, \A k \in 0 .. n - 1 : k \in S => k + 1 \in S
  PROVE  0 .. n \subseteq S
<1> DEFINE Missing == (0 .. n) \ S
<1>1. SUFFICES ASSUME Missing # {} PROVE FALSE
  OBVIOUS
<1>2. PICK m \in Missing : \A t \in Missing : m <= t
  <2>1. Missing \subseteq Nat
    OBVIOUS
  <2> HIDE DEF Missing
  <2> QED BY <1>1, <2>1, Smallest
<1>3. m # 0 /\ m - 1 \in 0 .. n - 1 /\ m - 1 \notin Missing
  BY <1>2
<1> QED BY <1>2, <1>3

\* Max and Min are what they should be.
LEMMA MaxIs ==
  ASSUME NEW S, S \subseteq Int, NEW m \in S, \A t \in S : t <= m
  PROVE  Max(S) = m
<1>1. m \in S /\ \A t \in S : m >= t
  OBVIOUS
<1>2. Max(S) \in S /\ \A t \in S : Max(S) >= t
  BY <1>1, Zenon DEF Max
<1>3. Max(S) \in Int /\ m \in Int /\ m >= Max(S) /\ Max(S) >= m
  BY <1>1, <1>2
<1> QED BY <1>3

LEMMA MinIs ==
  ASSUME NEW S, S \subseteq Int, NEW m \in S, \A t \in S : m <= t
  PROVE  Min(S) = m
<1>1. m \in S /\ \A t \in S : m =< t
  OBVIOUS
<1>2. Min(S) \in S /\ \A t \in S : Min(S) =< t
  BY <1>1, Zenon DEF Min
<1>3. Min(S) \in Int /\ m \in Int /\ m =< Min(S) /\ Min(S) =< m
  BY <1>1, <1>2
<1> QED BY <1>3

LEMMA MaxOfInterval ==
  ASSUME NEW k \in Nat \ {0}
  PROVE  Max(1 .. k) = k /\ (1 .. k) \ {k} = 1 .. k - 1 /\ 1 .. k # {}
<1> DEFINE S == 1 .. k
<1>1. S \subseteq Int /\ k \in S /\ \A t \in S : t <= k
  OBVIOUS
<1>2. Max(S) = k
  <2> HIDE DEF S
  <2> QED BY <1>1, MaxIs
<1>3. S \ {k} = 1 .. k - 1 /\ S # {}
  OBVIOUS
<1> QED BY <1>2, <1>3

LEMMA MaxOfSome ==
  ASSUME NEW n \in Nat, NEW s \in SUBSET (1 .. n), s # {}
  PROVE  Max(s) \in s /\ \A t \in s : t <= Max(s)
<1> DEFINE Left == {n - t : t \in s}
<1>1. Left \subseteq Nat /\ Left # {}
  <2>1. \A t \in s : n - t \in Nat
    OBVIOUS
  <2>2. PICK t \in s : TRUE
    OBVIOUS
  <2>3. n - t \in Left
    OBVIOUS
  <2> QED BY <2>1, <2>3
<1>2. PICK d \in Left : \A e \in Left : d <= e
  BY <1>1, Smallest
<1>3. PICK m \in s : d = n - m
  OBVIOUS
<1>4. \A t \in s : t <= m
  <2> TAKE t \in s
  <2>1. d <= n - t
    BY <1>2
  <2> QED BY <1>3, <2>1
<1>5. s \subseteq Int
  OBVIOUS
<1>6. Max(s) = m
  BY <1>4, <1>5, MaxIs
<1> QED BY <1>4, <1>6

\* What FoldLeft applies to the set of all places of a sequence exists: a
\* function of the sets of places, of which it takes the largest place first.
Unfolds(it, n, base, step) ==
  it = [s \in SUBSET (1 .. n) |->
          IF s = {} THEN base ELSE step[<<Max(s), it[s \ {Max(s)}]>>]]

LEMMA FoldExists ==
  ASSUME NEW n \in Nat, NEW V, NEW base \in V, NEW step \in [(1 .. n) \X V -> V]
  PROVE  \E it \in [SUBSET (1 .. n) -> V] : Unfolds(it, n, base, step)
<1> DEFINE Good == {k \in 0 .. n : \E it \in [SUBSET (1 .. k) -> V] : Unfolds(it, k, base, step)}
<1>1. 0 \in Good
  <2> DEFINE it == [s \in SUBSET (1 .. 0) |-> base]
  <2>1. it \in [SUBSET (1 .. 0) -> V] /\ \A s \in SUBSET (1 .. 0) : s = {}
    OBVIOUS
  <2>2. Unfolds(it, 0, base, step)
    BY <2>1 DEF Unfolds
  <2> QED BY <2>1, <2>2
<1>2. ASSUME NEW k \in 0 .. n - 1, k \in Good
      PROVE  k + 1 \in Good
  <2>1. PICK f \in [SUBSET (1 .. k) -> V] : Unfolds(f, k, base, step)
    BY <1>2
  <2> DEFINE top == k + 1
             it == [s \in SUBSET (1 .. top) |->
                      IF top \in s THEN step[<<top, f[s \ {top}]>>] ELSE f[s]]
  <2>2. \A s \in SUBSET (1 .. top) : s \ {top} \in SUBSET (1 .. k)
    OBVIOUS
  <2>3. \A s \in SUBSET (1 .. top) : top \notin s => s \in SUBSET (1 .. k)
    OBVIOUS
  <2>4. top \in 1 .. n
    OBVIOUS
  <2>5. it \in [SUBSET (1 .. top) -> V]
    <3> HIDE DEF top
    <3> QED BY <2>2, <2>3, <2>4
  <2>6. ASSUME NEW s \in SUBSET (1 .. top)
        PROVE  it[s] = IF s = {} THEN base ELSE step[<<Max(s), it[s \ {Max(s)}]>>]
    <3>1. CASE top \in s
      <4>1. Max(s) = top
        <5>1. s \subseteq Int /\ \A t \in s : t <= top
          OBVIOUS
        <5> QED BY <3>1, <5>1, MaxIs
      <4>2. it[s \ {top}] = f[s \ {top}]
        BY <2>2
      <4> QED BY <3>1, <4>1, <4>2
    <3>2. CASE top \notin s
      <4>1. s \in SUBSET (1 .. k) /\ it[s] = f[s]
        BY <2>3, <3>2
      <4>2. f[s] = IF s = {} THEN base ELSE step[<<Max(s), f[s \ {Max(s)}]>>]
        BY <2>1, <4>1 DEF Unfolds
      <4>3. ASSUME s # {} PROVE it[s \ {Max(s)}] = f[s \ {Max(s)}]
        BY <3>2, <4>1
      <4> QED BY <4>1, <4>2, <4>3
    <3> QED BY <3>1, <3>2
  <2>7. Unfolds(it, top, base, step)
    <3> HIDE DEF top
    <3> QED BY <2>5, <2>6 DEF Unfolds
  <2>8. top \in 0 .. n
    OBVIOUS
  <2> HIDE DEF top, it
  <2>9. top \in Good
    BY <2>5, <2>7, <2>8
  <2> QED BY <2>9 DEF top
<1>3. n \in Good
  <2> HIDE DEF Good
  <2>1. 0 .. n \subseteq Good
    BY <1>1, <1>2, UpTo
  <2> QED BY <2>1
<1> QED BY <1>3

LEMMA MinOfSome ==
  ASSUME NEW S \in SUBSET Nat, S # {}
  PROVE  Min(S) \in S /\ \A t \in S : Min(S) <= t
<1>1. PICK m \in S : \A t \in S : m <= t
  BY Smallest
<1>2. S \subseteq Int
  OBVIOUS
<1>3. Min(S) = m
  BY <1>1, <1>2, MinIs
<1> QED BY <1>1, <1>3

\* The places of a sequence after something is put in or taken out.
LEMMA InsertAtIs ==
  ASSUME NEW T, NEW s \in Seq(T), NEW e \in T, NEW i \in 1 .. Len(s)
  PROVE  /\ InsertAt(s, i, e) \in Seq(T)
         /\ Len(InsertAt(s, i, e)) = Len(s) + 1
         /\ \A k \in 1 .. Len(s) + 1 :
              InsertAt(s, i, e)[k] = IF k < i THEN s[k] ELSE IF k = i THEN e ELSE s[k - 1]
<1> DEFINE n == Len(s)
           a == SubSeq(s, 1, i - 1)
           b == SubSeq(s, i, n)
           c == a \o <<e>>
<1>n. n \in Nat /\ i \in 1 .. n
  OBVIOUS
<1>1. a \in Seq(T) /\ Len(a) = i - 1
  OBVIOUS
<1>a. \A k \in 1 .. i - 1 : a[k] = s[k]
  OBVIOUS
<1>2. b \in Seq(T) /\ Len(b) = n - i + 1
  OBVIOUS
<1>b. \A k \in 1 .. n - i + 1 : b[k] = s[i + k - 1]
  OBVIOUS
<1>3. InsertAt(s, i, e) = c \o b
  BY DEF InsertAt
<1> HIDE DEF a, b, n
<1>4. c \in Seq(T) /\ Len(c) = i /\ c[i] = e
  BY <1>1, <1>n
<1>c. \A k \in 1 .. i - 1 : c[k] = s[k]
  BY <1>1, <1>a, <1>n
<1> HIDE DEF c
<1>5. c \o b \in Seq(T) /\ Len(c \o b) = n + 1
  BY <1>2, <1>4, <1>n
<1>6. ASSUME NEW k \in 1 .. n + 1
      PROVE  (c \o b)[k] = IF k < i THEN s[k] ELSE IF k = i THEN e ELSE s[k - 1]
  <2>1. CASE k <= i
    <3>1. (c \o b)[k] = c[k]
      BY <1>2, <1>4, <1>n, <2>1
    <3> QED BY <1>4, <1>c, <1>n, <2>1, <3>1
  <2>2. CASE k > i
    <3>1. (c \o b)[k] = b[k - i]
      BY <1>2, <1>4, <1>n, <2>2
    <3>2. k - i \in 1 .. n - i + 1 /\ i + (k - i) - 1 = k - 1
      BY <1>n, <2>2
    <3>3. b[k - i] = s[k - 1]
      BY <1>b, <3>2
    <3> QED BY <1>n, <2>2, <3>1, <3>3
  <2>3. k <= i \/ k > i
    BY <1>n
  <2> QED BY <2>1, <2>2, <2>3
<1> QED BY <1>3, <1>5, <1>6 DEF n

LEMMA RemoveAtIs ==
  ASSUME NEW T, NEW s \in Seq(T), NEW i \in 1 .. Len(s)
  PROVE  /\ RemoveAt(s, i) \in Seq(T)
         /\ Len(RemoveAt(s, i)) = Len(s) - 1
         /\ \A k \in 1 .. Len(s) - 1 :
              RemoveAt(s, i)[k] = IF k < i THEN s[k] ELSE s[k + 1]
<1> DEFINE n == Len(s)
           a == SubSeq(s, 1, i - 1)
           b == SubSeq(s, i + 1, n)
<1>n. n \in Nat /\ i \in 1 .. n
  OBVIOUS
<1>1. a \in Seq(T) /\ Len(a) = i - 1
  OBVIOUS
<1>a. \A k \in 1 .. i - 1 : a[k] = s[k]
  OBVIOUS
<1>2. b \in Seq(T) /\ Len(b) = n - i
  OBVIOUS
<1>b. \A k \in 1 .. n - i : b[k] = s[i + k]
  OBVIOUS
<1>3. RemoveAt(s, i) = a \o b
  BY DEF RemoveAt
<1> HIDE DEF a, b, n
<1>4. a \o b \in Seq(T) /\ Len(a \o b) = n - 1
  BY <1>1, <1>2, <1>n
<1>5. ASSUME NEW k \in 1 .. n - 1
      PROVE  (a \o b)[k] = IF k < i THEN s[k] ELSE s[k + 1]
  <2>1. CASE k < i
    <3>1. (a \o b)[k] = a[k]
      BY <1>1, <1>2, <1>n, <2>1
    <3> QED BY <1>a, <1>n, <2>1, <3>1
  <2>2. CASE k >= i
    <3>1. (a \o b)[k] = b[k - (i - 1)]
      BY <1>1, <1>2, <1>n, <2>2
    <3>2. k - (i - 1) \in 1 .. n - i /\ i + (k - (i - 1)) = k + 1
      BY <1>n, <2>2
    <3>3. b[k - (i - 1)] = s[k + 1]
      BY <1>b, <3>2
    <3> QED BY <1>n, <2>2, <3>1, <3>3
  <2>3. k < i \/ k >= i
    BY <1>n
  <2> QED BY <2>1, <2>2, <2>3
<1> QED BY <1>3, <1>4, <1>5 DEF n

-----------------------------------------------------------------------------
\* The function that FlattenSeq makes, and the one it is.
Flattens(g, s) == g = [i \in 1 .. Len(s) |-> IF i = 1 THEN s[i] ELSE g[i - 1] \o s[i]]

\* FlattenSeq takes the last value of that function.
LEMMA FlattenIs ==
  ASSUME NEW s, NEW n, Len(s) = n, n # 0
  PROVE  FlattenSeq(s) = (CHOOSE g : Flattens(g, s))[n]
BY Zenon DEF FlattenSeq, Flattens

\* g[k] is what the first k sequences of s make in a row.
RowsUpTo(g, T, s, n) ==
  /\ g \in [0 .. n -> Seq(T)]
  /\ g[0] = <<>>
  /\ \A k \in 1 .. n : g[k] = g[k - 1] \o s[k]

LEMMA FlattenSteps ==
  ASSUME NEW T, NEW n \in Nat, NEW s \in [1 .. n -> Seq(T)]
  PROVE  \E g : RowsUpTo(g, T, s, n) /\ FlattenSeq(s) = g[n]
<1> DEFINE Good == {k \in 0 .. n : \E g : RowsUpTo(g, T, s, k)}
<1>0. s \in Seq(Seq(T)) /\ Len(s) = n
  OBVIOUS
<1>1. 0 \in Good
  <2> DEFINE g == [k \in 0 .. 0 |-> <<>>]
  <2>1. g \in [0 .. 0 -> Seq(T)] /\ g[0] = <<>>
    OBVIOUS
  <2>2. RowsUpTo(g, T, s, 0)
    <3> HIDE DEF g
    <3> QED BY <2>1 DEF RowsUpTo
  <2> QED BY <2>2
<1>2. ASSUME NEW k \in 0 .. n - 1, k \in Good
      PROVE  k + 1 \in Good
  <2>1. PICK f : RowsUpTo(f, T, s, k)
    BY <1>2
  <2>2. f \in [0 .. k -> Seq(T)] /\ f[0] = <<>> /\ \A i \in 1 .. k : f[i] = f[i - 1] \o s[i]
    BY <2>1 DEF RowsUpTo
  <2> DEFINE x == f[k] \o s[k + 1]
             g == [i \in 0 .. k + 1 |-> IF i = k + 1 THEN x ELSE f[i]]
  <2>3. k \in 0 .. k /\ k + 1 \in 1 .. n /\ k + 1 \in 0 .. n
    OBVIOUS
  <2>4. x \in Seq(T)
    <3>1. f[k] \in Seq(T) /\ s[k + 1] \in Seq(T)
      BY <2>2, <2>3
    <3> QED BY <3>1
  <2>5. g[k + 1] = x /\ \A i \in 0 .. k : g[i] = f[i]
    <3> HIDE DEF x
    <3> QED OBVIOUS
  <2>6. g \in [0 .. k + 1 -> Seq(T)]
    <3> HIDE DEF x
    <3> QED BY <2>2, <2>4
  <2>7. g[0] = <<>>
    BY <2>2, <2>5
  <2>8. ASSUME NEW i \in 1 .. k + 1
        PROVE  g[i] = g[i - 1] \o s[i]
    <3>1. CASE i = k + 1
      <4>1. i - 1 = k
        BY <3>1
      <4> QED BY <2>3, <2>5, <3>1, <4>1
    <3>2. CASE i # k + 1
      <4>1. i \in 1 .. k /\ i \in 0 .. k /\ i - 1 \in 0 .. k
        BY <3>2
      <4> HIDE DEF g, x
      <4> QED BY <2>2, <2>5, <4>1
    <3> QED BY <3>1, <3>2
  <2> HIDE DEF g
  <2>9. RowsUpTo(g, T, s, k + 1)
    BY <2>6, <2>7, <2>8 DEF RowsUpTo
  <2> QED BY <2>3, <2>9
<1>3. n \in Good
  <2> HIDE DEF Good
  <2>1. 0 .. n \subseteq Good
    BY <1>1, <1>2, UpTo
  <2> QED BY <2>1
<1>4. PICK g : RowsUpTo(g, T, s, n)
  BY <1>3
<1>5. g \in [0 .. n -> Seq(T)] /\ g[0] = <<>> /\ \A k \in 1 .. n : g[k] = g[k - 1] \o s[k]
  BY <1>4 DEF RowsUpTo
<1>6. CASE n = 0
  <2>1. s = <<>>
    BY <1>0, <1>6
  <2>2. FlattenSeq(s) = <<>>
    BY <1>0, <1>6, <2>1 DEF FlattenSeq
  <2> QED BY <1>4, <1>5, <1>6, <2>2
<1>7. CASE n # 0
  <2> DEFINE w == [i \in 1 .. n |-> g[i]]
             h == CHOOSE f : Flattens(f, s)
  <2>1. ASSUME NEW i \in 1 .. n
        PROVE  w[i] = IF i = 1 THEN s[i] ELSE w[i - 1] \o s[i]
    <3>1. CASE i = 1
      <4>1. s[i] \in Seq(T) /\ i - 1 = 0
        BY <3>1
      <4>2. <<>> \o s[i] = s[i]
        BY <4>1
      <4> QED BY <1>5, <3>1, <4>1, <4>2
    <3>2. CASE i # 1
      <4>1. i - 1 \in 1 .. n
        BY <3>2
      <4> QED BY <1>5, <3>2, <4>1
    <3> QED BY <3>1, <3>2
  <2>2. w = [i \in 1 .. n |-> w[i]]
    OBVIOUS
  <2> HIDE DEF w
  <2>3. Flattens(w, s)
    <3>1. [i \in 1 .. n |-> w[i]] = [i \in 1 .. n |-> IF i = 1 THEN s[i] ELSE w[i - 1] \o s[i]]
      BY <2>1
    <3> QED BY <1>0, <2>2, <3>1 DEF Flattens
  <2>4. Flattens(h, s)
    BY <2>3
  <2>5. FlattenSeq(s) = h[n]
    BY <1>0, <1>7, FlattenIs
  <2> HIDE DEF h
  <2>6. \A i \in 1 .. n : h[i] = IF i = 1 THEN s[i] ELSE h[i - 1] \o s[i]
    BY <1>0, <2>4 DEF Flattens
  <2> DEFINE Same == {k \in 0 .. n - 1 : h[k + 1] = w[k + 1]}
  <2>7. 0 \in Same
    <3>1. 0 + 1 = 1 /\ 1 \in 1 .. n /\ 0 \in 0 .. n - 1
      BY <1>7
    <3>2. h[1] = w[1]
      BY <2>1, <2>6, <3>1
    <3> QED BY <3>1, <3>2
  <2>8. ASSUME NEW k \in 0 .. n - 1 - 1, k \in Same PROVE k + 1 \in Same
    <3>1. k + 1 \in 0 .. n - 1 /\ k + 1 + 1 \in 1 .. n /\ k + 1 + 1 # 1 /\ k + 1 + 1 - 1 = k + 1
      OBVIOUS
    <3>2. h[k + 1 + 1] = w[k + 1 + 1]
      BY <2>1, <2>6, <2>8, <3>1
    <3> QED BY <3>1, <3>2
  <2>9. n - 1 \in Nat /\ n - 1 \in 0 .. n - 1 /\ n - 1 + 1 = n /\ n \in 1 .. n
    BY <1>7
  <2>10. 0 .. n - 1 \subseteq Same
    <3> HIDE DEF Same
    <3> QED BY <2>7, <2>8, <2>9, UpTo
  <2>11. h[n] = w[n]
    BY <2>9, <2>10
  <2> QED BY <1>4, <2>5, <2>9, <2>11 DEF w
<1> QED BY <1>6, <1>7

\* One more sequence stands after what the others make in a row.
LEMMA FlattenNext ==
  ASSUME NEW T, NEW n \in Nat, NEW s \in [1 .. n -> Seq(T)],
         NEW r \in [1 .. n + 1 -> Seq(T)], \A i \in 1 .. n : r[i] = s[i]
  PROVE  /\ FlattenSeq(s) \in Seq(T)
         /\ FlattenSeq(r) = FlattenSeq(s) \o r[n + 1]
<1>1. PICK g : RowsUpTo(g, T, s, n) /\ FlattenSeq(s) = g[n]
  BY FlattenSteps
<1>0. n + 1 \in Nat
  OBVIOUS
<1>2. PICK h : RowsUpTo(h, T, r, n + 1) /\ FlattenSeq(r) = h[n + 1]
  BY <1>0, FlattenSteps
<1>3. g \in [0 .. n -> Seq(T)] /\ g[0] = <<>> /\ \A k \in 1 .. n : g[k] = g[k - 1] \o s[k]
  BY <1>1 DEF RowsUpTo
<1>4. h[0] = <<>> /\ \A k \in 1 .. n + 1 : h[k] = h[k - 1] \o r[k]
  BY <1>2 DEF RowsUpTo
<1>a. \A k \in 0 .. n : h[k + 1] = h[k] \o r[k + 1]
  <2> TAKE k \in 0 .. n
  <2> DEFINE m == k + 1
  <2>1. m \in 1 .. n + 1 /\ m - 1 = k
    OBVIOUS
  <2> HIDE DEF m
  <2>2. h[m] = h[m - 1] \o r[m]
    BY <1>4, <2>1
  <2> QED BY <2>1, <2>2 DEF m
<1>b. \A k \in 0 .. n - 1 : g[k + 1] = g[k] \o s[k + 1]
  <2> TAKE k \in 0 .. n - 1
  <2> DEFINE m == k + 1
  <2>1. m \in 1 .. n /\ m - 1 = k
    OBVIOUS
  <2> HIDE DEF m
  <2>2. g[m] = g[m - 1] \o s[m]
    BY <1>3, <2>1
  <2> QED BY <2>1, <2>2 DEF m
<1> DEFINE Same == {k \in 0 .. n : h[k] = g[k]}
<1>5. 0 \in Same
  BY <1>3, <1>4
<1>6. ASSUME NEW k \in 0 .. n - 1, k \in Same PROVE k + 1 \in Same
  <2>1. k + 1 \in 1 .. n /\ k \in 0 .. n /\ k + 1 \in 0 .. n
    OBVIOUS
  <2>2. r[k + 1] = s[k + 1] /\ h[k] = g[k]
    BY <1>6, <2>1
  <2>3. h[k + 1] = g[k + 1]
    BY <1>a, <1>b, <2>1, <2>2
  <2> QED BY <2>1, <2>3
<1>7. 0 .. n \subseteq Same
  <2> HIDE DEF Same
  <2> QED BY <1>5, <1>6, UpTo
<1>8. n \in 0 .. n /\ n + 1 \in 1 .. n + 1 /\ n + 1 - 1 = n
  OBVIOUS
<1>9. h[n] = g[n] /\ g[n] \in Seq(T)
  BY <1>3, <1>7, <1>8
<1>10. h[n + 1] = h[n] \o r[n + 1]
  BY <1>a, <1>8
<1> QED BY <1>1, <1>2, <1>9, <1>10
=============================================================================

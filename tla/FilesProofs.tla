---------------------------- MODULE FilesProofs ----------------------------
(***************************************************************************)
(* The filesystem, and the shell and its editor above it, for all names,   *)
(* contents, arguments and bounds.  The nest of maps comes first: that it  *)
(* does what the tree of FileTree does.  Then the tree, and the commands   *)
(* that the shell makes of it.                                             *)
(***************************************************************************)
EXTENDS Shell, FileSystem, SequenceLemmas, FiniteSetTheorems

-----------------------------------------------------------------------------
(* The nest of maps *)

\* A path is its last segment behind the path of the parent.
LEMMA LastSegment ==
  ASSUME NEW S, NEW k \in Nat, NEW q \in Seq(S), Len(q) = k + 1
  PROVE  /\ SubSeq(q, 1, k) \in Seq(S) /\ Len(SubSeq(q, 1, k)) = k
         /\ q[k + 1] \in S /\ q = Append(SubSeq(q, 1, k), q[k + 1])
<1> DEFINE f == SubSeq(q, 1, k)
<1>1. f \in Seq(S) /\ Len(f) = k /\ \A i \in 1 .. k : f[i] = q[i]
  OBVIOUS
<1>2. q[k + 1] \in S
  OBVIOUS
<1> HIDE DEF f
<1> DEFINE t == Append(f, q[k + 1])
<1>3. t \in Seq(S) /\ Len(t) = k + 1 /\ \A i \in 1 .. k + 1 : t[i] = q[i]
  <2>1. t \in Seq(S) /\ Len(t) = k + 1 /\ t[k + 1] = q[k + 1] /\ \A i \in 1 .. k : t[i] = f[i]
    BY <1>1, <1>2
  <2> HIDE DEF t
  <2> QED BY <1>1, <2>1
<1> HIDE DEF t
<1>4. q = t
  BY <1>3
<1> QED BY <1>1, <1>2, <1>4 DEF f, t

\* The walk of find_node along the first n segments of a path.
IsWalk(w, n, children, path) ==
  w = [i \in 0 .. n |-> IF i = 0 THEN Folder(children) ELSE Down(w[i - 1], path[i])]

LEMMA WalkExists ==
  ASSUME NEW n \in Nat, NEW children, NEW path
  PROVE  \E w : IsWalk(w, n, children, path)
<1> DEFINE S == {k \in 0 .. n : \E w : IsWalk(w, k, children, path)}
<1>1. 0 \in S
  <2> DEFINE w == [i \in 0 .. 0 |-> Folder(children)]
  <2>1. IsWalk(w, 0, children, path)
    BY DEF IsWalk
  <2> QED BY <2>1
<1>2. ASSUME NEW k \in 0 .. n - 1, k \in S
      PROVE  k + 1 \in S
  <2>1. PICK w : IsWalk(w, k, children, path)
    BY <1>2
  <2> DEFINE v == [i \in 0 .. k + 1 |->
                     IF i = k + 1 THEN Down(w[k], path[k + 1]) ELSE w[i]]
  <2>2. ASSUME NEW i \in 0 .. k + 1
        PROVE  v[i] = IF i = 0 THEN Folder(children) ELSE Down(v[i - 1], path[i])
    <3>1. CASE i = k + 1
      BY <3>1
    <3>2. CASE i # k + 1
      <4>1. i \in 0 .. k /\ v[i] = w[i]
        BY <3>2
      <4>2. w[i] = IF i = 0 THEN Folder(children) ELSE Down(w[i - 1], path[i])
        BY <2>1, <4>1 DEF IsWalk
      <4>3. i # 0 => v[i - 1] = w[i - 1]
        BY <4>1
      <4> QED BY <4>1, <4>2, <4>3
    <3> QED BY <3>1, <3>2
  <2>3. v = [i \in 0 .. k + 1 |-> v[i]]
    OBVIOUS
  <2> HIDE DEF v
  <2>4. IsWalk(v, k + 1, children, path)
    BY <2>2, <2>3 DEF IsWalk
  <2> QED BY <2>4
<1> HIDE DEF S
<1>3. 0 .. n \subseteq S
  BY <1>1, <1>2, UpTo
<1> QED BY <1>3 DEF S

\* Two walks over paths that begin alike begin alike.
LEMMA SameWalk ==
  ASSUME NEW m \in Nat, NEW n \in Nat, m <= n, NEW children, NEW p, NEW q,
         \A i \in 1 .. m : p[i] = q[i],
         NEW v, IsWalk(v, m, children, p), NEW w, IsWalk(w, n, children, q)
  PROVE  v[m] = w[m]
<1> DEFINE S == {k \in 0 .. m : v[k] = w[k]}
<1>1. 0 \in S
  BY DEF IsWalk
<1>2. ASSUME NEW k \in 0 .. m - 1, k \in S
      PROVE  k + 1 \in S
  <2>1. k + 1 \in 0 .. m /\ k + 1 \in 0 .. n /\ k + 1 # 0 /\ k + 1 - 1 = k /\ k + 1 \in 1 .. m
    OBVIOUS
  <2>2. v[k + 1] = Down(v[k], p[k + 1])
    BY <2>1 DEF IsWalk
  <2>3. w[k + 1] = Down(w[k], q[k + 1])
    BY <2>1 DEF IsWalk
  <2> QED BY <1>2, <2>1, <2>2, <2>3
<1> HIDE DEF S
<1>3. 0 .. m \subseteq S
  BY <1>1, <1>2, UpTo
<1> QED BY <1>3 DEF S

\* What find_node answers: the root for the empty path, and for a path with one
\* more segment what is one step further down.
LEMMA FindIs ==
  ASSUME NEW children, NEW S
  PROVE  /\ FindNode(children, <<>>) = Folder(children)
         /\ \A path \in Seq(S), name \in S :
              FindNode(children, Append(path, name)) = Down(FindNode(children, path), name)
<1>1. ASSUME NEW path \in Seq(S)
      PROVE  \E w : /\ IsWalk(w, Len(path), children, path)
                    /\ FindNode(children, path) = w[Len(path)]
  <2> DEFINE w == CHOOSE w : IsWalk(w, Len(path), children, path)
  <2>1. FindNode(children, path) = w[Len(path)]
    BY Zenon DEF FindNode, IsWalk
  <2>2. Len(path) \in Nat
    OBVIOUS
  <2>3. IsWalk(w, Len(path), children, path)
    BY <2>2, WalkExists
  <2> QED BY <2>1, <2>3
<1>2. FindNode(children, <<>>) = Folder(children)
  <2>1. <<>> \in Seq(S) /\ Len(<<>>) = 0
    OBVIOUS
  <2>2. PICK w : IsWalk(w, 0, children, <<>>) /\ FindNode(children, <<>>) = w[0]
    BY <1>1, <2>1
  <2> QED BY <2>2 DEF IsWalk
<1>3. ASSUME NEW path \in Seq(S), NEW name \in S
      PROVE  FindNode(children, Append(path, name)) = Down(FindNode(children, path), name)
  <2> DEFINE longer == Append(path, name)
             n == Len(path)
  <2>1. /\ longer \in Seq(S) /\ n \in Nat /\ Len(longer) = n + 1
        /\ longer[n + 1] = name /\ \A i \in 1 .. n : path[i] = longer[i]
    OBVIOUS
  <2>2. PICK v : IsWalk(v, n, children, path) /\ FindNode(children, path) = v[n]
    BY <1>1
  <2> HIDE DEF longer, n
  <2>3. PICK w : IsWalk(w, n + 1, children, longer) /\ FindNode(children, longer) = w[n + 1]
    BY <1>1, <2>1
  <2>4. v[n] = w[n]
    BY <2>1, <2>2, <2>3, SameWalk
  <2>5. w[n + 1] = Down(w[n], longer[n + 1])
    BY <2>1, <2>3 DEF IsWalk
  <2> QED BY <2>1, <2>2, <2>3, <2>4, <2>5 DEF longer
<1> QED BY <1>2, <1>3

LEMMA FindNext ==
  ASSUME NEW children, NEW p \in Seq(Names), NEW m \in Names
  PROVE  /\ Append(p, m) \in Seq(Names) /\ Len(Append(p, m)) = Len(p) + 1
         /\ FindNode(children, Append(p, m)) = Down(FindNode(children, p), m)
<1>1. \A path \in Seq(Names), name \in Names :
        FindNode(children, Append(path, name)) = Down(FindNode(children, path), name)
  BY FindIs
<1> QED BY <1>1

-----------------------------------------------------------------------------
\* What a nest of maps is made of.
IsNode(x) ==
  \/ x.kind = "file" /\ x.content \in Contents /\ x = File(x.content)
  \/ /\ x.kind = "directory" /\ DOMAIN x.children \subseteq Names
     /\ \A name \in DOMAIN x.children : x.children[name].kind \in {"file", "directory"}

Nest(children) ==
  \A p \in Seq(Names) : FindNode(children, p) = None \/ IsNode(FindNode(children, p))

LEMMA PathsOfLength ==
  ASSUME NEW n \in Nat
  PROVE  \A p : p \in [1 .. n -> Names] <=> p \in Seq(Names) /\ Len(p) = n
<1>1. ASSUME NEW p \in [1 .. n -> Names] PROVE p \in Seq(Names) /\ Len(p) = n
  OBVIOUS
<1>2. ASSUME NEW p \in Seq(Names), Len(p) = n PROVE p \in [1 .. n -> Names]
  BY <1>2
<1> QED BY <1>1, <1>2

\* Who is found has a parent, which is a directory.
LEMMA ChildIs ==
  ASSUME NEW children, NEW p \in Seq(Names), NEW name \in Names,
         FindNode(children, Append(p, name)) # None
  PROVE  /\ FindNode(children, p).kind = "directory"
         /\ name \in DOMAIN FindNode(children, p).children
         /\ FindNode(children, Append(p, name)) = FindNode(children, p).children[name]
BY FindIs DEF Down

LEMMA ParentIs ==
  ASSUME NEW children, Nest(children), NEW p \in Seq(Names),
         FindNode(children, p).kind = "directory"
  PROVE  /\ DOMAIN FindNode(children, p).children \subseteq Names
         /\ \A name \in DOMAIN FindNode(children, p).children :
              /\ FindNode(children, Append(p, name)) = FindNode(children, p).children[name]
              /\ FindNode(children, Append(p, name)) # None
<1>1. FindNode(children, p) # None
  BY DEF None
<1>2. IsNode(FindNode(children, p))
  BY <1>1 DEF Nest
<1>3. /\ DOMAIN FindNode(children, p).children \subseteq Names
      /\ \A name \in DOMAIN FindNode(children, p).children :
           FindNode(children, p).children[name].kind \in {"file", "directory"}
  BY <1>2 DEF IsNode
<1>4. ASSUME NEW name \in DOMAIN FindNode(children, p).children
      PROVE  /\ FindNode(children, Append(p, name)) = FindNode(children, p).children[name]
             /\ FindNode(children, Append(p, name)) # None
  <2>1. name \in Names /\ FindNode(children, p).children[name] # None
    BY <1>3 DEF None
  <2>2. FindNode(children, Append(p, name)) = FindNode(children, p).children[name]
    BY <2>1, FindIs DEF Down
  <2> QED BY <2>1, <2>2
<1> QED BY <1>3, <1>4

IsLevels(l, n, children) ==
  l = [k \in 0 .. n |-> IF k = 0 THEN {<< <<>>, Folder(children) >>} ELSE LevelBelow(l[k - 1])]

LEMMA LevelsExist ==
  ASSUME NEW n \in Nat, NEW children
  PROVE  \E l : IsLevels(l, n, children)
<1> DEFINE S == {k \in 0 .. n : \E l : IsLevels(l, k, children)}
<1>1. 0 \in S
  <2> DEFINE l == [k \in 0 .. 0 |-> {<< <<>>, Folder(children) >>}]
  <2>1. IsLevels(l, 0, children)
    BY DEF IsLevels
  <2> QED BY <2>1
<1>2. ASSUME NEW k \in 0 .. n - 1, k \in S
      PROVE  k + 1 \in S
  <2>1. PICK l : IsLevels(l, k, children)
    BY <1>2
  <2> DEFINE m == [i \in 0 .. k + 1 |-> IF i = k + 1 THEN LevelBelow(l[k]) ELSE l[i]]
  <2>2. ASSUME NEW i \in 0 .. k + 1
        PROVE  m[i] = IF i = 0 THEN {<< <<>>, Folder(children) >>} ELSE LevelBelow(m[i - 1])
    <3>1. CASE i = k + 1
      BY <3>1
    <3>2. CASE i # k + 1
      <4>1. i \in 0 .. k /\ m[i] = l[i]
        BY <3>2
      <4>2. l[i] = IF i = 0 THEN {<< <<>>, Folder(children) >>} ELSE LevelBelow(l[i - 1])
        BY <2>1, <4>1 DEF IsLevels
      <4>3. i # 0 => m[i - 1] = l[i - 1]
        BY <4>1
      <4> QED BY <4>1, <4>2, <4>3
    <3> QED BY <3>1, <3>2
  <2>3. m = [i \in 0 .. k + 1 |-> m[i]]
    OBVIOUS
  <2> HIDE DEF m
  <2>4. IsLevels(m, k + 1, children)
    BY <2>2, <2>3 DEF IsLevels
  <2> QED BY <2>4
<1> HIDE DEF S
<1>3. 0 .. n \subseteq S
  BY <1>1, <1>2, UpTo
<1> QED BY <1>3 DEF S

\* A level holds the nodes that are found at paths of its length.
Level(l, children, n) ==
  \A e : e \in l <=> \E p \in [1 .. n -> Names] :
                       e = <<p, FindNode(children, p)>> /\ FindNode(children, p) # None

LEMMA NextLevel ==
  ASSUME NEW children, Nest(children), NEW n \in Nat, NEW l, Level(l, children, n)
  PROVE  Level(LevelBelow(l), children, n + 1)
<1>1. ASSUME NEW x
      PROVE  x \in LevelBelow(l) <=>
               \E e \in l : /\ e[2].kind = "directory"
                            /\ \E name \in DOMAIN e[2].children :
                                 x = <<Append(e[1], name), e[2].children[name]>>
  BY DEF LevelBelow
<1>2. ASSUME NEW x \in LevelBelow(l)
      PROVE  \E p \in [1 .. n + 1 -> Names] :
               x = <<p, FindNode(children, p)>> /\ FindNode(children, p) # None
  <2>1. PICK e \in l : /\ e[2].kind = "directory"
                       /\ \E name \in DOMAIN e[2].children :
                            x = <<Append(e[1], name), e[2].children[name]>>
    BY <1>1, <1>2
  <2>2. PICK p \in [1 .. n -> Names] : e = <<p, FindNode(children, p)>>
    BY DEF Level
  <2>3. p \in Seq(Names) /\ Len(p) = n
    BY PathsOfLength
  <2>4. /\ FindNode(children, p).kind = "directory"
        /\ \E name \in DOMAIN FindNode(children, p).children :
             x = <<Append(p, name), FindNode(children, p).children[name]>>
    BY <2>1, <2>2
  <2>5. PICK name \in DOMAIN FindNode(children, p).children :
          x = <<Append(p, name), FindNode(children, p).children[name]>>
    BY <2>4
  <2>6. /\ name \in Names /\ FindNode(children, Append(p, name)) # None
        /\ FindNode(children, Append(p, name)) = FindNode(children, p).children[name]
    BY <2>3, <2>4, ParentIs
  <2>7. Append(p, name) \in Seq(Names) /\ Len(Append(p, name)) = n + 1
    BY <2>3, <2>6
  <2>8. Append(p, name) \in [1 .. n + 1 -> Names]
    <3>1. n + 1 \in Nat
      OBVIOUS
    <3> QED BY <2>7, <3>1, PathsOfLength
  <2> QED BY <2>5, <2>6, <2>8
<1>3. ASSUME NEW q \in [1 .. n + 1 -> Names], FindNode(children, q) # None
      PROVE  <<q, FindNode(children, q)>> \in LevelBelow(l)
  <2>1. q \in Seq(Names) /\ Len(q) = n + 1
    BY PathsOfLength
  <2> DEFINE p == SubSeq(q, 1, n)
             name == q[n + 1]
  <2>2. p \in Seq(Names) /\ Len(p) = n /\ name \in Names /\ q = Append(p, name)
    BY <2>1, LastSegment
  <2> HIDE DEF p, name
  <2>3. /\ FindNode(children, p).kind = "directory"
        /\ name \in DOMAIN FindNode(children, p).children
        /\ FindNode(children, q) = FindNode(children, p).children[name]
    BY <1>3, <2>2, ChildIs
  <2>4. FindNode(children, p) # None /\ p \in [1 .. n -> Names]
    BY <2>2, <2>3, PathsOfLength DEF None
  <2>5. <<p, FindNode(children, p)>> \in l
    BY <2>4 DEF Level
  <2> DEFINE e == <<p, FindNode(children, p)>>
  <2>6. /\ e \in l /\ e[2].kind = "directory" /\ name \in DOMAIN e[2].children
        /\ <<q, FindNode(children, q)>> = <<Append(e[1], name), e[2].children[name]>>
    BY <2>2, <2>3, <2>5
  <2> HIDE DEF e
  <2> QED BY <1>1, <2>6
<1> QED BY <1>2, <1>3 DEF Level

LEMMA PathsAre == \A p : p \in Tree!Paths <=> p \in Seq(Names) /\ Len(p) \in 1 .. MaxDepth
<1>1. \A p : p \in Tree!Paths <=> \E n \in 1 .. MaxDepth : p \in [1 .. n -> Names]
  BY DEF Tree!Paths
<1>2. \A n \in 1 .. MaxDepth : n \in Nat
  BY BoundAssumption
<1>3. \A n \in 1 .. MaxDepth : \A p : p \in [1 .. n -> Names] <=> p \in Seq(Names) /\ Len(p) = n
  BY <1>2, PathsOfLength
<1> QED BY <1>1, <1>3

\* Level by level is found what find_node finds path by path.
LEMMA EntriesAre ==
  ASSUME NEW children, Nest(children)
  PROVE  \A e : e \in Entries(children) <=>
           \E p \in Tree!Paths : e = <<p, FindNode(children, p)>> /\ FindNode(children, p) # None
<1> DEFINE l == CHOOSE l : IsLevels(l, MaxDepth, children)
<1>1. Entries(children) = UNION {l[n] : n \in 1 .. MaxDepth}
  BY Zenon DEF Entries, IsLevels
<1>2. IsLevels(l, MaxDepth, children)
  BY LevelsExist, BoundAssumption
<1> HIDE DEF l
<1>9. \A k \in 0 .. MaxDepth :
        l[k] = IF k = 0 THEN {<< <<>>, Folder(children) >>} ELSE LevelBelow(l[k - 1])
  BY <1>2 DEF IsLevels
<1> DEFINE S == {k \in 0 .. MaxDepth : Level(l[k], children, k)}
<1>3. 0 \in S
  <2>1. 0 \in 0 .. MaxDepth /\ l[0] = {<< <<>>, Folder(children) >>}
    BY <1>2, BoundAssumption DEF IsLevels
  <2>2. FindNode(children, <<>>) = Folder(children) /\ Folder(children) # None
    BY FindIs DEF Folder, None
  <2>3. \A p : p \in [1 .. 0 -> Names] <=> p = <<>>
    <3>1. /\ \A p \in Seq(Names) : Len(p) = 0 => p = <<>>
          /\ <<>> \in Seq(Names) /\ Len(<<>>) = 0
      OBVIOUS
    <3> QED BY <3>1, PathsOfLength
  <2>4. Level(l[0], children, 0)
    BY <2>1, <2>2, <2>3 DEF Level
  <2> QED BY <2>1, <2>4
<1>4. ASSUME NEW k \in 0 .. MaxDepth - 1, k \in S
      PROVE  k + 1 \in S
  <2>1. k \in Nat /\ k + 1 \in 0 .. MaxDepth /\ k + 1 # 0 /\ k + 1 - 1 = k
    BY BoundAssumption
  <2>2. l[k + 1] = LevelBelow(l[k])
    BY <1>9, <2>1
  <2>3. Level(l[k + 1], children, k + 1)
    BY <1>4, <2>1, <2>2, NextLevel
  <2> QED BY <2>1, <2>3
<1>5. \A k \in 1 .. MaxDepth : Level(l[k], children, k)
  <2> HIDE DEF S
  <2>1. 0 .. MaxDepth \subseteq S
    BY <1>3, <1>4, BoundAssumption, UpTo
  <2>2. \A k \in 1 .. MaxDepth : k \in 0 .. MaxDepth
    BY BoundAssumption
  <2> QED BY <2>1, <2>2 DEF S
<1>6. \A p : p \in Tree!Paths <=> \E n \in 1 .. MaxDepth : p \in [1 .. n -> Names]
  BY DEF Tree!Paths
<1>7. \A e : e \in Entries(children) <=> \E n \in 1 .. MaxDepth : e \in l[n]
  BY <1>1
<1>8. ASSUME NEW e
      PROVE  e \in Entries(children) <=>
               \E n \in 1 .. MaxDepth : \E p \in [1 .. n -> Names] :
                 e = <<p, FindNode(children, p)>> /\ FindNode(children, p) # None
  BY <1>5, <1>7 DEF Level
<1> QED BY <1>6, <1>8

\* What the nest means: a path exists if find_node finds something there.
LEMMA TreeIs ==
  ASSUME NEW children, Nest(children)
  PROVE  /\ \A p : p \in DOMAIN Flatten(children) <=>
                     p \in Tree!Paths /\ FindNode(children, p) # None
         /\ \A p \in DOMAIN Flatten(children) :
              Flatten(children)[p] = Value(FindNode(children, p))
         /\ Flatten(children) = [p \in DOMAIN Flatten(children) |-> Flatten(children)[p]]
<1> DEFINE all == Entries(children)
<1>1. \A e : e \in all <=>
        \E p \in Tree!Paths : e = <<p, FindNode(children, p)>> /\ FindNode(children, p) # None
  BY EntriesAre
<1> HIDE DEF all
<1>2. Flatten(children) = [p \in {e[1] : e \in all} |-> Value((CHOOSE e \in all : e[1] = p)[2])]
  BY DEF Flatten, all
<1>3. DOMAIN Flatten(children) = {e[1] : e \in all}
  BY <1>2
<1>4. ASSUME NEW p
      PROVE  p \in {e[1] : e \in all} <=> p \in Tree!Paths /\ FindNode(children, p) # None
  <2>1. ASSUME NEW e \in all, e[1] = p
        PROVE  p \in Tree!Paths /\ FindNode(children, p) # None
    <3>1. PICK q \in Tree!Paths : e = <<q, FindNode(children, q)>> /\ FindNode(children, q) # None
      BY <1>1
    <3> QED BY <2>1, <3>1
  <2>2. ASSUME p \in Tree!Paths, FindNode(children, p) # None
        PROVE  p \in {e[1] : e \in all}
    <3> DEFINE e == <<p, FindNode(children, p)>>
    <3>1. e \in all /\ e[1] = p
      BY <1>1, <2>2
    <3> HIDE DEF e
    <3> QED BY <3>1
  <2> QED BY <2>1, <2>2
<1>5. ASSUME NEW p \in DOMAIN Flatten(children)
      PROVE  Flatten(children)[p] = Value(FindNode(children, p))
  <2> DEFINE e == CHOOSE e \in all : e[1] = p
  <2>1. \E d \in all : d[1] = p
    BY <1>3, <1>5
  <2>2. e \in all /\ e[1] = p
    BY <2>1
  <2>3. Flatten(children)[p] = Value(e[2])
    BY <1>2, <1>3
  <2> HIDE DEF e
  <2>4. PICK q \in Tree!Paths : e = <<q, FindNode(children, q)>>
    BY <1>1, <2>2
  <2>5. e[2] = FindNode(children, p)
    BY <2>2, <2>4
  <2> QED BY <2>3, <2>5
<1> QED BY <1>2, <1>3, <1>4, <1>5

-----------------------------------------------------------------------------
\* One path is the beginning of another.
LEMMA BelowIs ==
  ASSUME NEW S, NEW p \in Seq(S), NEW q \in Seq(S)
  PROVE  Tree!Below(p, q) <=> Len(p) <= Len(q) /\ \A i \in 1 .. Len(p) : p[i] = q[i]
<1>1. CASE Len(p) <= Len(q)
  <2> DEFINE s == SubSeq(q, 1, Len(p))
  <2>1. s \in Seq(S) /\ Len(s) = Len(p) /\ \A i \in 1 .. Len(p) : s[i] = q[i]
    BY <1>1
  <2> HIDE DEF s
  <2>2. s = p <=> \A i \in 1 .. Len(p) : s[i] = p[i]
    BY <2>1
  <2> QED BY <1>1, <2>1, <2>2 DEF Tree!Below, s
<1>2. CASE ~ (Len(p) <= Len(q))
  BY <1>2 DEF Tree!Below
<1> QED BY <1>1, <1>2

LEMMA BelowNext ==
  ASSUME NEW S, NEW p \in Seq(S), NEW q \in Seq(S), NEW m \in S
  PROVE  /\ Tree!Below(Append(q, m), p) <=>
              Tree!Below(q, p) /\ Len(q) < Len(p) /\ p[Len(q) + 1] = m
         /\ Tree!Below(p, Append(q, m)) <=> Tree!Below(p, q) \/ p = Append(q, m)
         /\ Tree!Below(q, p) /\ ~ (Len(q) < Len(p)) => q = p
         /\ Tree!Below(p, p) /\ Tree!Below(<<>>, p)
<1> DEFINE b == Append(q, m)
           n == Len(q)
<1>1. /\ b \in Seq(S) /\ n \in Nat /\ Len(b) = n + 1 /\ b[n + 1] = m
      /\ \A i \in 1 .. n : b[i] = q[i]
  OBVIOUS
<1>2. Len(p) \in Nat /\ <<>> \in Seq(S) /\ Len(<<>>) = 0
  OBVIOUS
<1>n. Len(q) = n
  OBVIOUS
<1> HIDE DEF b, n
<1>3. /\ Tree!Below(b, p) <=> n + 1 <= Len(p) /\ \A i \in 1 .. n + 1 : b[i] = p[i]
      /\ Tree!Below(p, b) <=> Len(p) <= n + 1 /\ \A i \in 1 .. Len(p) : p[i] = b[i]
      /\ Tree!Below(q, p) <=> n <= Len(p) /\ \A i \in 1 .. n : q[i] = p[i]
      /\ Tree!Below(p, q) <=> Len(p) <= n /\ \A i \in 1 .. Len(p) : p[i] = q[i]
      /\ Tree!Below(p, p) <=> Len(p) <= Len(p) /\ \A i \in 1 .. Len(p) : p[i] = p[i]
      /\ Tree!Below(<<>>, p) <=> 0 <= Len(p) /\ \A i \in 1 .. 0 : <<>>[i] = p[i]
  <2>1. \A s \in Seq(S), t \in Seq(S) :
          Tree!Below(s, t) <=> Len(s) <= Len(t) /\ \A i \in 1 .. Len(s) : s[i] = t[i]
    BY BelowIs
  <2>2. Tree!Below(b, p) <=> Len(b) <= Len(p) /\ \A i \in 1 .. Len(b) : b[i] = p[i]
    BY <1>1, <2>1
  <2>3. Tree!Below(p, b) <=> Len(p) <= Len(b) /\ \A i \in 1 .. Len(p) : p[i] = b[i]
    BY <1>1, <2>1
  <2>4. Tree!Below(q, p) <=> Len(q) <= Len(p) /\ \A i \in 1 .. Len(q) : q[i] = p[i]
    BY <2>1
  <2>5. Tree!Below(p, q) <=> Len(p) <= Len(q) /\ \A i \in 1 .. Len(p) : p[i] = q[i]
    BY <2>1
  <2>6. Tree!Below(p, p) <=> Len(p) <= Len(p) /\ \A i \in 1 .. Len(p) : p[i] = p[i]
    BY <2>1
  <2>7. Tree!Below(<<>>, p) <=> Len(<<>>) <= Len(p) /\ \A i \in 1 .. Len(<<>>) : <<>>[i] = p[i]
    BY <1>2, <2>1
  <2>8. Len(b) = n + 1 /\ Len(q) = n /\ Len(<<>>) = 0
    BY <1>1, <1>2, <1>n
  <2> QED BY <2>2, <2>3, <2>4, <2>5, <2>6, <2>7, <2>8
<1>4. Tree!Below(b, p) <=> Tree!Below(q, p) /\ n < Len(p) /\ p[n + 1] = m
  <2>1. \A i \in 1 .. n + 1 : i \in 1 .. n \/ i = n + 1
    BY <1>1
  <2>2. n + 1 \in 1 .. n + 1 /\ \A i \in 1 .. n : i \in 1 .. n + 1
    BY <1>1
  <2> QED BY <1>1, <1>2, <1>3, <2>1, <2>2
<1>5. Tree!Below(p, b) <=> Tree!Below(p, q) \/ p = b
  <2>1. CASE Len(p) <= n
    <3>1. \A i \in 1 .. Len(p) : i \in 1 .. n
      BY <1>1, <1>2, <2>1
    <3>2. p # b
      BY <1>1, <1>2, <2>1
    <3> QED BY <1>1, <1>2, <1>3, <2>1, <3>1, <3>2
  <2>2. CASE Len(p) = n + 1
    <3>1. p = b <=> \A i \in 1 .. n + 1 : p[i] = b[i]
      BY <1>1, <2>2
    <3> QED BY <1>1, <1>3, <2>2, <3>1
  <2>3. CASE Len(p) > n + 1
    <3>1. p # b
      BY <1>1, <1>2, <2>3
    <3> QED BY <1>1, <1>2, <1>3, <2>3, <3>1
  <2> QED BY <1>1, <1>2, <2>1, <2>2, <2>3
<1>6. Tree!Below(q, p) /\ ~ (n < Len(p)) => q = p
  <2> SUFFICES ASSUME Tree!Below(q, p), ~ (n < Len(p)) PROVE q = p
    OBVIOUS
  <2>1. Len(p) = n /\ \A i \in 1 .. n : q[i] = p[i]
    BY <1>1, <1>2, <1>3
  <2> QED BY <1>n, <2>1
<1>7. Tree!Below(p, p) /\ Tree!Below(<<>>, p)
  BY <1>2, <1>3
<1> QED BY <1>4, <1>5, <1>6, <1>7 DEF b, n

\* Above a directory there are only directories, and each has the next.
LEMMA Ancestors ==
  ASSUME NEW children, NEW parent \in Seq(Names), FindNode(children, parent).kind = "directory",
         NEW q \in Seq(Names), Tree!Below(q, parent)
  PROVE  /\ FindNode(children, q).kind = "directory"
         /\ Len(q) < Len(parent) =>
              parent[Len(q) + 1] \in DOMAIN FindNode(children, q).children
<1> DEFINE n == Len(parent)
           Beginning(k) == SubSeq(parent, 1, n - k)
           S == {k \in 0 .. n : FindNode(children, Beginning(k)).kind = "directory"}
<1>n. n \in Nat
  OBVIOUS
<1>1. ASSUME NEW k \in 0 .. n - 1
      PROVE  /\ Beginning(k) \in Seq(Names) /\ Beginning(k + 1) \in Seq(Names)
             /\ parent[n - k] \in Names
             /\ Beginning(k) = Append(Beginning(k + 1), parent[n - k])
  <2> DEFINE j == n - k - 1
             p == SubSeq(parent, 1, n - k)
  <2>1. p \in Seq(Names) /\ Len(p) = j + 1 /\ j \in Nat /\ p[j + 1] = parent[n - k]
    OBVIOUS
  <2>2. SubSeq(p, 1, j) = SubSeq(parent, 1, j)
    <3>1. /\ SubSeq(parent, 1, j) \in Seq(Names) /\ Len(SubSeq(parent, 1, j)) = j
          /\ \A i \in 1 .. j : SubSeq(parent, 1, j)[i] = parent[i]
      OBVIOUS
    <3>2. \A i \in 1 .. j : p[i] = parent[i]
      OBVIOUS
    <3>3. /\ SubSeq(p, 1, j) \in Seq(Names) /\ Len(SubSeq(p, 1, j)) = j
          /\ \A i \in 1 .. j : SubSeq(p, 1, j)[i] = p[i]
      <4> HIDE DEF p, j
      <4> QED BY <2>1
    <3> HIDE DEF p, j
    <3> QED BY <3>1, <3>2, <3>3
  <2>3. j = n - (k + 1)
    OBVIOUS
  <2> HIDE DEF p, j
  <2>4. SubSeq(p, 1, j) \in Seq(Names) /\ p[j + 1] \in Names /\ p = Append(SubSeq(p, 1, j), p[j + 1])
    BY <2>1, LastSegment
  <2> QED BY <2>1, <2>2, <2>3, <2>4 DEF p
<1>2. Beginning(0) = parent
  OBVIOUS
<1> HIDE DEF Beginning, n
<1>3. 0 \in S
  BY <1>2, <1>n
<1>4. ASSUME NEW k \in 0 .. n - 1, k \in S
      PROVE  /\ k + 1 \in S
             /\ parent[n - k] \in DOMAIN FindNode(children, Beginning(k + 1)).children
  <2>1. FindNode(children, Append(Beginning(k + 1), parent[n - k])) # None
    <3>1. FindNode(children, Beginning(k)).kind = "directory"
      BY <1>4
    <3>2. FindNode(children, Beginning(k)) # None
      BY <3>1 DEF None
    <3> QED BY <1>1, <3>2
  <2>2. /\ FindNode(children, Beginning(k + 1)).kind = "directory"
        /\ parent[n - k] \in DOMAIN FindNode(children, Beginning(k + 1)).children
    BY <1>1, <2>1, ChildIs
  <2>3. k + 1 \in 0 .. n
    BY <1>n
  <2> QED BY <2>2, <2>3
<1>5. \A k \in 0 .. n : k \in S
  <2> HIDE DEF S
  <2>1. 0 .. n \subseteq S
    BY <1>3, <1>4, <1>n, UpTo
  <2> QED BY <2>1
<1>6. /\ n - Len(q) \in 0 .. n /\ q = Beginning(n - Len(q))
      /\ Len(q) < n => n - Len(q) - 1 \in 0 .. n - 1
  <2>1. Len(q) \in Nat /\ Len(q) <= n /\ SubSeq(parent, 1, Len(q)) = q
    BY DEF Tree!Below, n
  <2>2. n - (n - Len(q)) = Len(q)
    BY <1>n, <2>1
  <2> QED BY <1>n, <2>1, <2>2 DEF Beginning
<1>7. FindNode(children, q).kind = "directory"
  BY <1>5, <1>6
<1>8. ASSUME Len(q) < n
      PROVE  parent[Len(q) + 1] \in DOMAIN FindNode(children, q).children
  <2> DEFINE k == n - Len(q) - 1
  <2>1. k \in 0 .. n - 1 /\ k \in 0 .. n /\ k + 1 = n - Len(q) /\ n - k = Len(q) + 1
    BY <1>6, <1>8, <1>n
  <2> HIDE DEF k
  <2>2. parent[n - k] \in DOMAIN FindNode(children, Beginning(k + 1)).children
    BY <1>4, <1>5, <2>1
  <2> QED BY <1>6, <2>1, <2>2
<1> QED BY <1>7, <1>8 DEF n

-----------------------------------------------------------------------------
\* The way back up, from the changed directory at the end of the path to the
\* root at its beginning.
IsRise(v, children, path, new) ==
  /\ v[Len(path)] = new
  /\ \A k \in 0 .. Len(path) - 1 :
       v[k] = [FindNode(children, SubSeq(path, 1, k)).children
                 EXCEPT ![path[k + 1]] = Folder(v[k + 1])]

IsBuilt(u, n, children, path, new) ==
  u = [i \in 0 .. n |->
         IF i = 0 THEN new
         ELSE [FindNode(children, SubSeq(path, 1, Len(path) - i)).children
                 EXCEPT ![path[Len(path) + 1 - i]] = Folder(u[i - 1])]]

LEMMA BuiltExists ==
  ASSUME NEW n \in Nat, NEW children, NEW path, NEW new
  PROVE  \E u : IsBuilt(u, n, children, path, new)
<1> DEFINE Layer(i, x) == [FindNode(children, SubSeq(path, 1, Len(path) - i)).children
                            EXCEPT ![path[Len(path) + 1 - i]] = Folder(x)]
           Built(u, k) == u = [i \in 0 .. k |-> IF i = 0 THEN new ELSE Layer(i, u[i - 1])]
           S == {k \in 0 .. n : \E u : Built(u, k)}
<1>0. \A u, k : Built(u, k) <=> IsBuilt(u, k, children, path, new)
  BY Zenon DEF IsBuilt
<1> HIDE DEF Layer
<1>1. 0 \in S
  <2> DEFINE u == [i \in 0 .. 0 |-> new]
  <2>1. Built(u, 0)
    OBVIOUS
  <2> HIDE DEF u, Built
  <2> QED BY <2>1
<1>2. ASSUME NEW k \in 0 .. n - 1, k \in S
      PROVE  k + 1 \in S
  <2>1. PICK u : Built(u, k)
    BY <1>2
  <2> DEFINE w == [i \in 0 .. k + 1 |-> IF i = k + 1 THEN Layer(k + 1, u[k]) ELSE u[i]]
  <2>2. ASSUME NEW i \in 0 .. k + 1
        PROVE  w[i] = IF i = 0 THEN new ELSE Layer(i, w[i - 1])
    <3>1. CASE i = k + 1
      BY <3>1
    <3>2. CASE i # k + 1
      <4>1. i \in 0 .. k /\ w[i] = u[i]
        BY <3>2
      <4>2. u[i] = IF i = 0 THEN new ELSE Layer(i, u[i - 1])
        BY <2>1, <4>1
      <4>3. i # 0 => w[i - 1] = u[i - 1]
        BY <4>1
      <4> QED BY <4>1, <4>2, <4>3
    <3> QED BY <3>1, <3>2
  <2>3. w = [i \in 0 .. k + 1 |-> w[i]]
    OBVIOUS
  <2> HIDE DEF w
  <2>4. Built(w, k + 1)
    BY <2>2, <2>3
  <2> QED BY <2>4
<1> HIDE DEF S
<1>3. 0 .. n \subseteq S
  BY <1>1, <1>2, UpTo
<1>4. n \in S
  BY <1>3
<1> QED BY <1>0, <1>4 DEF S

LEMMA RiseExists ==
  ASSUME NEW children, NEW path \in Seq(Names), NEW new
  PROVE  \E v : IsRise(v, children, path, new) /\ Rebuild(children, path, new) = v[0]
<1> DEFINE n == Len(path)
           u == CHOOSE u : IsBuilt(u, Len(path), children, path, new)
           v == [k \in 0 .. n |-> u[n - k]]
<1>1. Rebuild(children, path, new) = u[n]
  BY Zenon DEF Rebuild, IsBuilt
<1>2. n \in Nat
  OBVIOUS
<1>3. IsBuilt(u, n, children, path, new)
  BY <1>2, BuiltExists
<1> HIDE DEF u
<1>4. /\ u[0] = new
      /\ \A i \in 1 .. n :
           u[i] = [FindNode(children, SubSeq(path, 1, n - i)).children
                     EXCEPT ![path[n + 1 - i]] = Folder(u[i - 1])]
  <2> DEFINE Layer(i, x) == [FindNode(children, SubSeq(path, 1, n - i)).children
                              EXCEPT ![path[n + 1 - i]] = Folder(x)]
  <2>1. u = [i \in 0 .. n |-> IF i = 0 THEN new ELSE Layer(i, u[i - 1])]
    BY <1>3, Zenon DEF IsBuilt
  <2> HIDE DEF Layer, n
  <2>2. u[0] = new /\ \A i \in 1 .. n : u[i] = Layer(i, u[i - 1])
    BY <1>2, <2>1
  <2> QED BY <2>2 DEF Layer
<1> HIDE DEF n
<1>5. v[n] = new /\ v[0] = u[n]
  BY <1>2, <1>4
<1>6. ASSUME NEW k \in 0 .. n - 1
      PROVE  v[k] = [FindNode(children, SubSeq(path, 1, k)).children
                       EXCEPT ![path[k + 1]] = Folder(v[k + 1])]
  <2>1. n - k \in 1 .. n /\ n - (n - k) = k /\ n + 1 - (n - k) = k + 1 /\ n - k - 1 = n - (k + 1)
    BY <1>2
  <2>2. v[k] = u[n - k] /\ v[k + 1] = u[n - k - 1]
    BY <1>2, <2>1
  <2> HIDE DEF v
  <2> QED BY <1>4, <2>1, <2>2
<1>7. IsRise(v, children, path, new)
  <2> HIDE DEF v
  <2> QED BY <1>5, <1>6 DEF IsRise, n
<1> QED BY <1>1, <1>5, <1>7

\* After the way back up, find_node meets the changed directories on its way
\* to the changed one, and that one at the end.
LEMMA OnTheWay ==
  ASSUME NEW children, NEW parent \in Seq(Names), FindNode(children, parent).kind = "directory",
         NEW new, NEW v, IsRise(v, children, parent, new),
         NEW q \in Seq(Names), Tree!Below(q, parent)
  PROVE  FindNode(v[0], q) = Folder(v[Len(q)])
<1> DEFINE n == Len(parent)
           Beginning(k) == SubSeq(parent, 1, k)
           S == {k \in 0 .. n : FindNode(v[0], Beginning(k)) = Folder(v[k])}
<1>n. n \in Nat
  OBVIOUS
<1>1. \A k \in 0 .. n : /\ Beginning(k) \in Seq(Names) /\ Len(Beginning(k)) = k
                         /\ \A i \in 1 .. k : Beginning(k)[i] = parent[i]
  OBVIOUS
<1>2. Beginning(0) = <<>>
  OBVIOUS
<1>3. ASSUME NEW k \in 0 .. n - 1
      PROVE  Beginning(k + 1) = Append(Beginning(k), parent[k + 1]) /\ parent[k + 1] \in Names
  OBVIOUS
<1> HIDE DEF Beginning
<1>4. \A k \in 0 .. n : Tree!Below(Beginning(k), parent)
  <2> TAKE k \in 0 .. n
  <2>1. Len(Beginning(k)) <= Len(parent)
    BY <1>1, <1>n
  <2>2. Beginning(k) \in Seq(Names) /\ \A i \in 1 .. Len(Beginning(k)) : Beginning(k)[i] = parent[i]
    BY <1>1
  <2> QED BY <2>1, <2>2, BelowIs
<1>5. 0 \in S
  BY <1>2, <1>n, FindIs
<1>6. ASSUME NEW k \in 0 .. n - 1, k \in S
      PROVE  k + 1 \in S
  <2>1. k \in 0 .. n /\ k + 1 \in 0 .. n /\ k < n
    BY <1>n
  <2>2. FindNode(v[0], Beginning(k + 1)) = Down(Folder(v[k]), parent[k + 1])
    <3>1. FindNode(v[0], Append(Beginning(k), parent[k + 1])) =
            Down(FindNode(v[0], Beginning(k)), parent[k + 1])
      BY <1>1, <1>3, <2>1, FindNext
    <3> QED BY <1>3, <1>6, <3>1
  <2>3. parent[k + 1] \in DOMAIN FindNode(children, Beginning(k)).children
    <3>1. Beginning(k) \in Seq(Names) /\ Len(Beginning(k)) = k /\ Tree!Below(Beginning(k), parent)
      BY <1>1, <1>4, <2>1
    <3>2. Len(Beginning(k)) < Len(parent) =>
            parent[Len(Beginning(k)) + 1] \in DOMAIN FindNode(children, Beginning(k)).children
      BY <3>1, Ancestors
    <3> QED BY <2>1, <3>1, <3>2
  <2>4. v[k] = [FindNode(children, Beginning(k)).children EXCEPT ![parent[k + 1]] = Folder(v[k + 1])]
    BY DEF IsRise, Beginning
  <2>5. parent[k + 1] \in DOMAIN v[k] /\ v[k][parent[k + 1]] = Folder(v[k + 1])
    BY <2>3, <2>4
  <2>6. Down(Folder(v[k]), parent[k + 1]) = Folder(v[k + 1])
    BY <2>5 DEF Down, Folder
  <2> QED BY <2>1, <2>2, <2>6
<1>7. \A k \in 0 .. n : k \in S
  <2> HIDE DEF S
  <2>1. 0 .. n \subseteq S
    BY <1>5, <1>6, <1>n, UpTo
  <2> QED BY <2>1
<1>8. Len(q) \in 0 .. n /\ Beginning(Len(q)) = q
  BY DEF Tree!Below, Beginning
<1> QED BY <1>7, <1>8

\* Induction along a path, from the root downwards.
LEMMA EveryPath ==
  ASSUME NEW A, <<>> \in A,
         \A p \in Seq(Names), m \in Names : p \in A => Append(p, m) \in A
  PROVE  Seq(Names) \subseteq A
<1> SUFFICES ASSUME NEW q \in Seq(Names) PROVE q \in A
  OBVIOUS
<1> DEFINE S == {k \in 0 .. Len(q) : \A p \in Seq(Names) : Len(p) = k => p \in A}
<1>1. 0 \in S
  OBVIOUS
<1>2. ASSUME NEW k \in 0 .. Len(q) - 1, k \in S
      PROVE  k + 1 \in S
  <2>1. ASSUME NEW p \in Seq(Names), Len(p) = k + 1
        PROVE  p \in A
    <3>1. /\ SubSeq(p, 1, k) \in Seq(Names) /\ Len(SubSeq(p, 1, k)) = k
          /\ p[k + 1] \in Names /\ p = Append(SubSeq(p, 1, k), p[k + 1])
      BY <2>1, LastSegment
    <3> QED BY <1>2, <3>1
  <2> QED BY <2>1
<1>3. Len(q) \in S
  <2>1. Len(q) \in Nat
    OBVIOUS
  <2> HIDE DEF S
  <2>2. 0 .. Len(q) \subseteq S
    BY <1>1, <1>2, <2>1, UpTo
  <2> QED BY <2>1, <2>2
<1> QED BY <1>3

\* Elsewhere find_node answers what it did.
LEMMA Aside ==
  ASSUME NEW children, NEW parent \in Seq(Names), FindNode(children, parent).kind = "directory",
         NEW new, NEW v, IsRise(v, children, parent, new), NEW name \in Names,
         \A m \in Names \ {name} : Down(Folder(new), m) = Down(FindNode(children, parent), m)
  PROVE  \A q \in Seq(Names) :
           ~ Tree!Below(q, parent) /\ ~ Tree!Below(Append(parent, name), q) =>
             FindNode(v[0], q) = FindNode(children, q)
<1> DEFINE t == Append(parent, name)
           A == {q \in Seq(Names) : ~ Tree!Below(q, parent) /\ ~ Tree!Below(t, q) =>
                                      FindNode(v[0], q) = FindNode(children, q)}
<1>1. /\ t \in Seq(Names) /\ <<>> \in Seq(Names) /\ Len(parent) \in Nat
      /\ \A p \in Seq(Names), m \in Names : Append(p, m) \in Seq(Names)
  OBVIOUS
<1>2. <<>> \in A
  BY <1>1, BelowNext
<1>3. ASSUME NEW p \in Seq(Names), NEW m \in Names, p \in A,
             ~ Tree!Below(Append(p, m), parent), ~ Tree!Below(t, Append(p, m))
      PROVE  FindNode(v[0], Append(p, m)) = FindNode(children, Append(p, m))
  <2>1. /\ FindNode(v[0], Append(p, m)) = Down(FindNode(v[0], p), m)
        /\ FindNode(children, Append(p, m)) = Down(FindNode(children, p), m)
    BY FindNext
  <2>2. /\ Tree!Below(Append(p, m), parent) <=>
             Tree!Below(p, parent) /\ Len(p) < Len(parent) /\ parent[Len(p) + 1] = m
        /\ Tree!Below(p, parent) /\ ~ (Len(p) < Len(parent)) => p = parent
    BY BelowNext
  <2>3. Tree!Below(t, Append(p, m)) <=> Tree!Below(t, p) \/ t = Append(p, m)
    <3> HIDE DEF t
    <3> QED BY <1>1, BelowNext
  <2>4. CASE ~ Tree!Below(p, parent)
    BY <1>3, <2>1, <2>3, <2>4
  <2>5. CASE Tree!Below(p, parent) /\ Len(p) < Len(parent)
    <3>1. FindNode(v[0], p) = Folder(v[Len(p)]) /\ FindNode(children, p).kind = "directory"
      BY <2>5, OnTheWay, Ancestors
    <3>2. m # parent[Len(p) + 1]
      BY <1>3, <2>2, <2>5
    <3>3. v[Len(p)] = [FindNode(children, p).children EXCEPT ![parent[Len(p) + 1]] = Folder(v[Len(p) + 1])]
      <4>1. Len(p) \in 0 .. Len(parent) - 1 /\ SubSeq(parent, 1, Len(p)) = p
        BY <2>5, <1>1 DEF Tree!Below
      <4> QED BY <4>1 DEF IsRise
    <3>4. Down(Folder(v[Len(p)]), m) = Down(FindNode(children, p), m)
      BY <3>1, <3>2, <3>3 DEF Down, Folder
    <3> QED BY <2>1, <3>1, <3>4
  <2>6. CASE Tree!Below(p, parent) /\ ~ (Len(p) < Len(parent))
    <3>1. p = parent /\ m # name
      BY <1>3, <2>2, <2>3, <2>6
    <3>2. FindNode(v[0], p) = Folder(new)
      <4>1. FindNode(v[0], parent) = Folder(v[Len(parent)])
        BY <2>6, <3>1, OnTheWay
      <4> QED BY <3>1, <4>1 DEF IsRise
    <3> QED BY <2>1, <3>1, <3>2
  <2> QED BY <2>4, <2>5, <2>6
<1>4. \A p \in Seq(Names), m \in Names : p \in A => Append(p, m) \in A
  BY <1>1, <1>3
<1>5. Seq(Names) \subseteq A
  <2> HIDE DEF A
  <2> QED BY <1>2, <1>4, EveryPath
<1> QED BY <1>5

\* Below a file, an empty directory or nothing there is nothing.
LEMMA NothingBelow ==
  ASSUME NEW children, NEW t \in Seq(Names), \A m \in Names : Down(FindNode(children, t), m) = None
  PROVE  \A q \in Seq(Names) : Tree!Below(t, q) /\ q # t => FindNode(children, q) = None
<1> DEFINE A == {q \in Seq(Names) : Tree!Below(t, q) /\ q # t => FindNode(children, q) = None}
<1>1. <<>> \in A
  <2>1. <<>> \in Seq(Names) /\ Len(<<>>) = 0
    OBVIOUS
  <2>2. Tree!Below(t, <<>>) => t = <<>>
    BY DEF Tree!Below
  <2> QED BY <2>1, <2>2
<1>2. ASSUME NEW p \in Seq(Names), NEW m \in Names, p \in A,
             Tree!Below(t, Append(p, m)), Append(p, m) # t
      PROVE  FindNode(children, Append(p, m)) = None
  <2>1. FindNode(children, Append(p, m)) = Down(FindNode(children, p), m)
    BY FindNext
  <2>2. Tree!Below(t, p)
    BY <1>2, BelowNext
  <2>3. p = t \/ FindNode(children, p) = None
    BY <1>2, <2>2
  <2>4. Down(None, m) = None
    BY DEF Down, None
  <2> QED BY <2>1, <2>3, <2>4
<1>3. \A p \in Seq(Names), m \in Names : p \in A => Append(p, m) \in A
  <2>1. \A p \in Seq(Names), m \in Names : Append(p, m) \in Seq(Names)
    BY FindNext
  <2> QED BY <1>2, <2>1
<1>4. Seq(Names) \subseteq A
  <2> HIDE DEF A
  <2> QED BY <1>1, <1>3, EveryPath
<1> QED BY <1>4

\* A change of one name in one directory, which leaves nothing below that name:
\* the nest is one of maps still, the name is what it was made, and every path
\* elsewhere means what it did.
Changed(built, children, t, leaf) ==
  /\ Nest(built)
  /\ FindNode(built, t) = leaf
  /\ \A q \in Seq(Names) : Tree!Below(t, q) /\ q # t => FindNode(built, q) = None
  /\ \A q \in Seq(Names) : ~ Tree!Below(t, q) =>
       /\ FindNode(built, q) = None <=> FindNode(children, q) = None
       /\ Value(FindNode(built, q)) = Value(FindNode(children, q))

LEMMA RebuildChanges ==
  ASSUME NEW children, Nest(children),
         NEW parent \in Seq(Names), FindNode(children, parent).kind = "directory",
         NEW name \in Names, NEW new, IsNode(Folder(new)),
         \A m \in Names \ {name} : Down(Folder(new), m) = Down(FindNode(children, parent), m),
         NEW leaf, leaf = Down(Folder(new), name), leaf = None \/ IsNode(leaf),
         \A m \in Names : Down(leaf, m) = None
  PROVE  Changed(Rebuild(children, parent, new), children, Append(parent, name), leaf)
<1> DEFINE t == Append(parent, name)
           built == Rebuild(children, parent, new)
<1>1. t \in Seq(Names) /\ FindNode(built, t) = Down(FindNode(built, parent), name)
  BY FindNext
<1>2. PICK v : IsRise(v, children, parent, new) /\ built = v[0]
  BY RiseExists
<1> HIDE DEF t, built
<1>3. ASSUME NEW q \in Seq(Names), Tree!Below(q, parent)
      PROVE  FindNode(built, q) = Folder(v[Len(q)]) /\ FindNode(children, q).kind = "directory"
  BY <1>2, <1>3, OnTheWay, Ancestors
<1>4. FindNode(built, parent) = Folder(new)
  <2>1. Tree!Below(parent, parent)
    BY BelowNext
  <2> QED BY <1>2, <1>3, <2>1 DEF IsRise
<1>5. FindNode(built, t) = leaf
  BY <1>1, <1>4
<1>6. \A q \in Seq(Names) : Tree!Below(t, q) /\ q # t => FindNode(built, q) = None
  BY <1>1, <1>5, NothingBelow
<1>7. \A q \in Seq(Names) : ~ Tree!Below(q, parent) /\ ~ Tree!Below(t, q) =>
                              FindNode(built, q) = FindNode(children, q)
  BY <1>2, Aside DEF t
<1>8. ASSUME NEW q \in Seq(Names), ~ Tree!Below(t, q)
      PROVE  /\ FindNode(built, q) = None <=> FindNode(children, q) = None
             /\ Value(FindNode(built, q)) = Value(FindNode(children, q))
  <2>1. CASE Tree!Below(q, parent)
    BY <1>3, <2>1 DEF Value, Folder, None
  <2>2. CASE ~ Tree!Below(q, parent)
    BY <1>7, <1>8, <2>2
  <2> QED BY <2>1, <2>2
<1>9. ASSUME NEW q \in Seq(Names), Tree!Below(q, parent)
      PROVE  IsNode(FindNode(built, q))
  <2>1. CASE q = parent
    BY <1>4, <2>1
  <2>2. CASE q # parent
    <3>1. Len(q) \in 0 .. Len(parent) - 1 /\ SubSeq(parent, 1, Len(q)) = q
      <4>1. Len(q) <= Len(parent) /\ SubSeq(parent, 1, Len(q)) = q
        BY <1>9 DEF Tree!Below
      <4>2. Len(q) # Len(parent)
        BY <2>2, <4>1
      <4> QED BY <4>1, <4>2
    <3> DEFINE old == FindNode(children, q).children
               m == parent[Len(q) + 1]
               x == Folder(v[Len(q) + 1])
    <3>2. v[Len(q)] = [old EXCEPT ![m] = x]
      BY <1>2, <3>1 DEF IsRise
    <3>3. DOMAIN old \subseteq Names /\ \A n \in DOMAIN old : old[n].kind \in {"file", "directory"}
      <4>1. FindNode(children, q).kind = "directory" /\ FindNode(children, q) # None
        BY <1>3, <1>9 DEF None
      <4>2. IsNode(FindNode(children, q))
        BY <4>1 DEF Nest
      <4> QED BY <4>1, <4>2 DEF IsNode
    <3>4. x.kind = "directory"
      BY DEF Folder
    <3> HIDE DEF old, m, x
    <3>5. /\ DOMAIN v[Len(q)] \subseteq Names
          /\ \A n \in DOMAIN v[Len(q)] : v[Len(q)][n].kind \in {"file", "directory"}
      BY <3>2, <3>3, <3>4
    <3>6. IsNode(Folder(v[Len(q)]))
      BY <3>5 DEF IsNode, Folder
    <3> QED BY <1>3, <1>9, <3>6
  <2> QED BY <2>1, <2>2
<1>10. Nest(built)
  <2> SUFFICES ASSUME NEW q \in Seq(Names)
               PROVE  FindNode(built, q) = None \/ IsNode(FindNode(built, q))
    BY DEF Nest
  <2>1. CASE Tree!Below(q, parent)
    BY <1>9, <2>1
  <2>2. CASE Tree!Below(t, q)
    BY <1>5, <1>6, <2>2
  <2>3. CASE ~ Tree!Below(q, parent) /\ ~ Tree!Below(t, q)
    BY <1>7, <2>3 DEF Nest
  <2> QED BY <2>1, <2>2, <2>3
<1> QED BY <1>5, <1>6, <1>8, <1>10 DEF Changed, built, t

-----------------------------------------------------------------------------
\* A directory of the tree is one that find_directory finds.
LEMMA DirectoryIs ==
  ASSUME NEW p \in Seq(Names), Len(p) <= MaxDepth, Nest(root)
  PROVE  Tree!IsDirectory(p) <=> FindNode(root, p).kind = "directory"
<1>1. CASE p = <<>>
  <2>1. FindNode(root, <<>>) = Folder(root)
    BY FindIs
  <2> QED BY <1>1, <2>1 DEF Tree!IsDirectory, Folder
<1>2. CASE p # <<>>
  <2>1. p \in Tree!Paths
    <3>1. Len(p) \in 1 .. MaxDepth
      BY <1>2, BoundAssumption
    <3> QED BY <3>1, PathsAre
  <2>2. p \in DOMAIN Flatten(root) <=> FindNode(root, p) # None
    BY <2>1, TreeIs
  <2>3. CASE FindNode(root, p) = None
    BY <1>2, <2>2, <2>3 DEF Tree!IsDirectory, None
  <2>4. CASE FindNode(root, p) # None
    <3>1. Flatten(root)[p] = Value(FindNode(root, p))
      BY <2>2, <2>4, TreeIs
    <3>2. IsNode(FindNode(root, p))
      BY <2>4 DEF Nest
    <3>3. Value(FindNode(root, p)) = Directory <=> FindNode(root, p).kind = "directory"
      BY <3>2, ContentAssumption DEF IsNode, Value
    <3> QED BY <1>2, <2>2, <2>4, <3>1, <3>3 DEF Tree!IsDirectory
  <2> QED BY <2>3, <2>4
<1> QED BY <1>1, <1>2

\* What a change at one path does to the tree.
LEMMA TreeAfter ==
  ASSUME NEW children, Nest(children), NEW built, NEW t \in Tree!Paths, NEW leaf,
         Changed(built, children, t, leaf)
  PROVE  /\ \A q : q \in DOMAIN Flatten(built) <=>
                     \/ q \in DOMAIN Flatten(children) /\ ~ Tree!Below(t, q)
                     \/ q = t /\ leaf # None
         /\ \A q \in DOMAIN Flatten(children) : ~ Tree!Below(t, q) =>
              Flatten(built)[q] = Flatten(children)[q]
         /\ leaf # None => Flatten(built)[t] = Value(leaf)
         /\ Flatten(built) = [q \in DOMAIN Flatten(built) |-> Flatten(built)[q]]
<1>1. Nest(built) /\ FindNode(built, t) = leaf
  BY DEF Changed
<1>2. /\ \A q : q \in DOMAIN Flatten(built) <=> q \in Tree!Paths /\ FindNode(built, q) # None
      /\ \A q \in DOMAIN Flatten(built) : Flatten(built)[q] = Value(FindNode(built, q))
      /\ Flatten(built) = [q \in DOMAIN Flatten(built) |-> Flatten(built)[q]]
  BY <1>1, TreeIs
<1>3. /\ \A q : q \in DOMAIN Flatten(children) <=> q \in Tree!Paths /\ FindNode(children, q) # None
      /\ \A q \in DOMAIN Flatten(children) : Flatten(children)[q] = Value(FindNode(children, q))
  BY TreeIs
<1>4. /\ t \in Seq(Names) /\ \A q \in Tree!Paths : q \in Seq(Names)
      /\ Tree!Below(t, t)
  BY PathsAre, BelowNext
<1>5. \A q : q \in DOMAIN Flatten(built) <=>
               \/ q \in DOMAIN Flatten(children) /\ ~ Tree!Below(t, q)
               \/ q = t /\ leaf # None
  BY <1>1, <1>2, <1>3, <1>4 DEF Changed
<1>6. \A q \in DOMAIN Flatten(children) : ~ Tree!Below(t, q) =>
        Flatten(built)[q] = Flatten(children)[q]
  BY <1>2, <1>3, <1>4, <1>5 DEF Changed
<1>7. leaf # None => Flatten(built)[t] = Value(leaf)
  BY <1>1, <1>2
<1> QED BY <1>2, <1>5, <1>6, <1>7

\* One tree is another with something put in at a path, or taken out.
WithPut(after, before, t, v) ==
  after = [q \in DOMAIN before \cup {t} |-> IF q = t THEN v ELSE before[q]]

WithDrop(after, before, t) ==
  after = [q \in {r \in DOMAIN before : ~ Tree!Below(t, r)} |-> before[q]]

LEMMA PutAfter ==
  ASSUME NEW children, Nest(children), NEW built, NEW t \in Tree!Paths, NEW leaf,
         Changed(built, children, t, leaf), leaf # None,
         \A m \in Names : Down(FindNode(children, t), m) = None
  PROVE  WithPut(Flatten(built), Flatten(children), t, Value(leaf))
<1> DEFINE f == Flatten(built)
           g == Flatten(children)
<1>1. /\ \A q : q \in DOMAIN f <=> \/ q \in DOMAIN g /\ ~ Tree!Below(t, q)
                                   \/ q = t /\ leaf # None
      /\ \A q \in DOMAIN g : ~ Tree!Below(t, q) => f[q] = g[q]
      /\ leaf # None => f[t] = Value(leaf)
      /\ f = [q \in DOMAIN f |-> f[q]]
  BY TreeAfter
<1>2. ASSUME NEW q \in DOMAIN g, q # t
      PROVE  ~ Tree!Below(t, q)
  <2>1. t \in Seq(Names) /\ q \in Seq(Names) /\ FindNode(children, q) # None
    BY TreeIs, PathsAre
  <2> QED BY <1>2, <2>1, NothingBelow
<1> HIDE DEF f, g
<1>3. DOMAIN f = DOMAIN g \cup {t}
  <2>1. Tree!Below(t, t)
    BY PathsAre, BelowNext
  <2> QED BY <1>1, <1>2, <2>1
<1>4. \A q \in DOMAIN f : f[q] = IF q = t THEN Value(leaf) ELSE g[q]
  BY <1>1, <1>2, <1>3
<1>5. f = [q \in DOMAIN g \cup {t} |-> IF q = t THEN Value(leaf) ELSE g[q]]
  BY <1>1, <1>3, <1>4
<1> QED BY <1>5 DEF f, g, WithPut

LEMMA DropAfter ==
  ASSUME NEW children, Nest(children), NEW built, NEW t \in Tree!Paths,
         Changed(built, children, t, None)
  PROVE  WithDrop(Flatten(built), Flatten(children), t)
<1> DEFINE f == Flatten(built)
           g == Flatten(children)
<1>1. /\ \A q : q \in DOMAIN f <=> \/ q \in DOMAIN g /\ ~ Tree!Below(t, q)
                                   \/ q = t /\ None # None
      /\ \A q \in DOMAIN g : ~ Tree!Below(t, q) => f[q] = g[q]
      /\ f = [q \in DOMAIN f |-> f[q]]
  BY TreeAfter
<1> HIDE DEF f, g
<1>2. DOMAIN f = {r \in DOMAIN g : ~ Tree!Below(t, r)}
  BY <1>1
<1>3. f = [q \in {r \in DOMAIN g : ~ Tree!Below(t, r)} |-> g[q]]
  BY <1>1, <1>2
<1> QED BY <1>3 DEF f, g, WithDrop

LEMMA RoomIs ==
  ASSUME NEW p, Len(p) <= MaxDepth, Room
  PROVE  Tree!Room(p)
<1>1. Tree!Cardinality(DOMAIN Flatten(root)) = Cardinality(DOMAIN Flatten(root))
  BY Zenon DEF Tree!Cardinality, Cardinality
<1> QED BY <1>1 DEF Room, Tree!Room

\* Where an operation works.
LEMMA ParentPlace ==
  ASSUME NEW parent \in ParentPaths, Nest(root)
  PROVE  /\ parent \in Seq(Names) /\ Len(parent) \in 0 .. MaxDepth - 1
         /\ Found(parent) <=> FindNode(root, parent).kind = "directory"
         /\ Found(parent) <=> Tree!IsDirectory(parent)
         /\ Found(parent) => FindDirectory(parent) = FindNode(root, parent)
<1>1. parent \in Seq(Names) /\ Len(parent) \in 0 .. MaxDepth - 1
  <2>1. PICK n \in 0 .. MaxDepth - 1 : parent \in [1 .. n -> Names]
    BY DEF ParentPaths
  <2>2. n \in Nat
    BY BoundAssumption
  <2> QED BY <2>1, <2>2, PathsOfLength
<1>2. Found(parent) <=> FindNode(root, parent).kind = "directory"
  BY DEF Found, FindDirectory, None
<1>3. Len(parent) <= MaxDepth
  BY <1>1, BoundAssumption
<1>4. Found(parent) <=> Tree!IsDirectory(parent)
  BY <1>1, <1>2, <1>3, DirectoryIs
<1>5. Found(parent) => FindDirectory(parent) = FindNode(root, parent)
  BY <1>2 DEF FindDirectory
<1> QED BY <1>1, <1>2, <1>4, <1>5

LEMMA PlaceIs ==
  ASSUME NEW parent \in ParentPaths, NEW name \in Names, Nest(root)
  PROVE  /\ parent \in Seq(Names)
         /\ Append(parent, name) \in Tree!Paths
         /\ Len(Append(parent, name)) <= MaxDepth
         /\ Append(parent, name) \in Seq(Names)
         /\ Tree!Parent(Append(parent, name)) = parent
         /\ Found(parent) <=> FindNode(root, parent).kind = "directory"
         /\ Found(parent) <=> Tree!IsDirectory(parent)
         /\ Found(parent) => FindDirectory(parent) = FindNode(root, parent)
<1> DEFINE t == Append(parent, name)
<1>1. parent \in Seq(Names) /\ Len(parent) \in 0 .. MaxDepth - 1
  BY ParentPlace
<1>2. /\ t \in Seq(Names) /\ Len(t) = Len(parent) + 1
      /\ SubSeq(t, 1, Len(t) - 1) = parent
  BY <1>1
<1>3. Len(t) \in 1 .. MaxDepth /\ Len(t) <= MaxDepth
  BY <1>1, <1>2, BoundAssumption
<1>4. t \in Tree!Paths
  BY <1>2, <1>3, PathsAre
<1> QED BY <1>1, <1>2, <1>3, <1>4, ParentPlace DEF Tree!Parent

LEMMA InsertIs ==
  ASSUME NEW d, IsNode(d), d.kind = "directory", NEW name \in Names,
         NEW node, node.kind \in {"file", "directory"}
  PROVE  LET new == Insert(d.children, name, node)
         IN /\ IsNode(Folder(new)) /\ Down(Folder(new), name) = node
            /\ \A m \in Names \ {name} : Down(Folder(new), m) = Down(d, m)
<1> DEFINE new == Insert(d.children, name, node)
<1>1. /\ DOMAIN d.children \subseteq Names
      /\ \A n \in DOMAIN d.children : d.children[n].kind \in {"file", "directory"}
  BY DEF IsNode
<1>2. /\ DOMAIN new = DOMAIN d.children \cup {name} /\ new[name] = node
      /\ \A n \in DOMAIN d.children : n # name => new[n] = d.children[n]
  BY DEF Insert
<1> HIDE DEF new
<1>3. IsNode(Folder(new))
  BY <1>1, <1>2 DEF IsNode, Folder
<1>4. Down(Folder(new), name) = node
  BY <1>2 DEF Down, Folder
<1>5. \A m \in Names \ {name} : Down(Folder(new), m) = Down(d, m)
  BY <1>2 DEF Down, Folder
<1> QED BY <1>3, <1>4, <1>5 DEF new

LEMMA WithoutIs ==
  ASSUME NEW d, IsNode(d), d.kind = "directory", NEW name \in Names
  PROVE  LET new == Without(d.children, name)
         IN /\ IsNode(Folder(new)) /\ Down(Folder(new), name) = None
            /\ \A m \in Names \ {name} : Down(Folder(new), m) = Down(d, m)
<1> DEFINE new == Without(d.children, name)
<1>1. /\ DOMAIN d.children \subseteq Names
      /\ \A n \in DOMAIN d.children : d.children[n].kind \in {"file", "directory"}
  BY DEF IsNode
<1>2. /\ DOMAIN new = DOMAIN d.children \ {name}
      /\ \A n \in DOMAIN new : new[n] = d.children[n]
  BY DEF Without
<1> HIDE DEF new
<1>3. IsNode(Folder(new))
  BY <1>1, <1>2 DEF IsNode, Folder
<1>4. Down(Folder(new), name) = None
  BY <1>2 DEF Down, Folder
<1>5. \A m \in Names \ {name} : Down(Folder(new), m) = Down(d, m)
  BY <1>2 DEF Down, Folder
<1> QED BY <1>3, <1>4, <1>5 DEF new

\* What is put into a directory that is found is put into the tree.
LEMMA InsertStep ==
  ASSUME Nest(root), NEW parent \in ParentPaths, NEW name \in Names, Found(parent),
         NEW node, IsNode(node), \A m \in Names : Down(node, m) = None,
         root' = Rebuild(root, parent, Insert(FindDirectory(parent).children, name, node)),
         name \in DOMAIN FindDirectory(parent).children =>
           FindDirectory(parent).children[name].kind = "file"
  PROVE  Nest(root)' /\ Tree!Put(Append(parent, name), Value(node))
<1> DEFINE t == Append(parent, name)
           d == FindNode(root, parent)
<1>1. /\ parent \in Seq(Names) /\ t \in Tree!Paths /\ t \in Seq(Names)
      /\ d.kind = "directory" /\ FindDirectory(parent) = d
  BY PlaceIs
<1>2. IsNode(d)
  BY <1>1 DEF Nest, None
<1>3. FindNode(root, t) = Down(d, name)
  BY <1>1, FindNext
<1>4. node.kind \in {"file", "directory"} /\ node # None
  BY DEF IsNode, None
<1>5. root' = Rebuild(root, parent, Insert(d.children, name, node))
  BY <1>1
<1>6. Changed(root', root, t, node)
  <2> DEFINE new == Insert(d.children, name, node)
  <2>1. /\ IsNode(Folder(new)) /\ Down(Folder(new), name) = node
        /\ \A m \in Names \ {name} : Down(Folder(new), m) = Down(d, m)
    BY <1>1, <1>2, <1>4, InsertIs
  <2> HIDE DEF new
  <2>2. Changed(Rebuild(root, parent, new), root, t, node)
    BY <1>1, <2>1, RebuildChanges
  <2> QED BY <1>5, <2>2 DEF new
<1>7. \A m \in Names : Down(FindNode(root, t), m) = None
  BY <1>1, <1>3 DEF Down, None
<1>8. WithPut(Flatten(root'), Flatten(root), t, Value(node))
  <2> HIDE DEF t
  <2> QED BY <1>1, <1>4, <1>6, <1>7, PutAfter
<1>9. Nest(root')
  BY <1>6 DEF Changed
<1> QED BY <1>8, <1>9 DEF Tree!Put, WithPut

LEMMA CreateStep ==
  ASSUME Nest(root), NEW parent \in ParentPaths, NEW name \in Names,
         NEW node, node \in {Folder(NoChildren), File(Empty)}, CreateNode(parent, name, node)
  PROVE  /\ Nest(root)'
         /\ Tree!MayCreate(Append(parent, name)) /\ Tree!Room(Append(parent, name))
         /\ Tree!Put(Append(parent, name), Value(node))
<1> DEFINE t == Append(parent, name)
           d == FindNode(root, parent)
<1>1. /\ Found(parent) /\ name \notin DOMAIN FindDirectory(parent).children /\ Room
      /\ root' = Rebuild(root, parent, Insert(FindDirectory(parent).children, name, node))
  BY DEF CreateNode
<1>2. IsNode(node) /\ \A m \in Names : Down(node, m) = None
  BY ContentAssumption DEF IsNode, Folder, File, NoChildren, Down
<1>3. Nest(root)' /\ Tree!Put(t, Value(node))
  BY <1>1, <1>2, InsertStep
<1>4. Tree!MayCreate(t)
  <2>1. /\ Tree!IsDirectory(Tree!Parent(t)) /\ parent \in Seq(Names)
        /\ FindDirectory(parent) = d
    BY <1>1, PlaceIs
  <2>2. FindNode(root, t) = None
    BY <1>1, <2>1, FindNext DEF Down
  <2>3. t \notin DOMAIN Flatten(root)
    BY <2>2, TreeIs
  <2> QED BY <2>1, <2>3 DEF Tree!MayCreate
<1>5. Tree!Room(t)
  <2>1. Len(t) <= MaxDepth
    BY PlaceIs
  <2> QED BY <1>1, <2>1, RoomIs
<1> QED BY <1>3, <1>4, <1>5

LEMMA WriteStep ==
  ASSUME Nest(root), NEW parent \in ParentPaths, NEW name \in Names,
         NEW content \in Contents, WriteFile(parent, name, content)
  PROVE  Nest(root)' /\ Tree!WriteFile(Append(parent, name), content)
<1> DEFINE t == Append(parent, name)
           d == FindNode(root, parent)
<1>1. /\ Found(parent)
      /\ name \in DOMAIN FindDirectory(parent).children =>
           FindDirectory(parent).children[name].kind = "file"
      /\ name \in DOMAIN FindDirectory(parent).children \/ Room
      /\ root' = Rebuild(root, parent,
                         Insert(FindDirectory(parent).children, name, File(content)))
  BY DEF WriteFile
<1>2. IsNode(File(content)) /\ \A m \in Names : Down(File(content), m) = None
  BY DEF IsNode, File, Down
<1>3. Nest(root)' /\ Tree!Put(t, content)
  <2>1. Nest(root)' /\ Tree!Put(t, Value(File(content)))
    BY <1>1, <1>2, InsertStep
  <2> QED BY <2>1 DEF Value, File
<1>4. /\ Tree!IsDirectory(Tree!Parent(t)) /\ parent \in Seq(Names) /\ t \in Seq(Names)
      /\ t \in Tree!Paths /\ Len(t) <= MaxDepth /\ FindDirectory(parent) = d /\ t # <<>>
  <2>1. t # <<>>
    <3>1. Len(t) \in 1 .. MaxDepth
      BY PlaceIs, PathsAre
    <3> HIDE DEF t
    <3> QED BY <3>1, BoundAssumption
  <2> QED BY <1>1, <2>1, PlaceIs
<1>5. FindNode(root, t) = Down(d, name) /\ d.kind = "directory"
  BY <1>1, <1>4, PlaceIs, FindNext
<1>6. ~ Tree!IsDirectory(t)
  <2>1. FindNode(root, t).kind # "directory"
    BY <1>1, <1>4, <1>5 DEF Down, None
  <2> HIDE DEF t
  <2> QED BY <1>4, <2>1, DirectoryIs
<1>7. t \in DOMAIN Flatten(root) \/ Tree!Room(t)
  <2>1. CASE Room
    BY <1>4, <2>1, RoomIs
  <2>2. CASE name \in DOMAIN d.children
    <3>1. FindNode(root, t) # None
      BY <1>1, <1>4, <1>5, <2>2 DEF Down, None
    <3> QED BY <1>4, <3>1, TreeIs
  <2> QED BY <1>1, <1>4, <2>1, <2>2
<1> QED BY <1>3, <1>4, <1>6, <1>7 DEF Tree!WriteFile, Tree!MayWrite

LEMMA DeleteStep ==
  ASSUME Nest(root), NEW parent \in ParentPaths, NEW name \in Names, DeleteNode(parent, name)
  PROVE  Nest(root)' /\ Tree!DeleteNode(Append(parent, name))
<1> DEFINE t == Append(parent, name)
           d == FindNode(root, parent)
<1>1. /\ Found(parent) /\ name \in DOMAIN FindDirectory(parent).children
      /\ root' = Rebuild(root, parent, Without(FindDirectory(parent).children, name))
  BY DEF DeleteNode
<1>2. /\ parent \in Seq(Names) /\ t \in Tree!Paths /\ t \in Seq(Names)
      /\ d.kind = "directory" /\ FindDirectory(parent) = d /\ Tree!IsDirectory(Tree!Parent(t))
  BY <1>1, PlaceIs
<1>3. IsNode(d)
  BY <1>2 DEF Nest, None
<1>4. Changed(root', root, t, None)
  <2> DEFINE new == Without(d.children, name)
  <2>1. /\ IsNode(Folder(new)) /\ Down(Folder(new), name) = None
        /\ \A m \in Names \ {name} : Down(Folder(new), m) = Down(d, m)
    BY <1>2, <1>3, WithoutIs
  <2>2. \A m \in Names : Down(None, m) = None
    BY DEF Down, None
  <2> HIDE DEF new
  <2>3. Changed(Rebuild(root, parent, new), root, t, None)
    BY <1>2, <2>1, <2>2, RebuildChanges
  <2> QED BY <1>1, <1>2, <2>3 DEF new
<1>5. WithDrop(Flatten(root'), Flatten(root), t)
  <2> HIDE DEF t
  <2> QED BY <1>2, <1>4, DropAfter
<1>6. Nest(root')
  BY <1>4 DEF Changed
<1>7. Tree!MayDelete(t)
  <2>1. FindNode(root, t) = d.children[name] /\ d.children[name] # None
    BY <1>1, <1>2, <1>3, FindNext DEF Down, IsNode, None
  <2> QED BY <1>2, <2>1, TreeIs DEF Tree!MayDelete
<1> QED BY <1>5, <1>6, <1>7 DEF Tree!DeleteNode, WithDrop

-----------------------------------------------------------------------------
LEMMA NestInit == FileSystemInit => Nest(root) /\ Tree!Init
<1> SUFFICES ASSUME FileSystemInit PROVE Nest(root) /\ Tree!Init
  OBVIOUS
<1>1. root = NoChildren /\ DOMAIN NoChildren = {}
  BY DEF FileSystemInit, NoChildren
<1>2. FindNode(root, <<>>) = Folder(root) /\ \A m \in Names : Down(Folder(root), m) = None
  BY <1>1, FindIs DEF Down, Folder
<1>3. \A q \in Seq(Names) : q # <<>> => FindNode(root, q) = None
  <2>1. <<>> \in Seq(Names)
    OBVIOUS
  <2>2. \A q \in Seq(Names) : Tree!Below(<<>>, q)
    <3> TAKE q \in Seq(Names)
    <3>1. Len(<<>>) <= Len(q) /\ \A i \in 1 .. Len(<<>>) : <<>>[i] = q[i]
      OBVIOUS
    <3> QED BY <2>1, <3>1, BelowIs
  <2> QED BY <1>2, <2>1, <2>2, NothingBelow
<1>4. Nest(root)
  <2>1. IsNode(Folder(root))
    BY <1>1 DEF IsNode, Folder
  <2> QED BY <1>2, <1>3, <2>1 DEF Nest
<1>5. DOMAIN Flatten(root) = {}
  <2>1. \A p \in Tree!Paths : p \in Seq(Names) /\ p # <<>>
    <3>1. \A p \in Tree!Paths : p \in Seq(Names) /\ Len(p) # 0
      BY PathsAre, BoundAssumption
    <3> QED BY <3>1
  <2> QED BY <1>3, <1>4, <2>1, TreeIs
<1>6. Flatten(root) = [p \in {} |-> Directory]
  <2>1. Flatten(root) = [p \in DOMAIN Flatten(root) |-> Flatten(root)[p]]
    BY <1>4, TreeIs
  <2> QED BY <1>5, <2>1
<1> QED BY <1>4, <1>6 DEF Tree!Init

LEMMA NestStep == Nest(root) /\ [FileSystemNext]_root => Nest(root)' /\ [Tree!Next]_(Flatten(root))
<1> SUFFICES ASSUME Nest(root), [FileSystemNext]_root
             PROVE  Nest(root)' /\ [Tree!Next]_(Flatten(root))
  OBVIOUS
<1>1. ASSUME NEW parent \in ParentPaths, NEW name \in Names, CreateDirectory(parent, name)
      PROVE  Nest(root)' /\ Tree!Next
  <2>1. CreateNode(parent, name, Folder(NoChildren))
    BY <1>1 DEF CreateDirectory
  <2>2. Nest(root)' /\ Tree!CreateDirectory(Append(parent, name))
    BY <2>1, CreateStep DEF Tree!CreateDirectory, Value, Folder
  <2> QED BY <2>2, PlaceIs DEF Tree!Next
<1>2. ASSUME NEW parent \in ParentPaths, NEW name \in Names, CreateFile(parent, name)
      PROVE  Nest(root)' /\ Tree!Next
  <2>1. CreateNode(parent, name, File(Empty))
    BY <1>2 DEF CreateFile
  <2>2. Nest(root)' /\ Tree!CreateFile(Append(parent, name))
    BY <2>1, CreateStep DEF Tree!CreateFile, Value, File
  <2> QED BY <2>2, PlaceIs DEF Tree!Next
<1>3. ASSUME NEW parent \in ParentPaths, NEW name \in Names, NEW content \in Contents,
             WriteFile(parent, name, content)
      PROVE  Nest(root)' /\ Tree!Next
  BY <1>3, WriteStep, PlaceIs DEF Tree!Next
<1>4. ASSUME NEW parent \in ParentPaths, NEW name \in Names, DeleteNode(parent, name)
      PROVE  Nest(root)' /\ Tree!Next
  BY <1>4, DeleteStep, PlaceIs DEF Tree!Next
<1>5. ASSUME UNCHANGED root
      PROVE  Nest(root)' /\ UNCHANGED Flatten(root)
  BY <1>5
<1> QED BY <1>1, <1>2, <1>3, <1>4, <1>5 DEF FileSystemNext

\* The nested maps stay what fs.rs takes them for, whatever is created,
\* written and deleted: under each name a file or another map of names.
LEMMA NestAlways == FileSystemSpec => []Nest(root)
BY NestInit, NestStep, PTL DEF FileSystemSpec

\* NestRefinement: the walk of find_directory_mut and the change at its end do
\* to the whole tree what each operation of fs.rs promises for its one path,
\* at any depth, for any names and contents.
THEOREM NestImplementsTree == FileSystemSpec => NestRefinement
<1>1. FileSystemInit => Nest(root) /\ Tree!Init
  BY NestInit
<1>2. Nest(root) /\ [FileSystemNext]_root => Nest(root)' /\ [Tree!Next]_(Flatten(root))
  BY NestStep
<1> QED BY <1>1, <1>2, PTL DEF FileSystemSpec, NestRefinement, Tree!Spec

\* What the tree has just below a directory is what is in its map.
LEMMA ChildrenAre ==
  ASSUME Nest(root), NEW parent \in ParentPaths, Found(parent)
  PROVE  LET children == FindDirectory(parent).children
             below == {p \in DOMAIN Flatten(root) : Tree!Parent(p) = parent}
         IN /\ \A name \in DOMAIN children :
                 /\ Append(parent, name) \in below
                 /\ Append(parent, name)[Len(Append(parent, name))] = name
                 /\ Tree!IsDirectory(Append(parent, name)) <=> children[name].kind = "directory"
            /\ \A q \in below : \E name \in DOMAIN children : q = Append(parent, name)
<1> DEFINE children == FindDirectory(parent).children
           below == {p \in DOMAIN Flatten(root) : Tree!Parent(p) = parent}
<1>1. /\ parent \in Seq(Names) /\ FindNode(root, parent).kind = "directory"
      /\ children = FindNode(root, parent).children
  BY ParentPlace
<1>2. /\ DOMAIN children \subseteq Names
      /\ \A name \in DOMAIN children :
           /\ FindNode(root, Append(parent, name)) = children[name]
           /\ FindNode(root, Append(parent, name)) # None
  BY <1>1, ParentIs
<1> HIDE DEF children
<1>3. ASSUME NEW name \in DOMAIN children
      PROVE  /\ Append(parent, name) \in below
             /\ Append(parent, name)[Len(Append(parent, name))] = name
             /\ Tree!IsDirectory(Append(parent, name)) <=> children[name].kind = "directory"
  <2>1. /\ name \in Names /\ Append(parent, name) \in Tree!Paths
        /\ Tree!Parent(Append(parent, name)) = parent
        /\ Append(parent, name) \in Seq(Names) /\ Len(Append(parent, name)) <= MaxDepth
    BY <1>2, PlaceIs
  <2>2. Append(parent, name) \in below
    BY <1>2, <2>1, TreeIs
  <2>3. Append(parent, name)[Len(Append(parent, name))] = name
    BY <1>1, <2>1
  <2>4. Tree!IsDirectory(Append(parent, name)) <=> children[name].kind = "directory"
    BY <1>2, <2>1, DirectoryIs
  <2> QED BY <2>2, <2>3, <2>4
<1>4. ASSUME NEW q \in below
      PROVE  \E name \in DOMAIN children : q = Append(parent, name)
  <2>1. q \in Seq(Names) /\ Len(q) \in 1 .. MaxDepth /\ FindNode(root, q) # None
    BY TreeIs, PathsAre
  <2> DEFINE k == Len(q) - 1
             name == q[k + 1]
  <2>2. k \in Nat /\ Len(q) = k + 1 /\ SubSeq(q, 1, k) = parent
    BY <2>1, BoundAssumption DEF Tree!Parent
  <2> HIDE DEF k
  <2>3. name \in Names /\ q = Append(parent, name)
    BY <2>1, <2>2, LastSegment
  <2> HIDE DEF name
  <2>4. name \in DOMAIN children
    BY <1>1, <2>1, <2>3, ChildIs
  <2> QED BY <2>3, <2>4
<1> QED BY <1>3, <1>4 DEF children

LEMMA ListingAgrees ==
  ASSUME Nest(root), NEW parent \in ParentPaths
  PROVE  ListDirectory(parent) =
           IF Tree!IsDirectory(parent)
           THEN {<<q[Len(q)], Tree!IsDirectory(q)>> :
                   q \in {p \in DOMAIN Flatten(root) : Tree!Parent(p) = parent}}
           ELSE {None}
<1> DEFINE children == FindDirectory(parent).children
           below == {p \in DOMAIN Flatten(root) : Tree!Parent(p) = parent}
           Inside(name) == children[name].kind = "directory"
           IsDir(q) == Tree!IsDirectory(q)
           listed == {<<name, Inside(name)>> : name \in DOMAIN children}
           meant == {<<q[Len(q)], IsDir(q)>> : q \in below}
<1>1. Found(parent) <=> Tree!IsDirectory(parent)
  BY ParentPlace
<1>2. CASE ~ Found(parent)
  BY <1>1, <1>2 DEF ListDirectory
<1>3. CASE Found(parent)
  <2>1. /\ \A name \in DOMAIN children :
             /\ Append(parent, name) \in below
             /\ Append(parent, name)[Len(Append(parent, name))] = name
             /\ IsDir(Append(parent, name)) = Inside(name)
        /\ \A q \in below : \E name \in DOMAIN children : q = Append(parent, name)
    <3>1. \A name \in DOMAIN children :
            /\ Append(parent, name) \in below
            /\ Append(parent, name)[Len(Append(parent, name))] = name
            /\ Tree!IsDirectory(Append(parent, name)) <=> children[name].kind = "directory"
      BY <1>3, ChildrenAre
    <3>2. \A q \in below : \E name \in DOMAIN children : q = Append(parent, name)
      BY <1>3, ChildrenAre
    <3>3. \A name \in DOMAIN children : IsDir(Append(parent, name)) = Inside(name)
      <4>1. \A q : IsDir(q) \in BOOLEAN
        BY DEF Tree!IsDirectory
      <4>2. \A name : Inside(name) \in BOOLEAN
        OBVIOUS
      <4>3. \A name \in DOMAIN children : IsDir(Append(parent, name)) <=> Inside(name)
        BY <3>1, Zenon
      <4> HIDE DEF IsDir, Inside, children
      <4> QED BY <4>1, <4>2, <4>3
    <3> HIDE DEF IsDir, Inside, children, below
    <3> QED BY <3>1, <3>2, <3>3, Zenon
  <2>2. ListDirectory(parent) = listed
    BY <1>3 DEF ListDirectory
  <2> HIDE DEF children, below, Inside, IsDir
  <2>3. ASSUME NEW x \in listed PROVE x \in meant
    <3>1. PICK name \in DOMAIN children : x = <<name, Inside(name)>>
      OBVIOUS
    <3>2. /\ Append(parent, name) \in below
          /\ x = <<Append(parent, name)[Len(Append(parent, name))],
                   IsDir(Append(parent, name))>>
      BY <2>1, <3>1, Zenon
    <3> QED BY <3>2, Zenon
  <2>4. ASSUME NEW x \in meant PROVE x \in listed
    <3>1. PICK q \in below : x = <<q[Len(q)], IsDir(q)>>
      BY Zenon
    <3>2. PICK name \in DOMAIN children : q = Append(parent, name)
      BY <2>1
    <3>3. x = <<name, Inside(name)>>
      BY <2>1, <3>1, <3>2, Zenon
    <3> QED BY <3>3, Zenon
  <2>5. listed = meant
    <3> HIDE DEF listed, meant
    <3> QED BY <2>3, <2>4
  <2>6. Tree!IsDirectory(parent)
    BY <1>1, <1>3
  <2> HIDE DEF listed
  <2> QED BY <2>2, <2>5, <2>6 DEF IsDir, below
<1> QED BY <1>2, <1>3

LEMMA ReadingAgrees ==
  ASSUME Nest(root), NEW parent \in ParentPaths, NEW name \in Names
  PROVE  ReadFile(parent, name) =
           LET p == Append(parent, name)
           IN IF Tree!IsFile(p) THEN File(Flatten(root)[p]) ELSE None
<1> DEFINE p == Append(parent, name)
           node == FindNode(root, p)
<1>1. /\ parent \in Seq(Names) /\ p \in Tree!Paths /\ p \in Seq(Names)
      /\ node = Down(FindNode(root, parent), name)
      /\ Found(parent) <=> FindNode(root, parent).kind = "directory"
      /\ Found(parent) => FindDirectory(parent) = FindNode(root, parent)
  BY PlaceIs, FindNext
<1>2. ReadFile(parent, name) = IF node.kind = "file" THEN node ELSE None
  <2>1. CASE Found(parent) /\ name \in DOMAIN FindDirectory(parent).children
    BY <1>1, <2>1 DEF ReadFile, Down
  <2>2. CASE ~ (Found(parent) /\ name \in DOMAIN FindDirectory(parent).children)
    BY <1>1, <2>2 DEF ReadFile, Down, None
  <2> QED BY <2>1, <2>2
<1>3. /\ p \in DOMAIN Flatten(root) <=> node # None
      /\ p \in DOMAIN Flatten(root) => Flatten(root)[p] = Value(node)
  BY <1>1, TreeIs
<1>4. node = None \/ IsNode(node)
  BY <1>1 DEF Nest
<1> HIDE DEF p, node
<1>5. Tree!IsFile(p) <=> node.kind = "file"
  BY <1>3, <1>4, ContentAssumption DEF Tree!IsFile, Value, IsNode, None
<1>6. node.kind = "file" => node # None /\ node = File(node.content) /\ Value(node) = node.content
  BY <1>4 DEF IsNode, None, Value
<1> QED BY <1>2, <1>3, <1>5, <1>6 DEF p

\* LookupsAgree: find_directory, read_file and list_directory answer what is in
\* the tree at every path, whether it exists, does not, or leads through a file.
THEOREM LookupsAlwaysAgree == FileSystemSpec => []LookupsAgree
<1>1. Nest(root) => LookupsAgree
  BY ParentPlace, ListingAgrees, ReadingAgrees DEF LookupsAgree
<1> QED BY <1>1, NestAlways, PTL

-----------------------------------------------------------------------------
(* The tree *)

\* Everything in a tree of the right type is a sequence of names.
LEMMA PathIsSequence ==
  ASSUME NEW p \in Files!Paths
  PROVE  p \in Seq(Names) /\ Len(p) \in Nat \ {0}
BY DEF Files!Paths

\* What an operation puts at one path leaves the rest of the tree alone.
LEMMA PutKeepsRest ==
  ASSUME NEW p, NEW v, Files!Put(p, v)
  PROVE  /\ DOMAIN tree' = DOMAIN tree \cup {p}
         /\ tree'[p] = v
         /\ \A q \in DOMAIN tree : q # p => tree'[q] = tree[q]
BY DEF Files!Put

LEMMA FilesTypeStep == Files!TypeOK /\ [Files!Next]_tree => Files!TypeOK'
<1>. SUFFICES ASSUME Files!TypeOK, [Files!Next]_tree PROVE Files!TypeOK'
  OBVIOUS
<1>1. ASSUME NEW p \in Files!Paths, NEW v \in Contents \cup {Directory}, Files!Put(p, v)
      PROVE  Files!TypeOK'
  BY <1>1 DEF Files!Put, Files!TypeOK
<1>2. ASSUME NEW p \in Files!Paths, Files!DeleteNode(p)
      PROVE  Files!TypeOK'
  BY <1>2 DEF Files!DeleteNode, Files!TypeOK
<1>3. ASSUME UNCHANGED tree
      PROVE  Files!TypeOK'
  BY <1>3 DEF Files!TypeOK
<1>. QED
  BY <1>1, <1>2, <1>3, ContentAssumption
  DEF Files!Next, Files!CreateDirectory, Files!CreateFile, Files!WriteFile

\* Each operation keeps every node in an existing directory: a new node
\* because the operation asks for its parent, the others because a file
\* that is written over has no children and a directory that is deleted
\* takes its children along.
LEMMA ClosedStep == Files!TypeOK /\ Files!TreeClosed /\ [Files!Next]_tree => Files!TreeClosed'
<1>. SUFFICES ASSUME Files!TypeOK, Files!TreeClosed, [Files!Next]_tree, NEW q \in DOMAIN tree'
              PROVE  Files!IsDirectory(Files!Parent(q))'
  BY DEF Files!TreeClosed
<1>1. ASSUME NEW p \in Files!Paths, NEW v, Files!Put(p, v), Files!IsDirectory(Files!Parent(p)),
             ~Files!IsDirectory(p)
      PROVE  Files!IsDirectory(Files!Parent(q))'
  <2>1. /\ DOMAIN tree' = DOMAIN tree \cup {p}
        /\ \A r \in DOMAIN tree : r # p => tree'[r] = tree[r]
    BY <1>1, PutKeepsRest
  <2>2. Files!IsDirectory(Files!Parent(q))
    BY <1>1, <2>1 DEF Files!TreeClosed
  <2>3. Files!Parent(q) # p
    BY <1>1, <2>2
  <2>. QED
    BY <2>1, <2>2, <2>3 DEF Files!IsDirectory
<1>2. ASSUME NEW p \in Files!Paths, Files!DeleteNode(p)
      PROVE  Files!IsDirectory(Files!Parent(q))'
  <2>1. /\ q \in DOMAIN tree /\ ~Files!Below(p, q)
        /\ \A r \in DOMAIN tree : ~Files!Below(p, r) => r \in DOMAIN tree' /\ tree'[r] = tree[r]
    BY <1>2 DEF Files!DeleteNode
  <2>2. Files!IsDirectory(Files!Parent(q))
    BY <2>1 DEF Files!TreeClosed
  <2>3. ~Files!Below(p, Files!Parent(q))
    <3>1. p \in Seq(Names) /\ q \in Seq(Names) /\ Len(p) \in Nat \ {0} /\ Len(q) \in Nat \ {0}
      BY <2>1, PathIsSequence DEF Files!TypeOK
    <3>2. Len(Files!Parent(q)) = Len(q) - 1
      <4>1. PICK n \in Nat : Len(q) = n + 1
        <5>1. Len(q) - 1 \in Nat /\ Len(q) = (Len(q) - 1) + 1
          BY <3>1
        <5> QED BY <5>1
      <4>2. Len(SubSeq(q, 1, n)) = n /\ Len(q) - 1 = n
        BY <3>1, <4>1
      <4>. QED  BY <4>2 DEF Files!Parent
    <3>3. ASSUME Len(p) <= Len(q) - 1
          PROVE  SubSeq(Files!Parent(q), 1, Len(p)) = SubSeq(q, 1, Len(p))
      BY <3>1, <3>3 DEF Files!Parent
    <3>. QED  BY <2>1, <3>1, <3>2, <3>3 DEF Files!Below
  <2>. QED  BY <2>1, <2>2, <2>3 DEF Files!IsDirectory
<1>3. ASSUME UNCHANGED tree
      PROVE  Files!IsDirectory(Files!Parent(q))'
  BY <1>3 DEF Files!TreeClosed, Files!IsDirectory
<1>. QED
  <2>1. \A p \in Files!Paths : Files!MayCreate(p) => ~Files!IsDirectory(p)
    BY PathIsSequence DEF Files!MayCreate, Files!IsDirectory
  <2>. QED
    BY <1>1, <1>2, <1>3, <2>1
    DEF Files!Next, Files!CreateDirectory, Files!CreateFile, Files!WriteFile, Files!MayCreate, Files!MayWrite

THEOREM TypeCorrect == Files!Spec => []Files!TypeOK
<1>1. Files!Init => Files!TypeOK
  BY DEF Files!Init, Files!TypeOK
<1>. QED  BY <1>1, FilesTypeStep, PTL DEF Files!Spec

\* No sequence of operations, of any length and on trees of any size, makes
\* a node that cannot be reached from the root, or one below a file.
THEOREM AlwaysClosed == Files!Spec => []Files!TreeClosed
<1>1. Files!Init => Files!TreeClosed
  BY DEF Files!Init, Files!TreeClosed
<1>. QED  BY <1>1, ClosedStep, TypeCorrect, PTL DEF Files!Spec

-----------------------------------------------------------------------------
(* Paths *)

Items == Names \cup {Up}

LEMMA WalkType ==
  ASSUME NEW segments \in Seq(Names), NEW item \in Items
  PROVE  Walk(segments, item) \in Seq(Names)
<1>1. CASE item # Up
  BY <1>1 DEF Walk, Items
<1>2. CASE item = Up /\ segments # <<>>
  <2>1. Front(segments) = SubSeq(segments, 1, Len(segments) - 1)
    BY DEF Front
  <2>2. Len(segments) \in Nat \ {0}
    BY <1>2
  <2>3. SubSeq(segments, 1, Len(segments) - 1) \in Seq(Names)
    BY <2>2
  <2>. QED  BY <1>2, <2>1, <2>3 DEF Walk
<1>3. CASE item = Up /\ segments = <<>>
  BY <1>3 DEF Walk
<1>. QED  BY <1>1, <1>2, <1>3

\* resolve_path walks the items of its argument one after the other.
LEMMA ResolvePathSteps ==
  ASSUME NEW dir \in Seq(Names), NEW arg, arg.items \in Seq(Items)
  PROVE  \E g \in [0 .. Len(arg.items) -> Seq(Names)] :
           /\ g[0] = IF arg.absolute THEN <<>> ELSE dir
           /\ \A k \in 1 .. Len(arg.items) : g[k] = Walk(g[k - 1], arg.items[k])
           /\ ResolvePath(dir, arg) = g[Len(arg.items)]
<1> DEFINE list == arg.items
           n == Len(list)
           base == IF arg.absolute THEN <<>> ELSE dir
           step == [p \in (1 .. n) \X Seq(Names) |-> Walk(p[2], list[p[1]])]
           It(it) == it = [s \in SUBSET DOMAIN list |->
                             IF s = {} THEN base
                             ELSE Walk(it[s \ {Max(s)}], list[Max(s)])]
           f == CHOOSE it : It(it)
           g == [k \in 0 .. n |-> f[1 .. k]]
<1>n. n \in Nat /\ DOMAIN list = 1 .. n /\ \A i \in 1 .. n : list[i] \in Items
  OBVIOUS
<1>b. base \in Seq(Names)
  OBVIOUS
<1>1. ResolvePath(dir, arg) = f[DOMAIN list]
  BY Zenon DEF ResolvePath, FoldLeft, MapThenFoldSet
<1> HIDE DEF base
<1>2. \E it : It(it)
  <2>2. step \in [(1 .. n) \X Seq(Names) -> Seq(Names)]
    <3>1. \A p \in (1 .. n) \X Seq(Names) : p[1] \in 1 .. n /\ p[2] \in Seq(Names)
      OBVIOUS
    <3> HIDE DEF n, list
    <3> QED BY <1>n, <3>1, WalkType
  <2>3. PICK it \in [SUBSET (1 .. n) -> Seq(Names)] : Unfolds(it, n, base, step)
    <3> HIDE DEF step, n
    <3> QED BY <1>n, <1>b, <2>2, FoldExists
  <2>4. ASSUME NEW s \in SUBSET (1 .. n), s # {}
        PROVE  step[<<Max(s), it[s \ {Max(s)}]>>] = Walk(it[s \ {Max(s)}], list[Max(s)])
    <3>1. Max(s) \in 1 .. n
      <4> HIDE DEF n
      <4> QED BY <1>n, <2>4, MaxOfSome
    <3>2. it[s \ {Max(s)}] \in Seq(Names)
      OBVIOUS
    <3> QED BY <3>1, <3>2
  <2>5. It(it)
    <3> HIDE DEF step, n, list
    <3> QED BY <1>n, <2>3, <2>4 DEF Unfolds
  <2> QED BY <2>5
<1>3. It(f)
  <2> HIDE DEF It
  <2> QED BY <1>2
<1> HIDE DEF f, n, list
<1>4. f[1 .. 0] = base
  <2>1. 1 .. 0 = {} /\ {} \in SUBSET DOMAIN list
    OBVIOUS
  <2> QED BY <1>3, <2>1
<1>5. ASSUME NEW k \in 1 .. n
      PROVE  f[1 .. k] = Walk(f[1 .. k - 1], list[k])
  <2>1. Max(1 .. k) = k /\ (1 .. k) \ {k} = 1 .. k - 1 /\ 1 .. k # {}
    BY MaxOfInterval
  <2>2. 1 .. k \in SUBSET DOMAIN list
    BY <1>n
  <2> QED BY <1>3, <2>1, <2>2
<1>6. g[0] = base /\ \A k \in 1 .. n : g[k] = Walk(g[k - 1], list[k])
  <2>1. \A k \in 1 .. n : k \in 0 .. n /\ k - 1 \in 0 .. n
    BY <1>n
  <2>2. 0 \in 0 .. n
    BY <1>n
  <2> QED BY <1>4, <1>5, <2>1, <2>2
<1>7. f[DOMAIN list] = g[n]
  BY <1>n
<1> HIDE DEF g
<1>8. \A k \in 0 .. n : g[k] \in Seq(Names)
  <2> DEFINE S == {k \in 0 .. n : g[k] \in Seq(Names)}
  <2>1. 0 \in S
    BY <1>6, <1>b, <1>n
  <2>2. ASSUME NEW k \in 0 .. n - 1, k \in S
        PROVE  k + 1 \in S
    <3>1. k + 1 \in 1 .. n /\ k + 1 \in 0 .. n /\ (k + 1) - 1 = k
      BY <1>n
    <3>2. g[k + 1] = Walk(g[k], list[k + 1])
      BY <1>6, <3>1
    <3>3. list[k + 1] \in Items
      BY <1>n, <3>1
    <3>. QED  BY <2>2, <3>1, <3>2, <3>3, WalkType
  <2>. HIDE DEF S
  <2>3. 0 .. n \subseteq S
    BY <1>n, <2>1, <2>2, UpTo
  <2>. QED  BY <2>3 DEF S
<1>9. g \in [0 .. n -> Seq(Names)]
  BY <1>8 DEF g
<1>. QED  BY <1>1, <1>6, <1>7, <1>9 DEF n, list, base

LEMMA ResolvePathType ==
  ASSUME NEW dir \in Seq(Names), NEW arg, arg.items \in Seq(Items)
  PROVE  ResolvePath(dir, arg) \in Seq(Names)
<1>1. PICK g \in [0 .. Len(arg.items) -> Seq(Names)] : ResolvePath(dir, arg) = g[Len(arg.items)]
  BY ResolvePathSteps
<1>2. Len(arg.items) \in 0 .. Len(arg.items)
  OBVIOUS
<1>. QED  BY <1>1, <1>2

\* A path that ends in a name leads below the root.
LEMMA NamedPath ==
  ASSUME NEW dir \in Seq(Names), NEW arg, arg.items \in Seq(Items),
         arg.items # <<>>, Last(arg.items) # Up
  PROVE  ResolvePath(dir, arg) # <<>>
<1> DEFINE n == Len(arg.items)
<1>1. PICK g \in [0 .. n -> Seq(Names)] :
          /\ \A k \in 1 .. n : g[k] = Walk(g[k - 1], arg.items[k])
          /\ ResolvePath(dir, arg) = g[n]
  BY ResolvePathSteps
<1>2. n \in 1 .. n /\ n - 1 \in 0 .. n
  OBVIOUS
<1>3. g[n - 1] \in Seq(Names) /\ arg.items[n] # Up
  BY <1>2 DEF Last
<1>4. g[n] = Append(g[n - 1], arg.items[n])
  BY <1>1, <1>2, <1>3 DEF Walk
<1>5. arg.items[n] \in Items /\ arg.items[n] \in Names
  BY <1>2, <1>3 DEF Items
<1>6. Len(Append(g[n - 1], arg.items[n])) = Len(g[n - 1]) + 1 /\ Len(g[n - 1]) \in Nat
  BY <1>3, <1>5
<1>7. Append(g[n - 1], arg.items[n]) # <<>>
  <2>1. \A s \in Seq(Names) : s = <<>> => Len(s) = 0
    OBVIOUS
  <2>2. Append(g[n - 1], arg.items[n]) \in Seq(Names)
    BY <1>3, <1>5
  <2>. HIDE DEF n
  <2>. QED  BY <1>6, <2>1, <2>2
<1>. QED  BY <1>1, <1>4, <1>7

\* What normalize_and_validate_filename accepts and returns ends in a name.
LEMMA NormalizeType ==
  ASSUME NEW arg \in Args
  PROVE  /\ arg.absolute \in BOOLEAN /\ arg.items \in Seq(Items)
         /\ Accepted(arg) => /\ Normalize(arg).absolute = arg.absolute
                             /\ Normalize(arg).items \in Seq(Items)
                             /\ Normalize(arg).items # <<>>
                             /\ Last(Normalize(arg).items) # Up
<1> DEFINE items == arg.items
<1>1. arg.absolute \in BOOLEAN /\ items \in Seq(Items) /\ arg = [absolute |-> arg.absolute, items |-> items]
  BY ArgsAssumption DEF Items
<1>2. CASE items = <<>>
  <2> DEFINE name == [stem |-> "", ext |-> TextExt]
  <2>1. Normalize(arg).absolute = arg.absolute /\ Normalize(arg).items = <<name>>
    BY <1>1, <1>2 DEF Normalize
  <2>2. name \in Names /\ name \in Items /\ name # Up
    BY NameAssumption DEF Items
  <2>. HIDE DEF name
  <2>3. <<name>> \in Seq(Items) /\ <<name>> # <<>> /\ Last(<<name>>) = name
    BY <2>2 DEF Last
  <2>. QED  BY <1>1, <2>1, <2>2, <2>3
<1>3. CASE items # <<>> /\ Last(items).ext = NoExt
  <2> DEFINE last == Last(items)
             front == Front(items)
             name == WithText(last)
  <2>1. Normalize(arg).absolute = arg.absolute /\ Normalize(arg).items = Append(front, name)
    BY <1>1, <1>3 DEF Normalize
  <2>2. front \in Seq(Items) /\ last \in Items
    <3>1. Len(items) \in Nat \ {0}
      BY <1>1, <1>3
    <3>2. SubSeq(items, 1, Len(items) - 1) \in Seq(Items) /\ items[Len(items)] \in Items
      BY <1>1, <3>1
    <3>. QED  BY <3>2 DEF Front, Last
  <2>3. CASE last # Up
    <3>1. last \in Names
      BY <2>2, <2>3 DEF Items
    <3>2. name \in Names
      BY <1>3, <3>1, NameAssumption DEF WithText
    <3>3. name \in Items /\ name # Up
      BY <3>2, NameAssumption DEF Items
    <3>. HIDE DEF name, front
    <3>4. Append(front, name) \in Seq(Items) /\ Append(front, name) # <<>>
          /\ Last(Append(front, name)) = name
      <4>1. Append(front, name) \in Seq(Items) /\ Len(front) \in Nat
            /\ Len(Append(front, name)) = Len(front) + 1
            /\ Append(front, name)[Len(front) + 1] = name
        BY <2>2, <3>3
      <4>. QED  BY <4>1 DEF Last
    <3>. QED  BY <1>1, <2>1, <3>3, <3>4
  <2>4. CASE last = Up
    BY <1>1, <1>3, <2>1, <2>2, <2>4 DEF Accepted
  <2>. QED  BY <2>3, <2>4
<1>4. CASE items # <<>> /\ Last(items).ext # NoExt
  BY <1>1, <1>4 DEF Normalize, Accepted
<1>. QED  BY <1>2, <1>3, <1>4

-----------------------------------------------------------------------------
(* What a path means *)

\* The items ".." after place i, up to place j.
Ups(items, i, j) == Cardinality({k \in i + 1 .. j : items[k] = Up})

LEMMA UpsIs ==
  ASSUME NEW items, NEW i \in Nat, NEW j \in Nat, i <= j
  PROVE  /\ Ups(items, i, j) \in Nat
         /\ Ups(items, i, i) = 0
         /\ Ups(items, i, j + 1) = IF items[j + 1] = Up THEN Ups(items, i, j) + 1
                                   ELSE Ups(items, i, j)
<1> DEFINE A == {k \in i + 1 .. j : items[k] = Up}
           B == {k \in i + 1 .. j + 1 : items[k] = Up}
<1>1. IsFiniteSet(A) /\ Cardinality(A) \in Nat
  <2>1. IsFiniteSet(i + 1 .. j)
    BY FS_Interval
  <2>2. A \subseteq i + 1 .. j
    OBVIOUS
  <2>. HIDE DEF A
  <2>3. IsFiniteSet(A)
    BY <2>1, <2>2, FS_Subset
  <2>. QED  BY <2>3, FS_CardinalityType
<1>2. {k \in i + 1 .. i : items[k] = Up} = {}
  OBVIOUS
<1>3. CASE items[j + 1] = Up
  <2>1. B = A \cup {j + 1} /\ j + 1 \notin A
    BY <1>3
  <2>. HIDE DEF A, B
  <2>2. Cardinality(B) = Cardinality(A) + 1
    BY <1>1, <2>1, FS_AddElement
  <2>. QED  BY <1>1, <1>2, <1>3, <2>2, FS_EmptySet DEF Ups, A, B
<1>4. CASE items[j + 1] # Up
  <2>1. B = A
    BY <1>4
  <2>. QED  BY <1>1, <1>2, <1>4, <2>1, FS_EmptySet DEF Ups
<1>. QED  BY <1>3, <1>4

\* The item at place i is left of the first k.
Stands(items, k, i) ==
  items[i] # Up /\ \A j \in i + 1 .. k : 2 * Ups(items, i, j) <= j - i

\* The segments left of the first k items are those at the places that q
\* enumerates; as many are left above one as names exceed ".." after it.
Places(items, k, segments, q) ==
  LET L == Len(segments)
  IN /\ q \in [1 .. L -> 1 .. k]
     /\ \A t \in 1 .. L : segments[t] = items[q[t]]
     /\ \A s \in 1 .. L, t \in 1 .. L : s < t => q[s] < q[t]
     /\ \A t \in 1 .. L : (k - q[t]) - 2 * Ups(items, q[t], k) = L - t
     /\ \A i \in 1 .. k : Stands(items, k, i) <=> \E t \in 1 .. L : q[t] = i

\* One more item changes for the items before it only what is counted up to it.
LEMMA StandsStep ==
  ASSUME NEW items, NEW k \in Nat, NEW i \in 1 .. k
  PROVE  /\ Stands(items, k + 1, i)
              <=> Stands(items, k, i) /\ 2 * Ups(items, i, k + 1) <= (k + 1) - i
         /\ Stands(items, k, i) => 2 * Ups(items, i, k) <= k - i
<1>1. i + 1 .. k + 1 = (i + 1 .. k) \cup {k + 1}
  OBVIOUS
<1>2. k \in i + 1 .. k \/ i = k
  OBVIOUS
<1>3. Ups(items, i, i) = 0
  BY UpsIs
<1>4. Stands(items, k, i) => 2 * Ups(items, i, k) <= k - i
  <2>1. CASE i = k
    BY <1>3, <2>1
  <2>2. CASE k \in i + 1 .. k
    BY <2>2 DEF Stands
  <2>. QED  BY <1>2, <2>1, <2>2
<1>5. Stands(items, k + 1, i) <=> Stands(items, k, i) /\ 2 * Ups(items, i, k + 1) <= (k + 1) - i
  <2>1. \A j : j \in i + 1 .. k + 1 <=> j \in i + 1 .. k \/ j = k + 1
    OBVIOUS
  <2>. QED  BY <2>1, Zenon DEF Stands
<1>. QED  BY <1>4, <1>5

LEMMA WalkDown ==
  ASSUME NEW items, NEW k \in Nat, items[k + 1] \in Names, NEW segments \in Seq(Names),
         NEW q, Places(items, k, segments, q)
  PROVE  \E r : Places(items, k + 1, Append(segments, items[k + 1]), r)
<1> DEFINE L == Len(segments)
           new == Append(segments, items[k + 1])
           r == [t \in 1 .. L + 1 |-> IF t = L + 1 THEN k + 1 ELSE q[t]]
<1>u. items[k + 1] # Up
  BY NameAssumption
<1>1. L \in Nat /\ Len(new) = L + 1 /\ new[L + 1] = items[k + 1]
      /\ \A t \in 1 .. L : new[t] = segments[t]
  OBVIOUS
<1>2. /\ q \in [1 .. L -> 1 .. k]
      /\ \A t \in 1 .. L : segments[t] = items[q[t]]
      /\ \A s \in 1 .. L, t \in 1 .. L : s < t => q[s] < q[t]
      /\ \A t \in 1 .. L : (k - q[t]) - 2 * Ups(items, q[t], k) = L - t
      /\ \A i \in 1 .. k : Stands(items, k, i) <=> \E t \in 1 .. L : q[t] = i
  BY DEF Places
<1> HIDE DEF L, new
<1>3. \A t \in 1 .. L + 1 : t = L + 1 \/ t \in 1 .. L
  BY <1>1
<1>4. r[L + 1] = k + 1 /\ \A t \in 1 .. L : r[t] = q[t] /\ q[t] \in 1 .. k
  BY <1>1, <1>2
<1>5. r \in [1 .. L + 1 -> 1 .. k + 1]
  BY <1>1, <1>2
<1> HIDE DEF r
<1>6. \A t \in 1 .. L + 1 : new[t] = items[r[t]]
  BY <1>1, <1>2, <1>3, <1>4
<1>7. ASSUME NEW s \in 1 .. L + 1, NEW t \in 1 .. L + 1, s < t
      PROVE  r[s] < r[t]
  <2>1. s \in 1 .. L
    BY <1>1, <1>7
  <2>2. CASE t \in 1 .. L
    BY <1>2, <1>4, <1>7, <2>1, <2>2
  <2>3. CASE t = L + 1
    BY <1>4, <2>1, <2>3
  <2>. QED  BY <1>3, <2>2, <2>3
<1>8. ASSUME NEW t \in 1 .. L + 1
      PROVE  ((k + 1) - r[t]) - 2 * Ups(items, r[t], k + 1) = (L + 1) - t
  <2>1. CASE t = L + 1
    <3>1. r[t] = k + 1 /\ k + 1 \in Nat
      BY <1>4, <2>1
    <3>2. Ups(items, k + 1, k + 1) = 0
      BY <3>1, UpsIs
    <3>. QED  BY <1>1, <2>1, <3>1, <3>2
  <2>2. CASE t \in 1 .. L
    <3>1. r[t] = q[t] /\ q[t] \in Nat /\ q[t] <= k
      BY <1>4, <2>2
    <3>2. Ups(items, q[t], k) \in Nat /\ Ups(items, q[t], k + 1) = Ups(items, q[t], k)
      BY <1>u, <3>1, UpsIs
    <3>3. (k - q[t]) - 2 * Ups(items, q[t], k) = L - t
      BY <1>2, <2>2
    <3>. QED  BY <1>1, <3>1, <3>2, <3>3
  <2>. QED  BY <1>3, <2>1, <2>2
<1>9. ASSUME NEW i \in 1 .. k + 1
      PROVE  Stands(items, k + 1, i) <=> \E t \in 1 .. L + 1 : r[t] = i
  <2>1. CASE i = k + 1
    <3>1. Stands(items, k + 1, i)
      BY <1>u, <2>1 DEF Stands
    <3>2. L + 1 \in 1 .. L + 1
      BY <1>1
    <3>. QED  BY <1>4, <2>1, <3>1, <3>2
  <2>2. CASE i \in 1 .. k
    <3>0. i \in Nat /\ i <= k
      BY <2>2
    <3>1. Ups(items, i, k) \in Nat /\ Ups(items, i, k + 1) = Ups(items, i, k)
      BY <1>u, <3>0, UpsIs
    <3>2. Stands(items, k + 1, i)
             <=> Stands(items, k, i) /\ 2 * Ups(items, i, k + 1) <= (k + 1) - i
      BY <2>2, StandsStep
    <3>3. Stands(items, k, i) => 2 * Ups(items, i, k + 1) <= (k + 1) - i
      BY <2>2, <3>1, StandsStep
    <3>4. Stands(items, k + 1, i) <=> \E t \in 1 .. L : q[t] = i
      BY <1>2, <2>2, <3>2, <3>3
    <3>5. (\E t \in 1 .. L : q[t] = i) <=> \E t \in 1 .. L + 1 : r[t] = i
      <4>1. r[L + 1] # i
        BY <1>4, <2>2
      <4>2. \A t \in 1 .. L : t \in 1 .. L + 1
        BY <1>1
      <4>. QED  BY <1>3, <1>4, <4>1, <4>2
    <3>. QED  BY <3>4, <3>5
  <2>3. i = k + 1 \/ i \in 1 .. k
    OBVIOUS
  <2>. QED  BY <2>1, <2>2, <2>3
<1>10. Places(items, k + 1, new, r)
  BY <1>1, <1>5, <1>6, <1>7, <1>8, <1>9 DEF Places
<1>. QED  BY <1>10 DEF new

LEMMA WalkUp ==
  ASSUME NEW items, NEW k \in Nat, items[k + 1] = Up, NEW segments \in Seq(Names),
         segments # <<>>, NEW q, Places(items, k, segments, q)
  PROVE  \E r : Places(items, k + 1, Front(segments), r)
<1> DEFINE L == Len(segments)
           new == Front(segments)
           r == [t \in 1 .. L - 1 |-> q[t]]
<1>0. L \in Nat \ {0}
  OBVIOUS
<1>1. Len(new) = L - 1 /\ \A t \in 1 .. L - 1 : new[t] = segments[t]
  <2>1. PICK n \in Nat : L = n + 1
    <3>1. L - 1 \in Nat /\ L = (L - 1) + 1
      BY <1>0
    <3>. QED  BY <3>1
  <2>2. L - 1 = n
    BY <2>1
  <2>3. Len(SubSeq(segments, 1, n)) = n /\ \A t \in 1 .. n : SubSeq(segments, 1, n)[t] = segments[t]
    BY <2>1
  <2>. QED  BY <2>2, <2>3 DEF Front
<1>2. /\ q \in [1 .. L -> 1 .. k]
      /\ \A t \in 1 .. L : segments[t] = items[q[t]]
      /\ \A s \in 1 .. L, t \in 1 .. L : s < t => q[s] < q[t]
      /\ \A t \in 1 .. L : (k - q[t]) - 2 * Ups(items, q[t], k) = L - t
      /\ \A i \in 1 .. k : Stands(items, k, i) <=> \E t \in 1 .. L : q[t] = i
  BY DEF Places
<1> HIDE DEF L, new
<1>3. \A t \in 1 .. L - 1 : t \in 1 .. L
  BY <1>0
<1>4. \A t \in 1 .. L - 1 : r[t] = q[t] /\ q[t] \in 1 .. k
  BY <1>2, <1>3
<1>5. r \in [1 .. L - 1 -> 1 .. k + 1]
  BY <1>2, <1>3
<1> HIDE DEF r
<1>6. \A t \in 1 .. L - 1 : new[t] = items[r[t]]
  BY <1>1, <1>2, <1>3, <1>4
<1>7. \A s \in 1 .. L - 1, t \in 1 .. L - 1 : s < t => r[s] < r[t]
  BY <1>2, <1>3, <1>4
<1>u. ASSUME NEW t \in 1 .. L
      PROVE  /\ q[t] \in 1 .. k
             /\ Ups(items, q[t], k + 1) \in Nat
             /\ ((k + 1) - q[t]) - 2 * Ups(items, q[t], k + 1) = (L - t) - 1
  <2>1. q[t] \in 1 .. k /\ q[t] \in Nat /\ q[t] <= k
    BY <1>2
  <2>2. Ups(items, q[t], k) \in Nat /\ Ups(items, q[t], k + 1) = Ups(items, q[t], k) + 1
    BY <2>1, UpsIs
  <2>3. (k - q[t]) - 2 * Ups(items, q[t], k) = L - t
    BY <1>2
  <2>4. t \in Int /\ L \in Int /\ k \in Int
    BY <1>0
  <2>5. \A a \in Nat, u \in Nat, l \in Int, v \in Int :
          /\ (k - a) - 2 * u = l - v => ((k + 1) - a) - 2 * (u + 1) = (l - v) - 1
          /\ u + 1 \in Nat
    OBVIOUS
  <2>6. ((k + 1) - q[t]) - 2 * (Ups(items, q[t], k) + 1) = (L - t) - 1
    BY <2>1, <2>2, <2>3, <2>4, <2>5
  <2>. QED  BY <2>1, <2>2, <2>6
<1>8. \A t \in 1 .. L - 1 : ((k + 1) - r[t]) - 2 * Ups(items, r[t], k + 1) = (L - 1) - t
  <2>1. \A t \in 1 .. L - 1 : (L - t) - 1 = (L - 1) - t
    BY <1>0
  <2>. QED  BY <1>3, <1>4, <1>u, <2>1
<1>9. ASSUME NEW i \in 1 .. k + 1
      PROVE  Stands(items, k + 1, i) <=> \E t \in 1 .. L - 1 : r[t] = i
  <2>1. CASE i = k + 1
    <3>1. ~Stands(items, k + 1, i)
      BY <2>1 DEF Stands
    <3>2. \A t \in 1 .. L - 1 : r[t] # i
      BY <1>4, <2>1
    <3>. QED  BY <3>1, <3>2
  <2>2. CASE i \in 1 .. k
    <3>1. Stands(items, k + 1, i)
             <=> Stands(items, k, i) /\ 2 * Ups(items, i, k + 1) <= (k + 1) - i
      BY <2>2, StandsStep
    <3>2. ASSUME NEW t \in 1 .. L, q[t] = i
          PROVE  2 * Ups(items, i, k + 1) <= (k + 1) - i <=> t \in 1 .. L - 1
      <4>1. /\ Ups(items, i, k + 1) \in Nat
            /\ ((k + 1) - i) - 2 * Ups(items, i, k + 1) = (L - t) - 1
        BY <1>u, <3>2
      <4>2. \A u \in Nat : ((k + 1) - i) - 2 * u = (L - t) - 1
                             => (2 * u <= (k + 1) - i <=> t <= L - 1)
        BY <1>0
      <4>3. t \in 1 .. L - 1 <=> t <= L - 1
        BY <1>0
      <4>. QED  BY <4>1, <4>2, <4>3
    <3>3. Stands(items, k, i) <=> \E t \in 1 .. L : q[t] = i
      BY <1>2, <2>2
    <3>. QED  BY <1>3, <1>4, <3>1, <3>2, <3>3
  <2>3. i = k + 1 \/ i \in 1 .. k
    OBVIOUS
  <2>. QED  BY <2>1, <2>2, <2>3
<1>10. Places(items, k + 1, new, r)
  BY <1>1, <1>5, <1>6, <1>7, <1>8, <1>9 DEF Places
<1>. QED  BY <1>10 DEF new

LEMMA WalkAtRoot ==
  ASSUME NEW items, NEW k \in Nat, items[k + 1] = Up, NEW q, Places(items, k, <<>>, q)
  PROVE  \E r : Places(items, k + 1, <<>>, r)
<1>1. Len(<<>>) = 0 /\ \A t : t \notin 1 .. 0
  OBVIOUS
<1>2. \A i \in 1 .. k : ~Stands(items, k, i)
  BY <1>1 DEF Places
<1>3. ASSUME NEW i \in 1 .. k + 1
      PROVE  ~Stands(items, k + 1, i)
  <2>1. CASE i = k + 1
    BY <2>1 DEF Stands
  <2>2. CASE i \in 1 .. k
    BY <1>2, <2>2, StandsStep
  <2>. QED  BY <2>1, <2>2
<1> DEFINE r == [t \in 1 .. 0 |-> 1]
<1>4. r \in [1 .. 0 -> 1 .. k + 1]
  BY <1>1
<1>. HIDE DEF r
<1>5. Places(items, k + 1, <<>>, r)
  BY <1>1, <1>3, <1>4 DEF Places
<1>. QED  BY <1>5

\* An increasing enumeration has as many members up to its i-th as i says.
LEMMA Enumerated ==
  ASSUME NEW L \in Nat, NEW q \in [1 .. L -> Nat],
         \A s \in 1 .. L, t \in 1 .. L : s < t => q[s] < q[t]
  PROVE  \A m \in 0 .. L : Cardinality({q[t] : t \in 1 .. m}) = m
<1> DEFINE Some(m) == {q[t] : t \in 1 .. m}
           S == {m \in 0 .. L : IsFiniteSet(Some(m)) /\ Cardinality(Some(m)) = m}
<1>1. 0 \in S
  <2>1. Some(0) = {}
    OBVIOUS
  <2>2. IsFiniteSet({}) /\ Cardinality({}) = 0
    BY FS_EmptySet, Zenon
  <2>. HIDE DEF Some
  <2>. QED  BY <2>1, <2>2
<1>2. ASSUME NEW m \in 0 .. L - 1, m \in S
      PROVE  m + 1 \in S
  <2>1. m + 1 \in 0 .. L /\ m + 1 \in 1 .. L
    OBVIOUS
  <2>2. Some(m + 1) = Some(m) \cup {q[m + 1]}
    <3>1. \A t : t \in 1 .. m + 1 <=> t \in 1 .. m \/ t = m + 1
      OBVIOUS
    <3>. QED  BY <3>1
  <2>3. q[m + 1] \notin Some(m)
    <3>. SUFFICES ASSUME NEW t \in 1 .. m PROVE q[t] # q[m + 1]
      OBVIOUS
    <3>1. t \in 1 .. L /\ t < m + 1
      OBVIOUS
    <3>2. q[t] < q[m + 1] /\ q[t] \in Nat /\ q[m + 1] \in Nat
      BY <2>1, <3>1
    <3>. QED  BY <3>2
  <2>4. IsFiniteSet(Some(m)) /\ Cardinality(Some(m)) = m
    BY <1>2
  <2>. HIDE DEF Some
  <2>a. IsFiniteSet(Some(m) \cup {q[m + 1]})
        /\ Cardinality(Some(m) \cup {q[m + 1]}) = Cardinality(Some(m)) + 1
    BY <2>3, <2>4, FS_AddElement, Zenon
  <2>5. IsFiniteSet(Some(m + 1)) /\ Cardinality(Some(m + 1)) = m + 1
    BY <2>2, <2>4, <2>a
  <2>. QED  BY <2>1, <2>5
<1>3. 0 .. L \subseteq S
  <2>. HIDE DEF S
  <2>. QED  BY <1>1, <1>2, UpTo
<1>. QED  BY <1>3

\* q enumerates the L members of kept, the smaller before the larger.
Enumerates(q, L, kept) ==
  /\ q \in [1 .. L -> Nat]
  /\ \A s \in 1 .. L, t \in 1 .. L : s < t => q[s] < q[t]
  /\ \A i : i \in kept <=> \E t \in 1 .. L : q[t] = i

Ranked(kept, i) == CHOOSE k \in kept : Cardinality({j \in kept : j <= k}) = i

\* The i-th of the places that an increasing enumeration gives.
LEMMA RankIs ==
  ASSUME NEW L \in Nat, NEW q, NEW kept, Enumerates(q, L, kept)
  PROVE  Cardinality(kept) = L /\ \A i \in 1 .. L : q[i] = Ranked(kept, i)
<1>e. /\ q \in [1 .. L -> Nat]
      /\ \A s \in 1 .. L, t \in 1 .. L : s < t => q[s] < q[t]
      /\ \A i : i \in kept <=> \E t \in 1 .. L : q[t] = i
  BY DEF Enumerates
<1>0. kept = {q[t] : t \in 1 .. L}
  BY <1>e
<1>1. \A m \in 0 .. L : Cardinality({q[t] : t \in 1 .. m}) = m
  BY <1>e, Enumerated
<1>2. ASSUME NEW i \in 1 .. L
      PROVE  Cardinality({j \in kept : j <= q[i]}) = i
  <2>1. \A t \in 1 .. L : q[t] <= q[i] <=> t \in 1 .. i
    <3>. TAKE t \in 1 .. L
    <3>1. q[t] \in Nat /\ q[i] \in Nat /\ t \in Nat /\ i \in Nat
      BY <1>e
    <3>2. t < i => q[t] < q[i]
      BY <1>e
    <3>3. i < t => q[i] < q[t]
      BY <1>e
    <3>4. t = i => q[t] = q[i]
      OBVIOUS
    <3>. QED  BY <3>1, <3>2, <3>3, <3>4
  <2>2. \A t \in 1 .. i : t \in 1 .. L
    OBVIOUS
  <2>3. {j \in kept : j <= q[i]} = {q[t] : t \in 1 .. i}
    BY <1>0, <2>1, <2>2
  <2>4. i \in 0 .. L
    OBVIOUS
  <2>. QED  BY <1>1, <2>3, <2>4
<1>3. ASSUME NEW i \in 1 .. L
      PROVE  q[i] = Ranked(kept, i)
  <2> DEFINE P(k) == Cardinality({j \in kept : j <= k}) = i
  <2>1. q[i] \in kept /\ P(q[i])
    BY <1>2, <1>e
  <2>2. \A k \in kept : P(k) => k = q[i]
    <3>. TAKE k \in kept
    <3>1. PICK t \in 1 .. L : k = q[t]
      BY <1>e
    <3>2. Cardinality({j \in kept : j <= q[t]}) = t
      BY <1>2
    <3>. QED  BY <3>1, <3>2
  <2>. HIDE DEF P
  <2>3. q[i] = CHOOSE k \in kept : P(k)
    BY <2>1, <2>2
  <2>. QED  BY <2>3 DEF P, Ranked
<1>4. Cardinality(kept) = L
  BY <1>0, <1>1
<1>. QED  BY <1>3, <1>4

LEMMA ResolvedPlaces ==
  ASSUME NEW dir \in Seq(Names), NEW arg, arg.items \in Seq(Items),
         NEW base, base = (IF arg.absolute THEN <<>> ELSE dir),
         NEW items, items = base \o arg.items
  PROVE  \E q : Places(items, Len(items), ResolvePath(dir, arg), q)
<1> DEFINE b == Len(base)
           n == Len(arg.items)
<1>1. PICK g \in [0 .. n -> Seq(Names)] :
          /\ g[0] = base
          /\ \A k \in 1 .. n : g[k] = Walk(g[k - 1], arg.items[k])
          /\ ResolvePath(dir, arg) = g[n]
  BY ResolvePathSteps
<1>2. base \in Seq(Names) /\ b \in Nat /\ n \in Nat
      /\ (\A i \in 1 .. b : base[i] \in Names) /\ (\A k \in 1 .. n : arg.items[k] \in Items)
  OBVIOUS
<1>3. base \in Seq(Items)
  <2>1. Names \subseteq Items
    BY DEF Items
  <2>. QED  BY <1>2, <2>1
<1>4. /\ Len(items) = b + n
      /\ \A i \in 1 .. b : items[i] = base[i]
      /\ \A k \in 1 .. n : items[b + k] = arg.items[k]
  <2>1. \A s \in Seq(Items), t \in Seq(Items) :
           /\ Len(s \o t) = Len(s) + Len(t)
           /\ \A i \in 1 .. Len(s) : (s \o t)[i] = s[i]
           /\ \A k \in 1 .. Len(t) : (s \o t)[Len(s) + k] = t[k]
    OBVIOUS
  <2>. QED  BY <1>3, <2>1
<1> DEFINE Reached(k) == \E q : Places(items, b + k, g[k], q)
           S == {k \in 0 .. n : Reached(k)}
<1> HIDE DEF b, n
<1>5. 0 \in S
  <2>1. \A i \in 1 .. b : items[i] # Up
    BY <1>2, <1>4, NameAssumption
  <2>2. ASSUME NEW i \in 0 .. b
        PROVE  \A j \in i .. b : Ups(items, i, j) = 0
    <3>. TAKE j \in i .. b
    <3>0. \A k \in i + 1 .. j : k \in 1 .. b
      BY <1>2
    <3>1. {k \in i + 1 .. j : items[k] = Up} = {}
      BY <2>1, <3>0
    <3>. QED  BY <3>1, FS_EmptySet DEF Ups
  <2> DEFINE q == [t \in 1 .. b |-> t]
  <2>3. q \in [1 .. b -> 1 .. b] /\ \A t \in 1 .. b : q[t] = t
    OBVIOUS
  <2>4. Len(base) = b
    BY DEF b
  <2>5. \A t \in 1 .. b : (b - q[t]) - 2 * Ups(items, q[t], b) = b - t
    <3>. TAKE t \in 1 .. b
    <3>1. t \in 0 .. b /\ b \in t .. b
      BY <1>2
    <3>2. Ups(items, t, b) = 0 /\ q[t] = t
      BY <2>2, <2>3, <3>1
    <3>. QED  BY <1>2, <3>2
  <2>6. \A i \in 1 .. b : Stands(items, b, i)
    <3>. TAKE i \in 1 .. b
    <3>1. i \in 0 .. b /\ \A j \in i + 1 .. b : j \in i .. b /\ j - i >= 0
      BY <1>2
    <3>2. \A j \in i + 1 .. b : Ups(items, i, j) = 0
      BY <2>2, <3>1
    <3>3. \A j \in i + 1 .. b : 2 * Ups(items, i, j) <= j - i
      BY <3>1, <3>2
    <3>. QED  BY <2>1, <3>3 DEF Stands
  <2>. HIDE DEF q
  <2>7. \A s \in 1 .. b, t \in 1 .. b : s < t => q[s] < q[t]
    BY <2>3
  <2>8. \A i \in 1 .. b : \E t \in 1 .. b : q[t] = i
    BY <2>3
  <2>9. \A t \in 1 .. b : base[t] = items[q[t]]
    BY <1>4, <2>3
  <2>10. Places(items, b, base, q)
    BY <2>3, <2>4, <2>5, <2>6, <2>7, <2>8, <2>9 DEF Places
  <2>. QED  BY <1>1, <1>2, <2>10
<1>6. ASSUME NEW k \in 0 .. n - 1, Reached(k)
      PROVE  Reached(k + 1)
  <2>1. k + 1 \in 1 .. n /\ k \in 0 .. n /\ (k + 1) - 1 = k /\ b + (k + 1) = (b + k) + 1
        /\ b + k \in Nat
    BY <1>2
  <2>2. g[k + 1] = Walk(g[k], arg.items[k + 1]) /\ g[k] \in Seq(Names)
    BY <1>1, <2>1
  <2>3. items[(b + k) + 1] = arg.items[k + 1] /\ arg.items[k + 1] \in Items
    BY <1>2, <1>4, <2>1
  <2>4. PICK q : Places(items, b + k, g[k], q)
    BY <1>6
  <2>5. \E r : Places(items, (b + k) + 1, g[k + 1], r)
    <3>1. CASE arg.items[k + 1] # Up
      <4>1. items[(b + k) + 1] \in Names
        BY <2>3, <3>1 DEF Items
      <4>2. g[k + 1] = Append(g[k], items[(b + k) + 1])
        BY <2>2, <2>3, <3>1 DEF Walk
      <4>3. \E r : Places(items, (b + k) + 1, Append(g[k], items[(b + k) + 1]), r)
        BY <2>1, <2>2, <2>4, <4>1, WalkDown
      <4>. QED  BY <4>2, <4>3
    <3>2. CASE arg.items[k + 1] = Up /\ g[k] # <<>>
      BY <2>1, <2>2, <2>3, <2>4, <3>2, WalkUp DEF Walk
    <3>3. CASE arg.items[k + 1] = Up /\ g[k] = <<>>
      BY <2>1, <2>2, <2>3, <2>4, <3>3, WalkAtRoot DEF Walk
    <3>. QED  BY <3>1, <3>2, <3>3
  <2>. QED  BY <2>1, <2>5
<1>7. n \in S
  <2>1. \A k \in 0 .. n - 1 : k \in S => k + 1 \in S
    <3>1. \A k \in 0 .. n - 1 : k + 1 \in 0 .. n
      BY <1>2
    <3>. HIDE DEF Reached
    <3>. QED  BY <1>6, <3>1
  <2>. HIDE DEF S
  <2>2. 0 .. n \subseteq S
    BY <1>2, <1>5, <2>1, UpTo
  <2>. QED  BY <1>2, <2>2
<1>. QED  BY <1>1, <1>4, <1>7

LEMMA Lexical == TypeOK => ResolveIsLexical
<1>. SUFFICES ASSUME TypeOK, NEW arg \in Args
              PROVE  LET items == (IF arg.absolute THEN <<>> ELSE cwd) \o arg.items
                         kept == {i \in 1 .. Len(items) : Survives(items, i)}
                     IN ResolvePath(cwd, arg) = [i \in 1 .. Cardinality(kept) |->
                          items[CHOOSE k \in kept : Cardinality({j \in kept : j <= k}) = i]]
  BY Zenon DEF ResolveIsLexical
<1> DEFINE base == IF arg.absolute THEN <<>> ELSE cwd
           items == base \o arg.items
           kept == {i \in 1 .. Len(items) : Survives(items, i)}
           path == ResolvePath(cwd, arg)
           L == Len(path)
<1>1. cwd \in Seq(Names) /\ arg.items \in Seq(Items)
  BY ArgsAssumption DEF TypeOK, Items
<1>2. path \in Seq(Names)
  BY <1>1, ResolvePathType
<1>4. base \in Seq(Items) /\ items \in Seq(Items) /\ Len(items) \in Nat
  <2>1. \A s \in Seq(Names) : s \in Seq(Items)
    BY DEF Items
  <2>2. base \in Seq(Items)
    BY <1>1, <2>1
  <2>. HIDE DEF base
  <2>. QED  BY <1>1, <2>2
<1>3. PICK q : Places(items, Len(items), path, q)
  <2>. HIDE DEF path
  <2>1. \E q : Places(items, Len(items), ResolvePath(cwd, arg), q)
    BY <1>1, ResolvedPlaces
  <2>. QED  BY <2>1 DEF path
<1>k. \A i : i \in kept <=> i \in 1 .. Len(items) /\ Survives(items, i)
  OBVIOUS
<1>. HIDE DEF path, base, items, kept
<1>l. L \in Nat
  BY <1>2
<1>5. /\ q \in [1 .. L -> 1 .. Len(items)]
      /\ \A t \in 1 .. L : path[t] = items[q[t]]
      /\ \A s \in 1 .. L, t \in 1 .. L : s < t => q[s] < q[t]
      /\ \A i \in 1 .. Len(items) : Stands(items, Len(items), i) <=> \E t \in 1 .. L : q[t] = i
  BY <1>3 DEF Places
<1>6. path = [t \in 1 .. L |-> path[t]]
  BY <1>2
<1>. HIDE DEF L
<1>7. q \in [1 .. L -> Nat]
  BY <1>4, <1>5, <1>l
<1>8. \A i \in 1 .. Len(items) : Stands(items, Len(items), i) <=> Survives(items, i)
  BY Zenon DEF Stands, Survives, Ups
<1>9. \A i : i \in kept <=> \E t \in 1 .. L : q[t] = i
  BY <1>5, <1>8, <1>k
<1>o. \A s \in 1 .. L, t \in 1 .. L : s < t => q[s] < q[t]
  BY <1>5
<1>. HIDE DEF L
<1>e. Enumerates(q, L, kept)
  BY <1>7, <1>9, <1>o DEF Enumerates
<1>10. Cardinality(kept) = L /\ \A i \in 1 .. L : q[i] = Ranked(kept, i)
  BY <1>e, <1>l, RankIs
<1>11. path = [i \in 1 .. Cardinality(kept) |-> items[Ranked(kept, i)]]
  BY <1>5, <1>6, <1>10
<1>. QED  BY <1>11 DEF path, base, items, kept, Ranked

-----------------------------------------------------------------------------
(* What the commands do to the tree *)

\* The path that an operation finds room for is one of the tree's paths.
LEMMA RoomIsPath ==
  ASSUME NEW p \in Seq(Names), p # <<>>, Files!Room(p)
  PROVE  p \in Files!Paths
<1>1. Len(p) \in 1 .. MaxDepth
  BY BoundAssumption DEF Files!Room
<1>2. p \in [1 .. Len(p) -> Names]
  OBVIOUS
<1>. QED  BY <1>1, <1>2 DEF Files!Paths

LEMMA CreateDirectoryStep ==
  ASSUME NEW p \in Seq(Names), p # <<>>, Files!CreateDirectory(p)
  PROVE  Files!Next
<1>1. p \in Files!Paths
  BY RoomIsPath DEF Files!CreateDirectory
<1>. QED  BY <1>1 DEF Files!Next

LEMMA CreateFileStep ==
  ASSUME NEW p \in Seq(Names), p # <<>>, Files!CreateFile(p)
  PROVE  Files!Next
<1>1. p \in Files!Paths
  BY RoomIsPath DEF Files!CreateFile
<1>. QED  BY <1>1 DEF Files!Next

LEMMA WriteFileStep ==
  ASSUME Files!TypeOK, NEW p \in Seq(Names), NEW c \in Contents, Files!WriteFile(p, c)
  PROVE  Files!Next
<1>1. p # <<>>
  BY DEF Files!WriteFile, Files!MayWrite, Files!IsDirectory
<1>2. p \in Files!Paths
  BY <1>1, RoomIsPath DEF Files!WriteFile, Files!TypeOK
<1>. QED  BY <1>2 DEF Files!Next

LEMMA DeleteNodeStep ==
  ASSUME Files!TypeOK, NEW p, Files!DeleteNode(p)
  PROVE  Files!Next
<1>1. p \in Files!Paths
  BY DEF Files!DeleteNode, Files!MayDelete, Files!TypeOK
<1>. QED  BY <1>1 DEF Files!Next

\* The path of a file that is created or opened.
LEMMA AcceptedPath ==
  ASSUME TypeOK, NEW arg \in Args, Accepted(arg)
  PROVE  /\ ResolvePath(cwd, Normalize(arg)) \in Seq(Names)
         /\ ResolvePath(cwd, Normalize(arg)) # <<>>
BY NormalizeType, ResolvePathType, NamedPath DEF TypeOK

LEMMA ArgPath ==
  ASSUME TypeOK, NEW arg \in Args
  PROVE  ResolvePath(cwd, arg) \in Seq(Names)
BY NormalizeType, ResolvePathType DEF TypeOK

LEMMA SavePathType == TypeOK => SavePath \in Seq(Names)
BY ResolvePathType DEF TypeOK, SavePath, Items

LEMMA TreeStep == TypeOK /\ [Next]_vars => [Files!Next]_tree
<1>. SUFFICES ASSUME TypeOK, [Next]_vars PROVE [Files!Next]_tree
  OBVIOUS
<1>t. Files!TypeOK
  BY DEF TypeOK
<1>1. CASE Command
  <2>1. CASE Back
    BY <2>1 DEF Back
  <2>2. CASE GitClone
    <3>g. Git \in Names
      BY NameAssumption
    <3>1. <<Git>> \in Seq(Names) /\ <<Git>> # <<>>
      BY <3>g
    <3>. QED  BY <2>2, <3>1, CreateDirectoryStep DEF GitClone
  <2>3. ASSUME NEW arg \in Args, ChangeDirectory(arg)
        PROVE  UNCHANGED tree
    BY <2>3 DEF ChangeDirectory
  <2>4. ASSUME NEW arg \in Args, MakeFolder(arg)
        PROVE  [Files!Next]_tree
    BY <2>4, ArgPath, CreateDirectoryStep DEF MakeFolder, Try
  <2>5. ASSUME NEW arg \in Args, Create(arg)
        PROVE  [Files!Next]_tree
    BY <2>5, AcceptedPath, CreateFileStep DEF Create, Try
  <2>6. ASSUME NEW arg \in Args, NEW text \in Contents, Write(arg, text)
        PROVE  [Files!Next]_tree
    BY <1>t, <2>6, ArgPath, WriteFileStep DEF Write, Try
  <2>7. ASSUME NEW arg \in Args, Delete(arg)
        PROVE  [Files!Next]_tree
    BY <1>t, <2>7, DeleteNodeStep DEF Delete, Try
  <2>8. ASSUME NEW arg \in Args, Edit(arg)
        PROVE  [Files!Next]_tree
    BY <2>8, AcceptedPath, CreateFileStep DEF Edit, Ensure
  <2>. QED
    BY <1>1, <2>1, <2>2, <2>3, <2>4, <2>5, <2>6, <2>7, <2>8 DEF Command
<1>2. CASE EditorKey
  <2>1. Save => [Files!Next]_tree
    BY <1>t, SavePathType, WriteFileStep DEF Save, TypeOK
  <2>2. Save \/ UNCHANGED tree
    BY <1>2 DEF EditorKey, EditText, CtrlS, CtrlK, EnterWriteQuit, EnterQuit, Escape
  <2>. QED  BY <2>1, <2>2
<1>3. CASE UNCHANGED vars
  BY <1>3 DEF vars
<1>. QED  BY <1>1, <1>2, <1>3 DEF Next

LEMMA ShellTypeStep == TypeOK /\ [Next]_vars => TypeOK'
<1>. SUFFICES ASSUME TypeOK, [Next]_vars PROVE TypeOK'
  OBVIOUS
<1>t. Files!TypeOK /\ Files!TypeOK'
  BY TreeStep, FilesTypeStep DEF TypeOK
<1>f. Empty \in Contents /\ NoFile.absolute \in BOOLEAN /\ NoFile.items \in Seq(Names \cup {Up})
      /\ <<>> \in Seq(Names)
  BY ContentAssumption DEF NoFile
<1>s. ASSUME UNCHANGED <<mode, cwd, editor, history>>, reply' \in Replies
      PROVE  TypeOK'
  BY <1>s, <1>t DEF TypeOK, editor, history
<1>r. {"none", "done", "error", "returned", "cloned", "pending", "saved", "left"} \subseteq Replies
  BY DEF Replies
<1>1. CASE Command
  <2>1. CASE Back
    <3>1. cwd' \in Seq(Names)
      <4>1. ASSUME cwd # <<>>
            PROVE  Front(cwd) \in Seq(Names)
        <5>1. Len(cwd) \in Nat \ {0} /\ cwd \in Seq(Names)
          BY <4>1 DEF TypeOK
        <5>2. SubSeq(cwd, 1, Len(cwd) - 1) \in Seq(Names)
          BY <5>1
        <5>. QED  BY <5>2 DEF Front
      <4>. QED  BY <2>1, <4>1 DEF Back, TypeOK
    <3>. QED  BY <1>t, <1>r, <2>1, <3>1 DEF Back, TypeOK, editor, history
  <2>2. CASE GitClone
    BY <1>s, <1>r, <2>2 DEF GitClone, Tell
  <2>3. ASSUME NEW arg \in Args, ChangeDirectory(arg)
        PROVE  TypeOK'
    <3>1. cwd' \in Seq(Names) /\ reply' \in Replies /\ UNCHANGED <<mode, editor, history>>
      BY <1>r, <2>3, ArgPath DEF ChangeDirectory, TypeOK
    <3>. QED  BY <1>t, <3>1 DEF TypeOK, editor, history
  <2>4. ASSUME NEW arg \in Args,
               \/ MakeFolder(arg)
               \/ Create(arg)
               \/ \E text \in Contents : Write(arg, text)
               \/ Delete(arg)
        PROVE  TypeOK'
    BY <1>s, <1>r, <2>4 DEF MakeFolder, Create, Write, Delete, Try, Tell
  <2>5. ASSUME NEW arg \in Args, Edit(arg), Accepted(arg)
        PROVE  TypeOK'
    <3> DEFINE p == ResolvePath(cwd, Normalize(arg))
    <3>1. p \in Seq(Names)
      BY <2>5, AcceptedPath
    <3>2. Normalize(arg).absolute \in BOOLEAN /\ Normalize(arg).items \in Seq(Names \cup {Up})
      BY <2>5, NormalizeType DEF Items
    <3>3. editor_buffer' \in Contents
      <4>1. editor_buffer' = IF Exists(p) THEN tree[p] ELSE Empty
        BY <2>5 DEF Edit
      <4>2. Exists(p) => tree[p] \in Contents
        BY <1>t DEF Exists, Files!IsFile, Files!TypeOK
      <4>. QED  BY <1>f, <4>1, <4>2
    <3>4. /\ mode' = "editor" /\ reply' = "none" /\ opened' = p /\ UNCHANGED cwd
          /\ editor_filename' = Normalize(arg) /\ save_pending' = FALSE /\ armed' = FALSE
      BY <2>5 DEF Edit, Disarm
    <3>. QED  BY <1>t, <1>r, <3>1, <3>2, <3>3, <3>4 DEF TypeOK
  <2>6. ASSUME NEW arg \in Args, Edit(arg), ~Accepted(arg)
        PROVE  TypeOK'
    BY <1>s, <1>r, <2>6 DEF Edit, Tell
  <2>. QED
    BY <1>1, <2>1, <2>2, <2>3, <2>4, <2>5, <2>6 DEF Command
<1>2. CASE EditorKey
  <2>1. CASE EditText
    BY <1>t, <1>r, <2>1 DEF EditText, TypeOK, history
  <2>2. CASE CtrlS
    BY <1>t, <1>r, <2>2 DEF CtrlS, TypeOK
  <2>3. CASE ~save_pending /\ UNCHANGED tree /\ Tell("error")
    BY <1>s, <1>r, <2>3 DEF Tell
  <2>4. CASE Close /\ reply' \in Replies /\ save_pending' \in BOOLEAN
    BY <1>t, <1>f, <2>4 DEF Close, TypeOK
  <2>5. Save => reply' \in Replies
    BY <1>r DEF Save
  <2>6. save_pending \in BOOLEAN
    BY DEF TypeOK
  <2>. QED
    BY <1>2, <1>r, <2>1, <2>2, <2>3, <2>4, <2>5, <2>6
    DEF EditorKey, CtrlK, EnterWriteQuit, EnterQuit, Escape
<1>3. CASE UNCHANGED vars
  BY <1>3, <1>s DEF vars, TypeOK
<1>. QED  BY <1>1, <1>2, <1>3 DEF Next

\* Whatever is typed, the shell and its editor keep their variables in
\* range; in particular the working directory never holds "..".
THEOREM ShellTypeCorrect == Spec => []TypeOK
<1>1. Init => TypeOK
  <2>. SUFFICES ASSUME Init PROVE TypeOK
    OBVIOUS
  <2>1. Files!TypeOK
    BY DEF Init, Files!Init, Files!TypeOK
  <2>2. Empty \in Contents /\ "none" \in Replies /\ <<>> \in Seq(Names)
        /\ NoFile.absolute \in BOOLEAN /\ NoFile.items \in Seq(Names \cup {Up})
    BY ContentAssumption DEF Replies, NoFile
  <2>. QED  BY <2>1, <2>2 DEF Init, TypeOK
<1>. QED  BY <1>1, ShellTypeStep, PTL DEF Spec

\* Every argument, however long, means what a reader would take it to mean,
\* in every directory the shell can be in.
THEOREM AlwaysLexical == Spec => []ResolveIsLexical
BY ShellTypeCorrect, Lexical, PTL

\* Commands and editor change the filesystem only by its own operations, on
\* the paths they name.
THEOREM CommandsAreOperations == Spec => TreeRefinement
<1>1. Init => Files!Init
  BY DEF Init
<1>. QED  BY <1>1, TreeStep, ShellTypeCorrect, PTL DEF Spec, TreeRefinement, Files!Spec

\* So no command line and no save ever leaves a node that cannot be reached
\* from the root.
THEOREM ShellKeepsTreeClosed == Spec => []Files!TreeClosed
BY CommandsAreOperations, AlwaysClosed, PTL DEF TreeRefinement

-----------------------------------------------------------------------------
(* The editor *)

\* While a file is being edited, its path leads where it led when it was
\* opened: nothing that moves the working directory runs in the editor.
TargetFixed == mode = "editor" => ResolvePath(cwd, editor_filename) = opened

LEMMA TargetStep == TargetFixed /\ [Next]_vars => TargetFixed'
<1>. SUFFICES ASSUME TargetFixed, [Next]_vars PROVE TargetFixed'
  OBVIOUS
<1>. USE DEF TargetFixed
<1>1. CASE Command
  <2>. USE <1>1 DEF Command
  <2>1. ASSUME NEW arg \in Args, Edit(arg)
        PROVE  TargetFixed'
    BY <2>1 DEF Edit, Disarm, Tell
  <2>2. CASE mode' = mode
    BY <2>2
  <2>. QED
    BY <2>1, <2>2
    DEF Back, GitClone, ChangeDirectory, MakeFolder, Create, Write, Delete, Try, Tell
<1>2. CASE EditorKey
  BY <1>2 DEF EditorKey, EditText, CtrlS, CtrlK, EnterWriteQuit, EnterQuit, Escape,
              Close, Tell, editor, history
<1>3. CASE UNCHANGED vars
  BY <1>3 DEF vars, editor, history
<1>. QED  BY <1>1, <1>2, <1>3 DEF Next

LEMMA ArmedStep == ArmedInThisSession /\ [Next]_vars => ArmedInThisSession'
<1>. SUFFICES ASSUME ArmedInThisSession, [Next]_vars PROVE ArmedInThisSession'
  OBVIOUS
<1>. USE DEF ArmedInThisSession
<1>1. CASE Command
  <2>. USE <1>1 DEF Command
  <2>1. ASSUME NEW arg \in Args, Edit(arg)
        PROVE  ArmedInThisSession'
    BY <2>1 DEF Edit, Disarm, Tell
  <2>2. CASE mode' = mode
    BY <2>2
  <2>. QED
    BY <2>1, <2>2
    DEF Back, GitClone, ChangeDirectory, MakeFolder, Create, Write, Delete, Try, Tell
<1>2. CASE EditorKey
  BY <1>2 DEF EditorKey, EditText, CtrlS, CtrlK, EnterWriteQuit, EnterQuit, Escape,
              Close, Tell, editor, history
<1>3. CASE UNCHANGED vars
  BY <1>3 DEF vars, editor, history
<1>. QED  BY <1>1, <1>2, <1>3 DEF Next

\* A key in the editor that saves puts the text where the path leads; every
\* other key leaves the tree as it is.
LEMMA SaveStep ==
  ASSUME TargetFixed, mode = "editor", Next, tree' # tree \/ reply' = "saved"
  PROVE  /\ opened \in DOMAIN tree' /\ tree'[opened] = editor_buffer
         /\ \A p \in DOMAIN tree \cup DOMAIN tree' :
              p # opened => p \in DOMAIN tree /\ p \in DOMAIN tree' /\ tree'[p] = tree[p]
<1>1. EditorKey
  BY DEF Next, Command
<1>2. CASE Save
  <2>1. Files!Put(opened, editor_buffer)
    BY <1>2 DEF Save, SavePath, TargetFixed, Files!WriteFile
  <2>. QED  BY <2>1 DEF Files!Put
<1>3. CASE UNCHANGED tree /\ reply' # "saved"
  BY <1>3
<1>. QED
  BY <1>1, <1>2, <1>3
  DEF EditorKey, EditText, CtrlS, CtrlK, EnterWriteQuit, EnterQuit, Escape, Tell

\* What edit opens is a file afterwards, made if need be, unless its directory
\* is missing or a directory has its name.
LEMMA OpenStep ==
  ASSUME NEW p, Ensure(p), Files!IsDirectory(Files!Parent(p))', ~Files!IsDirectory(p)'
  PROVE  Files!IsFile(p)'
<1>1. CASE Files!CreateFile(p)
  <2>1. tree' = [q \in DOMAIN tree \cup {p} |-> IF q = p THEN Empty ELSE tree[q]]
    BY <1>1 DEF Files!CreateFile, Files!Put
  <2>2. p \in DOMAIN tree' /\ tree'[p] = Empty
    BY <2>1
  <2>. QED  BY <2>2, ContentAssumption DEF Files!IsFile
<1>2. CASE UNCHANGED tree
  <2>1. Files!IsDirectory(Files!Parent(p)) /\ ~Files!IsDirectory(p)
    BY <1>2 DEF Files!IsDirectory, Files!Parent
  <2>2. Exists(p) \/ ~Files!MayCreate(p)
    <3>1. Files!CreateFile(p) => Files!MayCreate(p)
      BY DEF Files!CreateFile
    <3>2. Files!CreateFile(p) => p \in DOMAIN tree'
      BY DEF Files!CreateFile, Files!Put
    <3>. QED  BY <1>2, <3>1, <3>2 DEF Ensure, Files!MayCreate
  <2>3. Files!IsFile(p)
    BY <2>1, <2>2 DEF Exists, Files!MayCreate, Files!IsDirectory, Files!IsFile
  <2>. QED  BY <1>2, <2>3 DEF Files!IsFile
<1>. QED  BY <1>1, <1>2 DEF Ensure

LEMMA FileStep == OpenedFileStays /\ [Next]_vars => OpenedFileStays'
<1>. SUFFICES ASSUME OpenedFileStays, [Next]_vars PROVE OpenedFileStays'
  OBVIOUS
<1>1. CASE Command
  <2>. USE <1>1 DEF Command
  <2>1. ASSUME NEW arg \in Args, Edit(arg), mode' = "editor"
        PROVE  OpenedFileStays'
    <3>1. Ensure(ResolvePath(cwd, Normalize(arg))) /\ opened' = ResolvePath(cwd, Normalize(arg))
      BY <2>1 DEF Edit, Tell
    <3>. QED  BY <3>1, OpenStep DEF OpenedFileStays
  <2>2. CASE mode' # "editor"
    BY <2>2 DEF OpenedFileStays
  <2>. QED
    BY <2>1, <2>2
    DEF Back, GitClone, ChangeDirectory, MakeFolder, Create, Write, Delete, Try, Tell
<1>2. CASE EditorKey
  <2>1. \/ mode' = "command"
        \/ UNCHANGED <<tree, mode, opened>>
    BY <1>2 DEF EditorKey, EditText, CtrlS, CtrlK, EnterWriteQuit, EnterQuit, Escape,
                Close, Tell, history
  <2>. QED
    BY <2>1 DEF OpenedFileStays, Files!IsFile, Files!IsDirectory, Files!Parent
<1>3. CASE UNCHANGED vars
  BY <1>3 DEF vars, history, OpenedFileStays, Files!IsFile, Files!IsDirectory, Files!Parent
<1>. QED  BY <1>1, <1>2, <1>3 DEF Next

\* No sequence of sessions leaves the save flag set for the next file.
THEOREM AlwaysArmedHere == Spec => []ArmedInThisSession
<1>1. Init => ArmedInThisSession
  BY DEF Init, ArmedInThisSession
<1>. QED  BY <1>1, ArmedStep, PTL DEF Spec

\* Whatever was done before, the editor writes to the file it opened and to
\* no other.
THEOREM AlwaysSavesWhatWasOpened == Spec => SavesWhatWasOpened
<1>1. Init => TargetFixed
  BY DEF Init, TargetFixed
<1>2. TargetFixed /\ [Next]_vars =>
        [mode = "editor" /\ (tree' # tree \/ reply' = "saved") =>
           /\ opened \in DOMAIN tree' /\ tree'[opened] = editor_buffer
           /\ \A p \in DOMAIN tree \cup DOMAIN tree' :
                p # opened => p \in DOMAIN tree /\ p \in DOMAIN tree' /\ tree'[p] = tree[p]]_vars
  BY SaveStep
<1>. QED  BY <1>1, <1>2, TargetStep, PTL DEF Spec, SavesWhatWasOpened

\* Whatever edit opened is there to be saved until the editor is left.
THEOREM AlwaysOpenedFileStays == Spec => []OpenedFileStays
<1>1. Init => OpenedFileStays
  BY DEF Init, OpenedFileStays
<1>. QED  BY <1>1, FileStep, PTL DEF Spec
=============================================================================

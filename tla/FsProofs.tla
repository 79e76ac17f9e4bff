------------------------------ MODULE FsProofs ------------------------------
(***************************************************************************)
(* Proofs about Fs and Initramfs, for every set of names, paths, contents  *)
(* and archives and for any number of nodes.                               *)
(***************************************************************************)
EXTENDS Initramfs, FiniteSetTheorems, SequenceTheorems, WellFoundedInduction, TLAPS

-----------------------------------------------------------------------------
(* Paths.                                                                  *)

\* Every non-empty set of numbers has a least one.
LEMMA LeastNumber ==
    ASSUME NEW T, T \subseteq Nat, T # {}
    PROVE  \E x \in T : \A y \in T : x <= y
  <1>1. PICK x \in T : \A y \in T : ~ (<<y, x>> \in OpToRel(<, Nat))
    BY NatLessThanWellFounded, WFMin
  <1>2. \A y \in T : ~ (y < x)
    BY <1>1 DEF OpToRel
  <1> QED BY <1>2

Start == [status |-> "FS_SUCCESS", file |-> root]

\* g follows path for N components
IsWalk(g, t, path, N) ==
    /\ g = [i \in 0 .. N |-> g[i]]
    /\ g[0] = Start /\ \A n \in 1 .. N : g[n] = Step(t, g[n - 1], path[n])

\* There is a function that follows a path: the definition of Walk has a
\* solution.
LEMMA WalkExists ==
    ASSUME NEW t, NEW path, NEW N \in Nat
    PROVE  \E g : IsWalk(g, t, path, N)
  <1> DEFINE Walks(k) == \E g : IsWalk(g, t, path, k)
             Bad == {k \in Nat : ~Walks(k)}
  <1>1. Walks(0)
    <2> DEFINE g == [i \in 0 .. 0 |-> Start]
    <2>1. g = [i \in 0 .. 0 |-> g[i]]
      OBVIOUS
    <2>2. g[0] = Start /\ \A n \in 1 .. 0 : g[n] = Step(t, g[n - 1], path[n])
      OBVIOUS
    <2> HIDE DEF g
    <2> QED BY <2>1, <2>2 DEF IsWalk
  <1>2. ASSUME NEW k \in Nat \ {0}, Walks(k - 1)
        PROVE  Walks(k)
    <2>1. PICK g : /\ g = [i \in 0 .. (k - 1) |-> g[i]]
                   /\ g[0] = Start /\ \A n \in 1 .. (k - 1) : g[n] = Step(t, g[n - 1], path[n])
      BY <1>2 DEF IsWalk
    <2> DEFINE h == [i \in 0 .. k |-> IF i < k THEN g[i] ELSE Step(t, g[k - 1], path[k])]
    <2>2. h = [i \in 0 .. k |-> h[i]]
      OBVIOUS
    <2>3. h[0] = Start
      BY <2>1
    <2>4. ASSUME NEW n \in 1 .. k PROVE h[n] = Step(t, h[n - 1], path[n])
      <3>1. CASE n < k
        <4>1. h[n] = g[n] /\ h[n - 1] = g[n - 1] /\ n \in 1 .. (k - 1)
          BY <3>1
        <4> QED BY <4>1, <2>1
      <3>2. CASE n = k
        BY <3>2
      <3> QED BY <3>1, <3>2
    <2> HIDE DEF h
    <2>5. IsWalk(h, t, path, k)
      BY <2>2, <2>3, <2>4 DEF IsWalk
    <2> QED BY <2>5
  <1> HIDE DEF Walks
  <1>3. Bad = {}
    <2> SUFFICES ASSUME Bad # {} PROVE FALSE
      OBVIOUS
    <2>1. PICK k \in Bad : \A j \in Bad : k <= j
      BY LeastNumber
    <2>2. k \in Nat \ {0} /\ k - 1 \in Nat /\ k - 1 \notin Bad
      BY <2>1, <1>1
    <2> QED BY <2>1, <2>2, <1>2
  <1>4. Walks(N)
    BY <1>3
  <1> QED BY <1>4 DEF Walks

\* Walk takes one Step per component.
LEMMA WalkSteps ==
    ASSUME NEW t, NEW path, Len(path) \in Nat
    PROVE  /\ Walk(t, path)[0] = Start
           /\ \A n \in 1 .. Len(path) : Walk(t, path)[n] = Step(t, Walk(t, path)[n - 1], path[n])
  <1>1. PICK N \in Nat : N = Len(path)
    OBVIOUS
  <1> DEFINE Rec(f) == [n \in 0 .. N |-> IF n = 0 THEN [status |-> "FS_SUCCESS", file |-> root]
                                          ELSE Step(t, f[n - 1], path[n])]
  <1>2. PICK g : IsWalk(g, t, path, N)
    BY WalkExists
  <1>3. g = Rec(g)
    <2>1. ASSUME NEW n \in 0 .. N
          PROVE  g[n] = IF n = 0 THEN [status |-> "FS_SUCCESS", file |-> root]
                        ELSE Step(t, g[n - 1], path[n])
      <3>1. CASE n = 0
        BY <3>1, <1>2 DEF Start, IsWalk
      <3>2. CASE n # 0
        <4>1. n \in 1 .. N
          BY <3>2
        <4> QED BY <4>1, <3>2, <1>2 DEF IsWalk
      <3> QED BY <3>1, <3>2
    <2> QED BY <2>1, <1>2 DEF IsWalk
  <1>4. Walk(t, path) = CHOOSE f : f = Rec(f)
    BY <1>1 DEF Walk
  <1>5. Walk(t, path) = Rec(Walk(t, path))
    <2> HIDE DEF Rec
    <2> QED BY <1>3, <1>4
  <1>6. PICK f : f = Walk(t, path)
    OBVIOUS
  <1>7. f = Rec(f)
    BY <1>5, <1>6
  <1>8. f[0] = Start
    BY <1>7 DEF Start
  <1>9. ASSUME NEW n \in 1 .. N PROVE f[n] = Step(t, f[n - 1], path[n])
    <2>1. n \in 0 .. N /\ n # 0
      OBVIOUS
    <2> QED BY <2>1, <1>7
  <1> QED BY <1>1, <1>6, <1>8, <1>9

\* Two trees in which each step from where the path leads is the same one lead
\* to the same place.
LEMMA SameWalk ==
    ASSUME NEW t, NEW t1, NEW p, NEW p1, NEW N \in Nat, Len(p) \in Nat, Len(p1) \in Nat,
           N <= Len(p), N <= Len(p1), \A n \in 1 .. N : p1[n] = p[n],
           \A n \in 1 .. N : Step(t1, Walk(t, p)[n - 1], p[n]) = Walk(t, p)[n]
    PROVE  \A n \in 0 .. N : Walk(t1, p1)[n] = Walk(t, p)[n]
  <1> DEFINE Bad == {n \in 0 .. N : Walk(t1, p1)[n] # Walk(t, p)[n]}
  <1> SUFFICES ASSUME Bad # {} PROVE FALSE
    OBVIOUS
  <1>1. PICK k \in Bad : \A j \in Bad : k <= j
    <2>1. Bad \subseteq Nat
      OBVIOUS
    <2> HIDE DEF Bad
    <2> QED BY <2>1, LeastNumber
  <1>2. k # 0
    <2>1. Walk(t1, p1)[0] = Start /\ Walk(t, p)[0] = Start
      BY WalkSteps
    <2> QED BY <2>1, <1>1
  <1>3. k \in 1 .. N /\ k - 1 \in 0 .. N /\ k - 1 \notin Bad
    BY <1>1, <1>2
  <1>4. Walk(t1, p1)[k] = Step(t1, Walk(t1, p1)[k - 1], p1[k])
    BY <1>3, WalkSteps
  <1>5. Walk(t1, p1)[k - 1] = Walk(t, p)[k - 1]
    BY <1>3
  <1> QED BY <1>1, <1>3, <1>4, <1>5

\* After an error parse_path goes on to nothing else.
LEMMA ErrorSticks ==
    ASSUME NEW t, NEW p, Len(p) \in Nat, NEW k \in 0 .. Len(p), Walk(t, p)[k].status # "FS_SUCCESS"
    PROVE  \A n \in k .. Len(p) : Walk(t, p)[n].status # "FS_SUCCESS"
  <1> DEFINE Bad == {n \in k .. Len(p) : Walk(t, p)[n].status = "FS_SUCCESS"}
  <1> SUFFICES ASSUME Bad # {} PROVE FALSE
    OBVIOUS
  <1>1. PICK j \in Bad : \A i \in Bad : j <= i
    <2>1. Bad \subseteq Nat
      OBVIOUS
    <2> HIDE DEF Bad
    <2> QED BY <2>1, LeastNumber
  <1>2. j \in 1 .. Len(p) /\ j - 1 \in k .. Len(p) /\ j - 1 \notin Bad
    <2>1. j \in Nat /\ k \in Nat /\ j >= k /\ j <= Len(p) /\ j # k
      BY <1>1
    <2>2. j - 1 \in k .. Len(p) /\ j \in 1 .. Len(p)
      BY <2>1
    <2>3. j - 1 \notin Bad
      BY <2>1, <1>1
    <2> QED BY <2>2, <2>3
  <1>3. Walk(t, p)[j] = Walk(t, p)[j - 1]
    BY <1>2, WalkSteps DEF Step
  <1> QED BY <1>1, <1>2, <1>3

-----------------------------------------------------------------------------
(* Trees.                                                                  *)

IsNode(r) ==
    /\ r = [name |-> r.name, parent |-> r.parent, dir |-> r.dir, data |-> r.data]
    /\ r.dir \in BOOLEAN /\ r.data \in Seq(Nat)

\* What a tree is made of.
IsFs(t) ==
    /\ t = [node |-> t.node, children |-> t.children, blocks |-> t.blocks]
    /\ t.node = [n \in DOMAIN t.node |-> t.node[n]]
    /\ root \in DOMAIN t.node /\ DOMAIN t.node \subseteq Nodes \cup {root}
    /\ IsFiniteSet(DOMAIN t.node)
    /\ \A n \in DOMAIN t.node : IsNode(t.node[n])
    /\ t.children \in [DOMAIN t.node -> Seq(Nodes)]
    /\ t.node[root].parent = root /\ t.node[root].dir
    /\ t.blocks \in Int

Good(t) == IsFs(t) /\ IsTree(t)

\* The children of d by that name, without the lists.
Kids(t, d, x) == {c \in FilesOf(t) : t.node[c].parent = d /\ t.node[c].name = x}

\* In a tree the lists hold the children, and there is at most one of a name.
LEMMA ChildIsKid ==
    ASSUME NEW t, Good(t), NEW d \in DOMAIN t.node, NEW x
    PROVE  /\ Child(t, d, x) = Kids(t, d, x)
           /\ \A a, b \in Kids(t, d, x) : a = b
  <1>1. ASSUME NEW c \in Child(t, d, x) PROVE c \in Kids(t, d, x)
    <2>1. PICK i \in DOMAIN t.children[d] : c = t.children[d][i] /\ t.node[c].name = x
      BY <1>1 DEF Child
    <2>2. c \in FilesOf(t) /\ t.node[c].parent = d
      BY <2>1 DEF Good, IsTree
    <2> QED BY <2>1, <2>2 DEF Kids
  <1>2. ASSUME NEW c \in Kids(t, d, x) PROVE c \in Child(t, d, x)
    <2>1. c \in FilesOf(t) /\ t.node[c].parent = d /\ t.node[c].name = x
      BY <1>2 DEF Kids
    <2>2. PICK i \in DOMAIN t.children[d] : t.children[d][i] = c
      BY <2>1 DEF Good, IsTree
    <2> QED BY <2>1, <2>2 DEF Child
  <1>3. ASSUME NEW a \in Kids(t, d, x), NEW b \in Kids(t, d, x) PROVE a = b
    BY <1>3 DEF Kids, Good, IsTree
  <1> QED BY <1>1, <1>2, <1>3

\* Every parent is a node.
LEMMA ParentsInside ==
    ASSUME NEW t, Good(t), NEW n \in DOMAIN t.node
    PROVE  t.node[n].parent \in DOMAIN t.node
  <1>1. CASE n = root
    BY <1>1 DEF Good, IsFs
  <1>2. CASE n # root
    BY <1>2 DEF Good, IsTree, FilesOf
  <1> QED BY <1>1, <1>2

At(s, x) == [status |-> s, file |-> x]

\* A step from a node, without the lists.
LEMMA StepFrom ==
    ASSUME NEW t, Good(t), NEW x \in DOMAIN t.node, NEW c
    PROVE  /\ c = Dot => Step(t, At("FS_SUCCESS", x), c) = At("FS_SUCCESS", x)
           /\ c = DotDot => Step(t, At("FS_SUCCESS", x), c) = At("FS_SUCCESS", t.node[x].parent)
           /\ c \notin {Dot, DotDot} /\ t.node[x].dir =>
                \A k \in Kids(t, x, c) : Step(t, At("FS_SUCCESS", x), c) = At("FS_SUCCESS", k)
           /\ c \notin {Dot, DotDot} /\ (~t.node[x].dir \/ Kids(t, x, c) = {}) =>
                \E s : s # "FS_SUCCESS" /\ Step(t, At("FS_SUCCESS", x), c) = At(s, x)
  <1>1. c = Dot => Step(t, At("FS_SUCCESS", x), c) = At("FS_SUCCESS", x)
    BY DEF Step, At
  <1>2. c = DotDot => Step(t, At("FS_SUCCESS", x), c) = At("FS_SUCCESS", t.node[x].parent)
    BY DEF Step, At, Dot, DotDot
  <1>3. ASSUME c \notin {Dot, DotDot}, t.node[x].dir, NEW k \in Kids(t, x, c)
        PROVE  Step(t, At("FS_SUCCESS", x), c) = At("FS_SUCCESS", k)
    <2>1. Child(t, x, c) = {k}
      BY <1>3, ChildIsKid
    <2>2. (CHOOSE a \in Child(t, x, c) : TRUE) = k
      BY <2>1
    <2> QED BY <1>3, <2>1, <2>2 DEF Step, At
  <1>4. ASSUME c \notin {Dot, DotDot}, ~t.node[x].dir \/ Kids(t, x, c) = {}
        PROVE  \E s : s # "FS_SUCCESS" /\ Step(t, At("FS_SUCCESS", x), c) = At(s, x)
    <2>1. Child(t, x, c) = Kids(t, x, c)
      BY ChildIsKid
    <2>2. CASE ~t.node[x].dir
      <3>1. Step(t, At("FS_SUCCESS", x), c) = At("FS_NOT_A_DIR", x)
        BY <1>4, <2>2 DEF Step, At
      <3> QED BY <3>1
    <2>3. CASE t.node[x].dir
      <3>1. Step(t, At("FS_SUCCESS", x), c) = At("FS_NOT_FOUND", x)
        BY <1>4, <2>1, <2>3 DEF Step, At
      <3> QED BY <3>1
    <2> QED BY <2>2, <2>3
  <1> QED BY <1>1, <1>2, <1>3, <1>4

\* parse_path only ever stands on nodes.
LEMMA WalkInside ==
    ASSUME NEW t, Good(t), NEW p, Len(p) \in Nat
    PROVE  \A n \in 0 .. Len(p) : \E s : \E x \in DOMAIN t.node : Walk(t, p)[n] = At(s, x)
  <1> DEFINE Fine(n) == \E s : \E x \in DOMAIN t.node : Walk(t, p)[n] = At(s, x)
             Bad == {n \in 0 .. Len(p) : ~Fine(n)}
  <1>1. Fine(0)
    <2>1. Walk(t, p)[0] = At("FS_SUCCESS", root)
      BY WalkSteps DEF Start, At
    <2>2. root \in DOMAIN t.node
      BY DEF Good, IsFs
    <2> QED BY <2>1, <2>2
  <1>2. ASSUME NEW n \in 1 .. Len(p), Fine(n - 1) PROVE Fine(n)
    <2>1. PICK s : \E x \in DOMAIN t.node : Walk(t, p)[n - 1] = At(s, x)
      BY <1>2
    <2>2. PICK x \in DOMAIN t.node : Walk(t, p)[n - 1] = At(s, x)
      BY <2>1
    <2>3. Walk(t, p)[n] = Step(t, At(s, x), p[n])
      BY <2>2, WalkSteps
    <2>4. CASE s # "FS_SUCCESS"
      <3>1. Step(t, At(s, x), p[n]) = At(s, x)
        BY <2>4 DEF Step, At
      <3> QED BY <3>1, <2>3
    <2>5. CASE s = "FS_SUCCESS"
      <3>1. CASE p[n] \in {Dot, DotDot}
        BY <3>1, <2>3, <2>5, StepFrom, ParentsInside
      <3>2. CASE p[n] \notin {Dot, DotDot}
        <4>1. CASE t.node[x].dir /\ Kids(t, x, p[n]) # {}
          <5>1. PICK k \in Kids(t, x, p[n]) : TRUE
            BY <4>1
          <5>2. k \in DOMAIN t.node
            BY DEF Kids, FilesOf
          <5>3. Step(t, At(s, x), p[n]) = At("FS_SUCCESS", k)
            BY <3>2, <4>1, <2>5, StepFrom
          <5> QED BY <5>2, <5>3, <2>3
        <4>2. CASE ~t.node[x].dir \/ Kids(t, x, p[n]) = {}
          <5>1. PICK s1 : Step(t, At(s, x), p[n]) = At(s1, x)
            BY <3>2, <4>2, <2>5, StepFrom
          <5> QED BY <5>1, <2>3
        <4> QED BY <4>1, <4>2
      <3> QED BY <3>1, <3>2
    <2> QED BY <2>4, <2>5
  <1> HIDE DEF Fine
  <1> SUFFICES ASSUME Bad # {} PROVE FALSE
    BY DEF Fine
  <1>3. PICK k \in Bad : \A j \in Bad : k <= j
    <2>1. Bad \subseteq Nat
      OBVIOUS
    <2> HIDE DEF Bad
    <2> QED BY <2>1, LeastNumber
  <1>4. k \in 1 .. Len(p) /\ k - 1 \in 0 .. Len(p) /\ k - 1 \notin Bad
    BY <1>1, <1>3
  <1> QED BY <1>2, <1>3, <1>4

\* Where a path leads that parse_path can follow.
LEMMA PathLeads ==
    ASSUME NEW t, Good(t), NEW p, Len(p) \in Nat, parse_path(t, p).status = "FS_SUCCESS"
    PROVE  /\ parse_path(t, p).file \in DOMAIN t.node
           /\ \A n \in 0 .. Len(p) :
                /\ Walk(t, p)[n].file \in DOMAIN t.node
                /\ Walk(t, p)[n] = At("FS_SUCCESS", Walk(t, p)[n].file)
  <1>1. ASSUME NEW n \in 0 .. Len(p)
        PROVE  /\ Walk(t, p)[n].file \in DOMAIN t.node
               /\ Walk(t, p)[n] = At("FS_SUCCESS", Walk(t, p)[n].file)
    <2>1. PICK s : \E x \in DOMAIN t.node : Walk(t, p)[n] = At(s, x)
      BY WalkInside
    <2>2. PICK x \in DOMAIN t.node : Walk(t, p)[n] = At(s, x)
      BY <2>1
    <2>3. s = "FS_SUCCESS"
      <3> SUFFICES ASSUME s # "FS_SUCCESS" PROVE FALSE
        OBVIOUS
      <3>1. Walk(t, p)[n].status # "FS_SUCCESS"
        BY <2>2 DEF At
      <3>2. Len(p) \in n .. Len(p)
        OBVIOUS
      <3>3. Walk(t, p)[Len(p)].status # "FS_SUCCESS"
        BY <3>1, <3>2, ErrorSticks
      <3> QED BY <3>3 DEF parse_path
    <2> QED BY <2>2, <2>3 DEF At
  <1>2. Len(p) \in 0 .. Len(p)
    OBVIOUS
  <1> QED BY <1>1, <1>2 DEF parse_path

-----------------------------------------------------------------------------
(* What each operation does to the tree.                                   *)

\* t1 is t with the heap's count set to b.
Counted(t, t1, b) ==
    t1 = [node |-> t.node, children |-> t.children, blocks |-> b] /\ b \in Int

\* The heap's count does not make a tree.
LEMMA CountedGood ==
    ASSUME NEW t, Good(t), NEW t1, NEW b, Counted(t, t1, b)
    PROVE  Good(t1) /\ t1.blocks = b /\ HeldBlocks(t1) = HeldBlocks(t)
  <1>1. t1.node = t.node /\ t1.children = t.children /\ t1.blocks = b /\ b \in Int
    BY DEF Counted
  <1>2. IsFs(t1)
    BY <1>1 DEF Good, IsFs, Counted
  <1>3. IsTree(t1)
    BY <1>1 DEF Good, IsTree, FilesOf
  <1>4. HeldBlocks(t1) = HeldBlocks(t)
    BY <1>1 DEF HeldBlocks, FilesOf
  <1> QED BY <1>1, <1>2, <1>3, <1>4 DEF Good

\* Leaving a function counts the blocks.
LEMMA ExitCounts ==
    ASSUME NEW t, IsFs(t), NEW s, NEW taken \in Nat, NEW freed \in Nat
    PROVE  /\ Counted(t, Exit(t, s, taken, freed).fs, t.blocks + taken - freed)
           /\ Exit(t, s, taken, freed).ret = s
           /\ taken = freed => Exit(t, s, taken, freed).fs = t
  <1>1. t.blocks \in Int /\ t = [node |-> t.node, children |-> t.children, blocks |-> t.blocks]
    BY DEF IsFs
  <1>2. Exit(t, s, taken, freed).fs
           = [node |-> t.node, children |-> t.children, blocks |-> t.blocks + taken - freed]
    BY <1>1 DEF Exit
  <1>3. t.blocks + taken - freed \in Int /\ (taken = freed => t.blocks + taken - freed = t.blocks)
    BY <1>1
  <1>4. taken = freed => Exit(t, s, taken, freed).fs = t
    BY <1>1, <1>2, <1>3
  <1> QED BY <1>2, <1>3, <1>4 DEF Counted, Exit

\* t1 is t with the new node f in front of dir's children.
Linked(t, t1, dir, f, file) ==
    /\ t1 = [node |-> t1.node, children |-> t1.children, blocks |-> t.blocks]
    /\ t1.node = [n \in DOMAIN t.node \cup {f} |-> IF n = f THEN file ELSE t.node[n]]
    /\ t1.children = [n \in DOMAIN t.node \cup {f} |->
                        IF n = f THEN <<>>
                        ELSE IF n = dir THEN <<f>> \o t.children[n] ELSE t.children[n]]

\* New nodes and lists, and the heap's count as it was.
LEMMA PutBoth ==
    ASSUME NEW t, IsFs(t), NEW x, NEW y
    PROVE  [t EXCEPT !.node = x, !.children = y] = [node |-> x, children |-> y, blocks |-> t.blocks]
  <1>1. PICK nd, ch, b : nd = t.node /\ ch = t.children /\ b = t.blocks
    OBVIOUS
  <1>2. t = [node |-> nd, children |-> ch, blocks |-> b]
    BY <1>1 DEF IsFs
  <1>3. PICK u : u = [t EXCEPT !.node = x]
    OBVIOUS
  <1>4. u = [node |-> x, children |-> ch, blocks |-> b]
    BY <1>2, <1>3
  <1>5. [u EXCEPT !.children = y] = [node |-> x, children |-> y, blocks |-> b]
    BY <1>4
  <1>6. [t EXCEPT !.node = x, !.children = y] = [u EXCEPT !.children = y]
    BY <1>3
  <1> QED BY <1>1, <1>5, <1>6

\* What link_child writes.
LEMMA LinkChild ==
    ASSUME NEW t, Good(t), NEW dir, NEW f, NEW file
    PROVE  Linked(t, link_child(t, dir, f, file), dir, f, file)
  <1> DEFINE X == [n \in DOMAIN t.node \cup {f} |-> IF n = f THEN file ELSE t.node[n]]
             Y == [n \in DOMAIN t.children \cup {f} |->
                     IF n = f THEN <<>> ELSE IF n = dir THEN <<f>> \o t.children[n] ELSE t.children[n]]
  <1>1. link_child(t, dir, f, file) = [t EXCEPT !.node = X, !.children = Y]
    BY DEF link_child
  <1>2. DOMAIN t.children = DOMAIN t.node
    BY DEF Good, IsTree
  <1>3. PICK x, y : x = X /\ y = Y
    OBVIOUS
  <1>4. [t EXCEPT !.node = x, !.children = y] = [node |-> x, children |-> y, blocks |-> t.blocks]
    BY PutBoth DEF Good
  <1> QED BY <1>1, <1>2, <1>3, <1>4 DEF Linked

\* A list with one more child in front.
LEMMA InFront ==
    ASSUME NEW list \in Seq(Nodes), NEW f \in Nodes, NEW long, long = <<f>> \o list
    PROVE  /\ long \in Seq(Nodes) /\ DOMAIN long = 1 .. Len(list) + 1 /\ long[1] = f
           /\ \A i \in 1 .. Len(list) : long[i + 1] = list[i]
           /\ DOMAIN list = 1 .. Len(list) /\ Len(list) \in Nat
  OBVIOUS

\* A new node in a directory that has none of its name keeps the tree.
LEMMA LinkKeeps ==
    ASSUME NEW t, Good(t), NEW dir \in DOMAIN t.node, t.node[dir].dir,
           NEW f \in Nodes \ DOMAIN t.node, NEW file, IsNode(file), file.parent = dir,
           Kids(t, dir, file.name) = {}, NEW t1, Linked(t, t1, dir, f, file)
    PROVE  /\ Good(t1) /\ t1.blocks = t.blocks
           /\ HeldBlocks(t1) = HeldBlocks(t) + NodeBlocks(file.data)
  <1>1. f # root /\ f \notin DOMAIN t.node /\ f # dir
    BY FsAssumption
  <1>2. PICK D : D = DOMAIN t.node
    OBVIOUS
  <1>3. /\ DOMAIN t1.node = D \cup {f} /\ DOMAIN t1.children = D \cup {f}
        /\ t1.node[f] = file /\ t1.children[f] = <<>>
        /\ t1.children[dir] = <<f>> \o t.children[dir]
        /\ \A n \in D : t1.node[n] = t.node[n] /\ (n # dir => t1.children[n] = t.children[n])
    BY <1>1, <1>2 DEF Linked
  <1>4. /\ \A n \in D : t.children[n] \in Seq(Nodes)
        /\ root \in D /\ D \subseteq Nodes \cup {root} /\ IsFiniteSet(D)
    BY <1>2 DEF Good, IsFs
  <1>5. PICK list, long : list = t.children[dir] /\ long = t1.children[dir]
    OBVIOUS
  <1>6. /\ long \in Seq(Nodes) /\ DOMAIN long = 1 .. Len(list) + 1 /\ long[1] = f
        /\ \A i \in 1 .. Len(list) : long[i + 1] = list[i]
        /\ DOMAIN list = 1 .. Len(list) /\ Len(list) \in Nat
    BY <1>2, <1>3, <1>4, <1>5, InFront
  <1>7. IsFs(t1)
    <2>1. t1.children \in [D \cup {f} -> Seq(Nodes)]
      <3>1. \A n \in D \cup {f} : t1.children[n] \in Seq(Nodes)
        <4> SUFFICES ASSUME NEW n \in D \cup {f} PROVE t1.children[n] \in Seq(Nodes)
          OBVIOUS
        <4>1. <<>> \in Seq(Nodes)
          OBVIOUS
        <4>2. CASE n = dir
          BY <4>2, <1>5, <1>6
        <4>3. CASE n # dir
          BY <4>1, <4>3, <1>3, <1>4
        <4> QED BY <4>2, <4>3
      <3>2. t1.children = [n \in D \cup {f} |-> t1.children[n]]
        BY <1>2 DEF Linked
      <3> QED BY <3>1, <3>2
    <2>2. t1.node = [n \in D \cup {f} |-> t1.node[n]]
      BY <1>2 DEF Linked
    <2>3. IsFiniteSet(D \cup {f})
      BY <1>4, FS_AddElement
    <2>4. \A n \in D \cup {f} : IsNode(t1.node[n])
      BY <1>2, <1>3 DEF Good, IsFs
    <2>5. t1.node[root].parent = root /\ t1.node[root].dir
      BY <1>2, <1>3, <1>4 DEF Good, IsFs
    <2>6. t1.blocks \in Int /\ t1 = [node |-> t1.node, children |-> t1.children, blocks |-> t1.blocks]
      BY DEF Linked, Good, IsFs
    <2> QED BY <2>1, <2>2, <2>3, <2>4, <2>5, <2>6, <1>3, <1>4 DEF IsFs
  <1>8. FilesOf(t1) = FilesOf(t) \cup {f} /\ f \notin FilesOf(t)
    BY <1>1, <1>2, <1>3 DEF FilesOf
  <1>9. \A g \in FilesOf(t) : t1.node[g] = t.node[g] /\ g \in D /\ t.node[g].parent \in D
    BY <1>2, <1>3, ParentsInside DEF FilesOf
  <1>10. ASSUME NEW d \in DOMAIN t1.children, NEW i \in DOMAIN t1.children[d]
         PROVE  /\ t1.children[d][i] \in FilesOf(t1) /\ t1.node[t1.children[d][i]].parent = d
                /\ \A j \in DOMAIN t1.children[d] : t1.children[d][i] = t1.children[d][j] => i = j
    <2>1. d # f
      BY <1>3, <1>10
    <2>2. d \in D
      BY <2>1, <1>3
    <2>3. \A k \in DOMAIN t.children[d] :
             /\ t.children[d][k] \in FilesOf(t) /\ t.node[t.children[d][k]].parent = d
             /\ \A j \in DOMAIN t.children[d] : t.children[d][k] = t.children[d][j] => k = j
      BY <2>2, <1>2 DEF Good, IsTree
    <2>4. CASE d # dir
      BY <2>2, <2>3, <2>4, <1>3, <1>8, <1>9
    <2>5. CASE d = dir
      <3>1. i \in 1 .. Len(list) + 1
        BY <2>5, <1>5, <1>6
      <3>2. \A k \in 1 .. Len(list) + 1 : k = 1 \/ (k - 1 \in 1 .. Len(list) /\ long[k] = list[k - 1])
        <4> SUFFICES ASSUME NEW k \in 1 .. Len(list) + 1, k # 1
                     PROVE  k - 1 \in 1 .. Len(list) /\ long[k] = list[k - 1]
          OBVIOUS
        <4>1. k - 1 \in 1 .. Len(list) /\ (k - 1) + 1 = k
          BY <1>6
        <4> QED BY <4>1, <1>6
      <3>3. \A k \in 1 .. Len(list) :
               /\ list[k] \in FilesOf(t) /\ t.node[list[k]].parent = dir
               /\ \A j \in 1 .. Len(list) : list[k] = list[j] => k = j
        <4>1. \A k \in DOMAIN list :
                 /\ list[k] \in FilesOf(t) /\ t.node[list[k]].parent = dir
                 /\ \A j \in DOMAIN list : list[k] = list[j] => k = j
          BY <2>3, <2>5, <1>5
        <4>2. DOMAIN list = 1 .. Len(list)
          BY <1>6
        <4> QED BY <4>1, <4>2
      <3>4. long[i] \in FilesOf(t1) /\ t1.node[long[i]].parent = dir
        BY <3>1, <3>2, <3>3, <1>3, <1>6, <1>8, <1>9
      <3>5. ASSUME NEW j \in 1 .. Len(list) + 1, long[i] = long[j] PROVE i = j
        <4>1. CASE i = 1 \/ j = 1
          BY <4>1, <3>1, <3>2, <3>3, <3>5, <1>6, <1>8
        <4>2. CASE i # 1 /\ j # 1
          <5>1. i - 1 = j - 1
            BY <4>2, <3>1, <3>2, <3>3, <3>5
          <5> QED BY <5>1, <3>1, <1>6
        <4> QED BY <4>1, <4>2
      <3> QED BY <3>4, <3>5, <2>5, <1>5, <1>6
    <2> QED BY <2>4, <2>5
  <1>11. ASSUME NEW g \in FilesOf(t1)
         PROVE  /\ t1.node[g].parent \in DOMAIN t1.node /\ t1.node[t1.node[g].parent].dir
                /\ \E i \in DOMAIN t1.children[t1.node[g].parent] : t1.children[t1.node[g].parent][i] = g
                /\ \A h \in FilesOf(t1) \ {g} :
                      t1.node[h].parent = t1.node[g].parent => t1.node[h].name # t1.node[g].name
    <2>1. ASSUME NEW h \in FilesOf(t), t.node[h].parent = dir PROVE t.node[h].name # file.name
      BY <2>1 DEF Kids
    <2>2. CASE g = f
      <3>1. t1.node[g].parent = dir /\ dir \in D
        BY <2>2, <1>2, <1>3
      <3>2. 1 \in DOMAIN long /\ long[1] = f
        BY <1>6
      <3>3. \A h \in FilesOf(t1) \ {g} : t1.node[h].parent = dir => t1.node[h].name # t1.node[g].name
        BY <2>1, <2>2, <1>3, <1>8, <1>9
      <3>4. dir \in DOMAIN t1.node /\ t1.node[dir].dir
        BY <3>1, <1>1, <1>3
      <3>5. \E i \in DOMAIN t1.children[dir] : t1.children[dir][i] = g
        BY <3>2, <2>2, <1>5
      <3> QED BY <3>1, <3>3, <3>4, <3>5
    <2>3. CASE g # f
      <3>1. PICK p : p = t.node[g].parent
        OBVIOUS
      <3>2. g \in FilesOf(t) /\ t1.node[g].parent = p /\ p \in D /\ t1.node[p] = t.node[p]
        BY <2>3, <3>1, <1>3, <1>8, <1>9
      <3>3. /\ t.node[p].dir
            /\ \E i \in DOMAIN t.children[p] : t.children[p][i] = g
            /\ \A h \in FilesOf(t) \ {g} : t.node[h].parent = p => t.node[h].name # t.node[g].name
        BY <3>1, <3>2 DEF Good, IsTree
      <3>4. \E i \in DOMAIN t1.children[p] : t1.children[p][i] = g
        <4>1. CASE p # dir
          BY <4>1, <3>2, <3>3, <1>3
        <4>2. CASE p = dir
          <5>1. PICK i \in 1 .. Len(list) : list[i] = g
            BY <4>2, <3>3, <1>5, <1>6
          <5>2. i + 1 \in DOMAIN long /\ long[i + 1] = g
            BY <5>1, <1>6
          <5> QED BY <5>2, <4>2, <1>5
        <4> QED BY <4>1, <4>2
      <3>5. \A h \in FilesOf(t1) \ {g} : t1.node[h].parent = p => t1.node[h].name # t1.node[g].name
        <4>1. p = dir => t.node[g].name # file.name
          BY <2>1, <3>1, <3>2
        <4> QED BY <4>1, <3>2, <3>3, <1>3, <1>8, <1>9
      <3> QED BY <3>2, <3>3, <3>4, <3>5, <1>3
    <2> QED BY <2>2, <2>3
  <1>12. ASSUME NEW S \in SUBSET FilesOf(t1), S # {}
         PROVE  \E g \in S : t1.node[g].parent \notin S
    <2>1. CASE S \subseteq {f}
      BY <2>1, <1>1, <1>3, <1>12
    <2>2. CASE ~(S \subseteq {f})
      <3>1. PICK R : R = S \ {f}
        OBVIOUS
      <3>2. R \in SUBSET FilesOf(t) /\ R # {}
        BY <2>2, <3>1, <1>8
      <3>3. PICK g \in R : t.node[g].parent \notin R
        BY <3>2 DEF Good, IsTree
      <3>4. t.node[g].parent # f /\ t1.node[g].parent = t.node[g].parent
        BY <3>2, <1>1, <1>2, <1>9
      <3> QED BY <3>1, <3>3, <3>4
    <2> QED BY <2>1, <2>2
  <1>13. IsTree(t1)
    BY <1>3, <1>10, <1>11, <1>12 DEF IsTree
  <1>14. HeldBlocks(t1) = HeldBlocks(t) + NodeBlocks(file.data)
    <2>1. PICK F, X, X1 : /\ F = FilesOf(t) /\ X = {g \in FilesOf(t) : t.node[g].data # <<>>}
                          /\ X1 = {g \in FilesOf(t1) : t1.node[g].data # <<>>}
      OBVIOUS
    <2>2. IsFiniteSet(F) /\ Cardinality(F) \in Nat /\ Cardinality(F \cup {f}) = Cardinality(F) + 1
      <3>1. IsFiniteSet(F)
        BY <2>1, <1>2, <1>4, FS_Subset DEF FilesOf
      <3> QED BY <3>1, <2>1, <1>8, FS_AddElement, FS_CardinalityType
    <2>3. IsFiniteSet(X) /\ Cardinality(X) \in Nat /\ f \notin X
          /\ Cardinality(X \cup {f}) = Cardinality(X) + 1
      <3>1. X \subseteq F /\ f \notin X
        BY <2>1, <1>8
      <3>2. IsFiniteSet(X)
        BY <3>1, <2>2, FS_Subset
      <3> QED BY <3>1, <3>2, FS_AddElement, FS_CardinalityType
    <2>4. X1 = IF file.data # <<>> THEN X \cup {f} ELSE X
      BY <2>1, <1>3, <1>8, <1>9
    <2>5. HeldBlocks(t1) = 2 * Cardinality(F \cup {f}) + Cardinality(X1)
      BY <2>1, <1>8 DEF HeldBlocks
    <2>6. HeldBlocks(t) = 2 * Cardinality(F) + Cardinality(X)
      BY <2>1 DEF HeldBlocks
    <2>7. CASE file.data = <<>>
      BY <2>2, <2>3, <2>4, <2>5, <2>6, <2>7 DEF NodeBlocks
    <2>8. CASE file.data # <<>>
      BY <2>2, <2>3, <2>4, <2>5, <2>6, <2>8 DEF NodeBlocks
    <2> QED BY <2>7, <2>8
  <1>15. t1.blocks = t.blocks
    BY DEF Linked
  <1> QED BY <1>7, <1>13, <1>14, <1>15 DEF Good

\* t1 is t without f.
Removed(t, t1, f) ==
    /\ t1 = [node |-> t1.node, children |-> t1.children, blocks |-> t.blocks]
    /\ t1.node = [n \in DOMAIN t.node \ {f} |-> t.node[n]]
    /\ t1.children = [n \in DOMAIN t.node \ {f} |->
                        IF n = t.node[f].parent THEN unlink_child(t.children[n], f) ELSE t.children[n]]

\* What delete_file leaves of the tree.
LEMMA UnlinkFile ==
    ASSUME NEW t, Good(t), NEW f
    PROVE  Removed(t, Unlinked(t, f), f)
  <1> DEFINE X == [n \in DOMAIN t.node \ {f} |-> t.node[n]]
             Y == [n \in DOMAIN t.node \ {f} |->
                     IF n = t.node[f].parent THEN unlink_child(t.children[n], f) ELSE t.children[n]]
  <1>1. Unlinked(t, f) = [t EXCEPT !.node = X, !.children = Y]
    BY DEF Unlinked
  <1>2. PICK x, y : x = X /\ y = Y
    OBVIOUS
  <1>3. [t EXCEPT !.node = x, !.children = y] = [node |-> x, children |-> y, blocks |-> t.blocks]
    BY PutBoth DEF Good
  <1> QED BY <1>1, <1>2, <1>3 DEF Removed

\* unlink_child takes f out of a list that holds it once and leaves the others.
LEMMA OutOfList ==
    ASSUME NEW list \in Seq(Nodes), NEW f, NEW at \in DOMAIN list, list[at] = f,
           \A i, j \in DOMAIN list : list[i] = list[j] => i = j,
           NEW short, short = unlink_child(list, f)
    PROVE  /\ Places(list, f) # {} /\ short \in Seq(Nodes)
           /\ \A i \in DOMAIN short : /\ short[i] # f /\ \E k \in DOMAIN list : short[i] = list[k]
                                      /\ \A j \in DOMAIN short : short[i] = short[j] => i = j
           /\ \A k \in DOMAIN list : list[k] # f => \E i \in DOMAIN short : short[i] = list[k]
  <1>1. PICK L \in Nat : L = Len(list) /\ DOMAIN list = 1 .. L /\ at \in 1 .. L
    OBVIOUS
  <1>2. Places(list, f) = {at}
    <2>1. \A j \in 1 .. at - 1 : j \in 1 .. L /\ j # at
      BY <1>1
    <2> QED BY <2>1, <1>1 DEF Places
  <1>3. (CHOOSE i \in Places(list, f) : TRUE) = at
    BY <1>2
  <1>4. short = SubSeq(list, 1, at - 1) \o SubSeq(list, at + 1, L)
    BY <1>1, <1>3 DEF unlink_child
  <1>5. Places(list, f) # {}
    BY <1>2
  <1>6. PICK a, b : a = SubSeq(list, 1, at - 1) /\ b = SubSeq(list, at + 1, L)
    OBVIOUS
  <1>7. a \in Seq(Nodes) /\ Len(a) = at - 1 /\ \A i \in 1 .. at - 1 : a[i] = list[i]
    <2>1. \A i \in 1 .. at - 1 : list[i] \in Nodes
      BY <1>1
    <2>2. /\ SubSeq(list, 1, at - 1) \in Seq(Nodes)
          /\ Len(SubSeq(list, 1, at - 1)) = IF 1 <= at - 1 THEN (at - 1) - 1 + 1 ELSE 0
          /\ \A i \in 1 .. (at - 1) - 1 + 1 : SubSeq(list, 1, at - 1)[i] = list[1 + i - 1]
      BY <2>1, <1>1, SubSeqProperties
    <2> QED BY <2>2, <1>1, <1>6
  <1>8. b \in Seq(Nodes) /\ Len(b) = L - at /\ \A i \in 1 .. L - at : b[i] = list[at + i]
    <2>1. \A i \in at + 1 .. L : list[i] \in Nodes
      BY <1>1
    <2>2. /\ SubSeq(list, at + 1, L) \in Seq(Nodes)
          /\ Len(SubSeq(list, at + 1, L)) = IF at + 1 <= L THEN L - (at + 1) + 1 ELSE 0
          /\ \A i \in 1 .. L - (at + 1) + 1 : SubSeq(list, at + 1, L)[i] = list[(at + 1) + i - 1]
      BY <2>1, <1>1, SubSeqProperties
    <2> QED BY <2>2, <1>1, <1>6
  <1>9. /\ short \in Seq(Nodes) /\ DOMAIN short = 1 .. L - 1
        /\ \A i \in 1 .. L - 1 : short[i] = IF i < at THEN list[i] ELSE list[i + 1]
    <2>1. /\ short \in Seq(Nodes) /\ Len(short) = (at - 1) + (L - at)
          /\ \A i \in 1 .. (at - 1) + (L - at) :
                short[i] = IF i <= at - 1 THEN a[i] ELSE b[i - (at - 1)]
      <3>1. short = a \o b
        BY <1>4, <1>6
      <3>2. /\ a \o b \in Seq(Nodes) /\ Len(a \o b) = Len(a) + Len(b)
            /\ \A i \in 1 .. Len(a) + Len(b) : (a \o b)[i] = IF i <= Len(a) THEN a[i] ELSE b[i - Len(a)]
        <4>1. a \in Seq(Nodes) /\ b \in Seq(Nodes)
          BY <1>7, <1>8
        <4> QED BY <4>1, ConcatProperties
      <3>3. Len(a) = at - 1 /\ Len(b) = L - at
        BY <1>7, <1>8
      <3> HIDE <1>4, <1>6
      <3> QED BY <3>1, <3>2, <3>3
    <2>2. (at - 1) + (L - at) = L - 1
      BY <1>1
    <2>3. DOMAIN short = 1 .. L - 1
      BY <2>1, <2>2
    <2>4. ASSUME NEW i \in 1 .. L - 1 PROVE short[i] = IF i < at THEN list[i] ELSE list[i + 1]
      <3>1. CASE i < at
        BY <3>1, <2>1, <2>2, <1>1, <1>7
      <3>2. CASE ~(i < at)
        <4>1. i - (at - 1) \in 1 .. L - at /\ at + (i - (at - 1)) = i + 1
          BY <3>2, <1>1
        <4>2. short[i] = b[i - (at - 1)]
          BY <3>2, <2>1, <2>2, <1>1
        <4> QED BY <3>2, <4>1, <4>2, <1>8
      <3> QED BY <3>1, <3>2
    <2> QED BY <2>1, <2>3, <2>4
  <1>10. PICK old : old = [i \in 1 .. L - 1 |-> IF i < at THEN i ELSE i + 1]
    OBVIOUS
  <1>11. \A i \in 1 .. L - 1 : old[i] \in 1 .. L /\ old[i] # at /\ short[i] = list[old[i]]
    BY <1>1, <1>9, <1>10
  <1>12. \A i, j \in 1 .. L - 1 : old[i] = old[j] => i = j
    BY <1>1, <1>10
  <1>13. ASSUME NEW k \in 1 .. L, k # at PROVE \E i \in 1 .. L - 1 : old[i] = k
    <2>1. CASE k < at
      <3>1. k \in 1 .. L - 1 /\ old[k] = k
        BY <2>1, <1>1, <1>10
      <3> QED BY <3>1
    <2>2. CASE k > at
      <3>1. k - 1 \in 1 .. L - 1 /\ old[k - 1] = k
        BY <2>2, <1>1, <1>10
      <3> QED BY <3>1
    <2> QED BY <2>1, <2>2, <1>1, <1>13
  <1>14. ASSUME NEW i \in 1 .. L - 1
         PROVE  /\ short[i] # f /\ \E k \in 1 .. L : short[i] = list[k]
                /\ \A j \in 1 .. L - 1 : short[i] = short[j] => i = j
    <2>1. old[i] \in DOMAIN list /\ old[i] # at /\ short[i] = list[old[i]]
      BY <1>1, <1>11
    <2>2. short[i] # f
      BY <2>1
    <2>3. ASSUME NEW j \in 1 .. L - 1, short[i] = short[j] PROVE i = j
      <3>1. old[j] \in DOMAIN list /\ short[j] = list[old[j]]
        BY <1>1, <1>11
      <3>2. old[i] = old[j]
        BY <2>1, <2>3, <3>1
      <3> QED BY <3>2, <1>12
    <2> QED BY <2>1, <2>2, <2>3, <1>1
  <1>15. ASSUME NEW k \in 1 .. L, list[k] # f PROVE \E i \in 1 .. L - 1 : short[i] = list[k]
    BY <1>11, <1>13, <1>15
  <1>16. DOMAIN list = 1 .. L /\ DOMAIN short = 1 .. L - 1
    BY <1>1, <1>9
  <1>17. \A i \in DOMAIN short : /\ short[i] # f /\ \E k \in DOMAIN list : short[i] = list[k]
                                 /\ \A j \in DOMAIN short : short[i] = short[j] => i = j
    <2> SUFFICES ASSUME NEW i \in DOMAIN short
                 PROVE  /\ short[i] # f /\ \E k \in DOMAIN list : short[i] = list[k]
                        /\ \A j \in DOMAIN short : short[i] = short[j] => i = j
      OBVIOUS
    <2>1. i \in 1 .. L - 1
      BY <1>16
    <2>2. /\ short[i] # f /\ \E k \in 1 .. L : short[i] = list[k]
          /\ \A j \in 1 .. L - 1 : short[i] = short[j] => i = j
      BY <2>1, <1>14
    <2> QED BY <2>2, <1>16
  <1>18. \A k \in DOMAIN list : list[k] # f => \E i \in DOMAIN short : short[i] = list[k]
    <2> SUFFICES ASSUME NEW k \in DOMAIN list, list[k] # f
                 PROVE  \E i \in DOMAIN short : short[i] = list[k]
      OBVIOUS
    <2>1. k \in 1 .. L
      BY <1>16
    <2>2. PICK i \in 1 .. L - 1 : short[i] = list[k]
      BY <2>1, <1>15
    <2> QED BY <2>2, <1>16
  <1>19. short \in Seq(Nodes)
    BY <1>9
  <1> QED BY <1>5, <1>17, <1>18, <1>19

\* Removing a file or an empty directory keeps the tree.
LEMMA UnlinkKeeps ==
    ASSUME NEW t, Good(t), NEW f \in FilesOf(t), ~DirNotEmpty(t, f), NEW t1, Removed(t, t1, f)
    PROVE  /\ Places(t.children[t.node[f].parent], f) # {}
           /\ Good(t1) /\ t1.blocks = t.blocks /\ f \notin DOMAIN t1.node
           /\ \A g \in FilesOf(t) : t.node[g].parent # f
           /\ HeldBlocks(t1) = HeldBlocks(t) - NodeBlocks(t.node[f].data)
  <1>1. PICK D, dir : D = DOMAIN t.node /\ dir = t.node[f].parent
    OBVIOUS
  <1>2. f # root /\ f \in D /\ dir \in D /\ t.node[dir].dir /\ DOMAIN t.children = D
    BY <1>1 DEF FilesOf, Good, IsTree
  <1>3. /\ \A n \in D : t.children[n] \in Seq(Nodes)
        /\ root \in D /\ D \subseteq Nodes \cup {root} /\ IsFiniteSet(D)
    BY <1>1 DEF Good, IsFs
  <1>4. \A g \in FilesOf(t) : t.node[g].parent # f
    <2> SUFFICES ASSUME NEW g \in FilesOf(t), t.node[g].parent = f PROVE FALSE
      OBVIOUS
    <2>1. t.node[f].dir /\ \E i \in DOMAIN t.children[f] : t.children[f][i] = g
      BY DEF Good, IsTree
    <2>2. t.children[f] = <<>>
      BY <2>1 DEF DirNotEmpty
    <2> QED BY <2>1, <2>2
  <1>5. dir # f
    BY <1>1, <1>4
  <1>6. PICK list, short : list = t.children[dir] /\ short = unlink_child(list, f)
    OBVIOUS
  <1>7. /\ list \in Seq(Nodes)
        /\ \E i \in DOMAIN list : list[i] = f
        /\ \A i, j \in DOMAIN list : list[i] = list[j] => i = j
    <2>1. list \in Seq(Nodes)
      BY <1>2, <1>3, <1>6
    <2>2. \E i \in DOMAIN list : list[i] = f
      BY <1>1, <1>2, <1>6 DEF Good, IsTree
    <2>3. \A i, j \in DOMAIN list : list[i] = list[j] => i = j
      BY <1>2, <1>6 DEF Good, IsTree
    <2> QED BY <2>1, <2>2, <2>3
  <1>8. /\ Places(list, f) # {} /\ short \in Seq(Nodes)
        /\ \A i \in DOMAIN short : /\ short[i] # f /\ \E k \in DOMAIN list : short[i] = list[k]
                                   /\ \A j \in DOMAIN short : short[i] = short[j] => i = j
        /\ \A k \in DOMAIN list : list[k] # f => \E i \in DOMAIN short : short[i] = list[k]
    BY <1>6, <1>7, OutOfList
  <1>9. /\ DOMAIN t1.node = D \ {f} /\ DOMAIN t1.children = D \ {f}
        /\ t1.children[dir] = short
        /\ \A n \in D \ {f} : t1.node[n] = t.node[n] /\ (n # dir => t1.children[n] = t.children[n])
    BY <1>1, <1>2, <1>5, <1>6 DEF Removed
  <1>10. IsFs(t1)
    <2>1. t1.children \in [D \ {f} -> Seq(Nodes)]
      <3>1. ASSUME NEW n \in D \ {f} PROVE t1.children[n] \in Seq(Nodes)
        <4>1. CASE n = dir
          BY <4>1, <1>8, <1>9
        <4>2. CASE n # dir
          BY <4>2, <1>3, <1>9
        <4> QED BY <4>1, <4>2
      <3>2. t1.children = [n \in D \ {f} |-> t1.children[n]]
        BY <1>1 DEF Removed
      <3> QED BY <3>1, <3>2
    <2>2. t1.node = [n \in D \ {f} |-> t1.node[n]]
      BY <1>1 DEF Removed
    <2>3. IsFiniteSet(D \ {f})
      BY <1>3, FS_Subset
    <2>4. \A n \in D \ {f} : IsNode(t1.node[n])
      BY <1>1, <1>9 DEF Good, IsFs
    <2>5. t1.node[root].parent = root /\ t1.node[root].dir /\ root \in D \ {f}
      BY <1>1, <1>2, <1>3, <1>9 DEF Good, IsFs
    <2>6. t1.blocks \in Int /\ t1 = [node |-> t1.node, children |-> t1.children, blocks |-> t1.blocks]
      BY DEF Removed, Good, IsFs
    <2>7. D \ {f} \subseteq Nodes \cup {root}
      BY <1>3
    <2> QED BY <2>1, <2>2, <2>3, <2>4, <2>5, <2>6, <2>7, <1>9 DEF IsFs
  <1>11. FilesOf(t1) = FilesOf(t) \ {f}
    BY <1>1, <1>9 DEF FilesOf
  <1>12. \A g \in FilesOf(t1) : /\ g \in FilesOf(t) /\ g \in D \ {f} /\ t1.node[g] = t.node[g]
                                /\ t.node[g].parent \in D \ {f}
    <2>1. \A g \in FilesOf(t) : t.node[g].parent \in D
      BY <1>1 DEF Good, IsTree
    <2> QED BY <2>1, <1>1, <1>4, <1>9, <1>11 DEF FilesOf
  <1>13. ASSUME NEW d \in DOMAIN t1.children, NEW i \in DOMAIN t1.children[d]
         PROVE  /\ t1.children[d][i] \in FilesOf(t1) /\ t1.node[t1.children[d][i]].parent = d
                /\ \A j \in DOMAIN t1.children[d] : t1.children[d][i] = t1.children[d][j] => i = j
    <2>1. d \in D \ {f}
      BY <1>9
    <2>2. \A k \in DOMAIN t.children[d] :
             /\ t.children[d][k] \in FilesOf(t) /\ t.node[t.children[d][k]].parent = d
             /\ \A j \in DOMAIN t.children[d] : t.children[d][k] = t.children[d][j] => k = j
      BY <2>1, <1>1 DEF Good, IsTree
    <2>3. CASE d # dir
      <3>1. t1.children[d] = t.children[d]
        BY <2>1, <2>3, <1>9
      <3>2. t.children[d][i] # f
        BY <3>1, <2>2, <2>3, <1>1
      <3> QED BY <3>1, <3>2, <2>2, <1>11, <1>12
    <2>4. CASE d = dir
      <3>1. \A k \in DOMAIN list : list[k] \in FilesOf(t) /\ t.node[list[k]].parent = dir
        BY <2>2, <2>4, <1>6
      <3>2. i \in DOMAIN short
        BY <2>4, <1>9
      <3>3. short[i] \in FilesOf(t) \ {f} /\ t.node[short[i]].parent = dir
        BY <3>1, <3>2, <1>8
      <3> QED BY <3>2, <3>3, <2>4, <1>8, <1>9, <1>11, <1>12
    <2> QED BY <2>3, <2>4
  <1>14. ASSUME NEW g \in FilesOf(t1)
         PROVE  /\ t1.node[g].parent \in DOMAIN t1.node /\ t1.node[t1.node[g].parent].dir
                /\ \E i \in DOMAIN t1.children[t1.node[g].parent] : t1.children[t1.node[g].parent][i] = g
                /\ \A h \in FilesOf(t1) \ {g} :
                      t1.node[h].parent = t1.node[g].parent => t1.node[h].name # t1.node[g].name
    <2>1. PICK p : p = t.node[g].parent
      OBVIOUS
    <2>2. g \in FilesOf(t) /\ g # f /\ t1.node[g] = t.node[g] /\ p \in D \ {f} /\ t1.node[p] = t.node[p]
      BY <2>1, <1>9, <1>12
    <2>3. /\ t.node[p].dir
          /\ \E i \in DOMAIN t.children[p] : t.children[p][i] = g
          /\ \A h \in FilesOf(t) \ {g} : t.node[h].parent = p => t.node[h].name # t.node[g].name
      BY <2>1, <2>2 DEF Good, IsTree
    <2>4. \E i \in DOMAIN t1.children[p] : t1.children[p][i] = g
      <3>1. CASE p # dir
        BY <3>1, <2>2, <2>3, <1>9
      <3>2. CASE p = dir
        <4>1. PICK k \in DOMAIN list : list[k] = g
          BY <3>2, <2>3, <1>6
        <4>2. PICK i \in DOMAIN short : short[i] = g
          BY <4>1, <2>2, <1>8
        <4> QED BY <4>2, <3>2, <1>9
      <3> QED BY <3>1, <3>2
    <2>5. \A h \in FilesOf(t1) \ {g} : t1.node[h].parent = p => t1.node[h].name # t1.node[g].name
      BY <2>2, <2>3, <1>12
    <2> QED BY <2>1, <2>2, <2>3, <2>4, <2>5, <1>9
  <1>15. ASSUME NEW S \in SUBSET FilesOf(t1), S # {}
         PROVE  \E g \in S : t1.node[g].parent \notin S
    <2>1. S \in SUBSET FilesOf(t)
      BY <1>12
    <2>2. PICK g \in S : t.node[g].parent \notin S
      BY <2>1, <1>15 DEF Good, IsTree
    <2> QED BY <2>2, <1>12
  <1>16. IsTree(t1)
    BY <1>9, <1>13, <1>14, <1>15 DEF IsTree
  <1>17. HeldBlocks(t1) = HeldBlocks(t) - NodeBlocks(t.node[f].data)
    <2>1. PICK F, X, X1, data : /\ F = FilesOf(t) /\ X = {g \in FilesOf(t) : t.node[g].data # <<>>}
                                /\ X1 = {g \in FilesOf(t1) : t1.node[g].data # <<>>}
                                /\ data = t.node[f].data
      OBVIOUS
    <2>2. IsFiniteSet(F) /\ Cardinality(F) \in Nat /\ Cardinality(F \ {f}) = Cardinality(F) - 1
      <3>1. IsFiniteSet(F)
        BY <2>1, <1>1, <1>3, FS_Subset DEF FilesOf
      <3> QED BY <3>1, <2>1, FS_RemoveElement, FS_CardinalityType
    <2>3. IsFiniteSet(X) /\ Cardinality(X) \in Nat
      <3>1. X \subseteq F
        BY <2>1
      <3> QED BY <3>1, <2>2, FS_Subset, FS_CardinalityType
    <2>4. X1 = X \ {f} /\ (f \in X <=> data # <<>>)
      BY <2>1, <1>11, <1>12
    <2>5. HeldBlocks(t1) = 2 * Cardinality(F \ {f}) + Cardinality(X1)
      BY <2>1, <1>11 DEF HeldBlocks
    <2>6. HeldBlocks(t) = 2 * Cardinality(F) + Cardinality(X)
      BY <2>1 DEF HeldBlocks
    <2>7. CASE data = <<>>
      <3>1. X1 = X
        BY <2>4, <2>7
      <3>2. NodeBlocks(t.node[f].data) = 2
        BY <2>1, <2>7 DEF NodeBlocks
      <3> QED BY <3>1, <3>2, <2>2, <2>3, <2>5, <2>6
    <2>8. CASE data # <<>>
      <3>1. Cardinality(X1) = Cardinality(X) - 1
        BY <2>3, <2>4, <2>8, FS_RemoveElement
      <3>2. NodeBlocks(t.node[f].data) = 3
        BY <2>1, <2>8 DEF NodeBlocks
      <3> QED BY <3>1, <3>2, <2>2, <2>3, <2>5, <2>6
    <2> QED BY <2>7, <2>8
  <1>18. t1.blocks = t.blocks
    BY DEF Removed
  <1> QED BY <1>1, <1>4, <1>6, <1>8, <1>9, <1>10, <1>16, <1>17, <1>18 DEF Good

-----------------------------------------------------------------------------
(* The functions.                                                          *)

\* A tree whose nodes account for every heap block taken.
Inv(t) == Good(t) /\ t.blocks = HeldBlocks(t)

\* A step of parse_path to y is the same in a tree that still has x and y.
LEMMA StepKept ==
    ASSUME NEW t, Good(t), NEW t1, Good(t1), NEW x \in DOMAIN t.node, x \in DOMAIN t1.node,
           t1.node[x].parent = t.node[x].parent, t1.node[x].dir = t.node[x].dir,
           NEW c, NEW y, Step(t, At("FS_SUCCESS", x), c) = At("FS_SUCCESS", y),
           y \in Kids(t, x, c) => y \in Kids(t1, x, c)
    PROVE  Step(t1, At("FS_SUCCESS", x), c) = At("FS_SUCCESS", y)
  <1>1. CASE c = Dot
    BY <1>1, StepFrom
  <1>2. CASE c = DotDot
    BY <1>2, StepFrom
  <1>3. CASE c \notin {Dot, DotDot}
    <2>1. t.node[x].dir /\ Kids(t, x, c) # {}
      <3> SUFFICES ASSUME ~t.node[x].dir \/ Kids(t, x, c) = {} PROVE FALSE
        OBVIOUS
      <3>1. PICK s : s # "FS_SUCCESS" /\ Step(t, At("FS_SUCCESS", x), c) = At(s, x)
        BY <1>3, StepFrom
      <3>2. At(s, x).status = s /\ At("FS_SUCCESS", y).status = "FS_SUCCESS"
        BY DEF At
      <3> QED BY <3>1, <3>2
    <2>2. PICK k \in Kids(t, x, c) : Step(t, At("FS_SUCCESS", x), c) = At("FS_SUCCESS", k)
      BY <2>1, <1>3, StepFrom
    <2>3. k = y
      <3>1. At("FS_SUCCESS", k).file = k /\ At("FS_SUCCESS", y).file = y
        BY DEF At
      <3> QED BY <3>1, <2>2
    <2>4. y \in Kids(t1, x, c)
      BY <2>2, <2>3
    <2>5. c \notin {Dot, DotDot} /\ t1.node[x].dir =>
             \A a \in Kids(t1, x, c) : Step(t1, At("FS_SUCCESS", x), c) = At("FS_SUCCESS", a)
      BY StepFrom
    <2> HIDE DEF Kids, Step
    <2> QED BY <2>1, <2>4, <2>5, <1>3
  <1> QED BY <1>1, <1>2, <1>3

\* The path of create_file's parent directory.
ParentPath(pp, path) == pp = SubSeq(path, 1, Len(path) - 1)

\* t1 is t and one more node f, in the directory dir that pp leads to, under the
\* last name of the path.
Made(t, t1, path, pp, dir, f) ==
    /\ Good(t) /\ Good(t1) /\ path \in Seq(Components) /\ path # <<>>
    /\ ParentPath(pp, path) /\ parse_path(t, pp).status = "FS_SUCCESS"
    /\ dir = parse_path(t, pp).file /\ t.node[dir].dir
    /\ path[Len(path)] \notin {Dot, DotDot}
    /\ DOMAIN t1.node = DOMAIN t.node \cup {f} /\ f \notin DOMAIN t.node /\ f # root
    /\ \A n \in DOMAIN t.node : t1.node[n] = t.node[n]
    /\ t1.node[f].parent = dir /\ t1.node[f].name = path[Len(path)]

\* What create_file made is found under its path.
LEMMA NewIsFound ==
    ASSUME NEW t, NEW t1, NEW path, NEW pp, NEW dir, NEW f, Made(t, t1, path, pp, dir, f)
    PROVE  parse_path(t1, path) = At("FS_SUCCESS", f)
  <1> USE DEF Made
  <1>1. PICK N \in Nat : Len(path) = N + 1
    <2>1. Len(path) \in Nat /\ Len(path) # 0
      OBVIOUS
    <2>2. Len(path) - 1 \in Nat /\ Len(path) = (Len(path) - 1) + 1
      BY <2>1
    <2> QED BY <2>2
  <1>2. Len(pp) = N /\ \A n \in 1 .. N : path[n] = pp[n]
    <2>1. \A i \in 1 .. N : path[i] \in Components
      BY <1>1
    <2>2. Len(path) - 1 = N /\ N \in Int /\ 1 \in Int
      BY <1>1
    <2>3. /\ Len(SubSeq(path, 1, N)) = IF 1 <= N THEN N - 1 + 1 ELSE 0
          /\ \A i \in 1 .. N - 1 + 1 : SubSeq(path, 1, N)[i] = path[1 + i - 1]
      BY <2>1, <2>2, SubSeqProperties
    <2>4. pp = SubSeq(path, 1, N)
      BY <2>2 DEF ParentPath
    <2> HIDE DEF Components
    <2> QED BY <2>3, <2>4
  <1>3. /\ dir \in DOMAIN t.node
        /\ \A n \in 0 .. N : /\ Walk(t, pp)[n].file \in DOMAIN t.node
                             /\ Walk(t, pp)[n] = At("FS_SUCCESS", Walk(t, pp)[n].file)
    <2>1. Len(pp) \in Nat
      BY <1>2
    <2>2. /\ parse_path(t, pp).file \in DOMAIN t.node
          /\ \A n \in 0 .. Len(pp) : /\ Walk(t, pp)[n].file \in DOMAIN t.node
                                     /\ Walk(t, pp)[n] = At("FS_SUCCESS", Walk(t, pp)[n].file)
      BY <2>1, PathLeads
    <2> QED BY <2>2, <1>2
  <1>4. \A x \in DOMAIN t.node : \A c : Kids(t, x, c) \subseteq Kids(t1, x, c)
    BY DEF Kids, FilesOf
  <1>5. ASSUME NEW n \in 1 .. N
        PROVE  Step(t1, Walk(t, pp)[n - 1], pp[n]) = Walk(t, pp)[n]
    <2>1. n - 1 \in 0 .. N /\ n \in 0 .. N
      OBVIOUS
    <2>2. PICK x \in DOMAIN t.node, y \in DOMAIN t.node :
             Walk(t, pp)[n - 1] = At("FS_SUCCESS", x) /\ Walk(t, pp)[n] = At("FS_SUCCESS", y)
      BY <2>1, <1>3
    <2>3. Walk(t, pp)[n] = Step(t, Walk(t, pp)[n - 1], pp[n])
      <3>1. Len(pp) \in Nat /\ n \in 1 .. Len(pp)
        BY <1>2
      <3> HIDE DEF Walk
      <3> QED BY <3>1, WalkSteps
    <2>4. Step(t, At("FS_SUCCESS", x), pp[n]) = At("FS_SUCCESS", y)
      BY <2>2, <2>3
    <2>5. Step(t1, At("FS_SUCCESS", x), pp[n]) = At("FS_SUCCESS", y)
      <3>1. PICK c : c = pp[n]
        OBVIOUS
      <3>2. x \in DOMAIN t1.node /\ t1.node[x] = t.node[x] /\ Kids(t, x, c) \subseteq Kids(t1, x, c)
        BY <1>4
      <3>3. Step(t, At("FS_SUCCESS", x), c) = At("FS_SUCCESS", y)
        BY <2>4, <3>1
      <3>4. Step(t1, At("FS_SUCCESS", x), c) = At("FS_SUCCESS", y)
        BY <3>2, <3>3, StepKept
      <3> QED BY <3>1, <3>4
    <2> QED BY <2>2, <2>5
  <1>6. Walk(t1, path)[N] = Walk(t, pp)[N]
    <2>1. Len(pp) \in Nat /\ Len(path) \in Nat /\ N <= Len(pp) /\ N <= Len(path)
      BY <1>1, <1>2
    <2>2. \A n \in 1 .. N : path[n] = pp[n]
      BY <1>2
    <2>3. \A n \in 1 .. N : Step(t1, Walk(t, pp)[n - 1], pp[n]) = Walk(t, pp)[n]
      BY <1>5
    <2>4. \A n \in 0 .. N : Walk(t1, path)[n] = Walk(t, pp)[n]
      BY <2>1, <2>2, <2>3, SameWalk
    <2> QED BY <2>4
  <1>7. Walk(t, pp)[N] = At("FS_SUCCESS", dir)
    <2>1. dir = Walk(t, pp)[N].file
      BY <1>2 DEF parse_path
    <2> QED BY <2>1, <1>3
  <1>8. parse_path(t1, path) = Step(t1, At("FS_SUCCESS", dir), path[N + 1])
    <2>1. N + 1 \in 1 .. Len(path) /\ (N + 1) - 1 = N /\ Len(path) \in Nat
      BY <1>1
    <2>2. Walk(t1, path)[N + 1] = Step(t1, Walk(t1, path)[N], path[N + 1])
      BY <2>1, WalkSteps
    <2> QED BY <2>2, <1>1, <1>6, <1>7 DEF parse_path
  <1>9. f \in Kids(t1, dir, path[N + 1]) /\ t1.node[dir].dir /\ dir \in DOMAIN t1.node
    BY <1>1, <1>3 DEF Kids, FilesOf
  <1> QED BY <1>1, <1>8, <1>9, StepFrom

\* create_file keeps the tree and the count of its blocks, whichever
\* allocation fails; refuses without a change; and makes its path resolve.
LEMMA CreateKeeps ==
    ASSUME NEW t, Inv(t), NEW path \in Seq(Components), NEW m, NEW data \in Seq(Nat),
           NEW dir \in BOOLEAN, NEW r, r = create_file(t, path, m, data, dir)
    PROVE  /\ Inv(r.fs) /\ (r.ret # "FS_SUCCESS" => r.fs = t)
           /\ r.ret = "FS_SUCCESS" =>
                /\ \E pp, d, f : Made(t, r.fs, path, pp, d, f)
                /\ parse_path(r.fs, path).status = "FS_SUCCESS"
                /\ r.fs.node[parse_path(r.fs, path).file].data = data
                /\ r.fs.node[parse_path(r.fs, path).file].dir = dir
  <1>1. Good(t) /\ IsFs(t)
    BY DEF Inv, Good
  <1>2. ASSUME NEW s, s # "FS_SUCCESS", NEW k \in Nat, r = Exit(t, s, k, k)
        PROVE  r.fs = t /\ r.ret # "FS_SUCCESS"
    BY <1>1, <1>2, ExitCounts
  <1>3. PICK pp, name : pp = SubSeq(path, 1, Len(path) - 1) /\ name = path[Len(path)]
    OBVIOUS
  <1>4. PICK parent, unused : parent = parse_path(t, pp) /\ unused = Nodes \ DOMAIN t.node
    OBVIOUS
  <1>5. PICK f : f = CHOOSE n \in unused : TRUE
    OBVIOUS
  <1>6. PICK file : file = [name |-> name, parent |-> parent.file, dir |-> dir, data |-> data]
    OBVIOUS
  <1>7. CASE \E s : s # "FS_SUCCESS" /\ \E k \in Nat : r = Exit(t, s, k, k)
    <2>1. PICK s : s # "FS_SUCCESS" /\ \E k \in Nat : r = Exit(t, s, k, k)
      BY <1>7
    <2>2. PICK k \in Nat : r = Exit(t, s, k, k)
      BY <2>1
    <2> QED BY <2>1, <2>2, <1>2
  <1>8. CASE ~\E s : s # "FS_SUCCESS" /\ \E k \in Nat : r = Exit(t, s, k, k)
    <2>1. /\ path # <<>> /\ name \notin {Dot, DotDot} /\ parent.status = "FS_SUCCESS"
          /\ t.node[parent.file].dir /\ ~NameTaken(t, parent.file, name) /\ unused # {}
          /\ r = Exit(link_child(t, parent.file, f, file), "FS_SUCCESS", 1 + NodeBlocks(data), 1)
      <3>1. r = IF path = <<>> THEN Exit(t, "FS_INV_PATH", 0, 0)
                ELSE IF m = 0 THEN Exit(t, "FS_FAIL", 0, 0)
                ELSE IF m = 1 THEN Exit(t, "FS_FAIL", 1, 1)
                ELSE IF name \in {Dot, DotDot} THEN Exit(t, "FS_FAIL", 2, 2)
                ELSE IF parent.status # "FS_SUCCESS" THEN Exit(t, parent.status, 2, 2)
                ELSE IF ~t.node[parent.file].dir THEN Exit(t, "FS_NOT_A_DIR", 2, 2)
                ELSE IF NameTaken(t, parent.file, name) THEN Exit(t, "FS_ALR_EXIST", 2, 2)
                ELSE IF m = 2 \/ unused = {} THEN Exit(t, "FS_FAIL", 2, 2)
                ELSE IF m = 3 /\ data # <<>> THEN Exit(t, "FS_FAIL", 3, 3)
                ELSE Exit(link_child(t, parent.file, f, file), "FS_SUCCESS", 1 + NodeBlocks(data), 1)
        BY <1>3, <1>4, <1>5, <1>6 DEF create_file, FreedOnDataFailure
      <3>2. /\ r # Exit(t, "FS_INV_PATH", 0, 0) /\ r # Exit(t, "FS_FAIL", 0, 0)
            /\ r # Exit(t, "FS_FAIL", 1, 1) /\ r # Exit(t, "FS_FAIL", 2, 2)
            /\ r # Exit(t, "FS_FAIL", 3, 3) /\ r # Exit(t, "FS_NOT_A_DIR", 2, 2)
            /\ r # Exit(t, "FS_ALR_EXIST", 2, 2)
        BY <1>8
      <3>3. parent.status # "FS_SUCCESS" => r # Exit(t, parent.status, 2, 2)
        BY <1>8
      <3> QED BY <3>1, <3>2, <3>3
    <2>2. PICK d : d = parent.file
      OBVIOUS
    <2>3. PICK N \in Nat : Len(pp) = N
      BY <1>3
    <2>4. d \in DOMAIN t.node
      BY <2>1, <2>2, <2>3, <1>1, <1>4, PathLeads
    <2>5. Kids(t, d, name) = {}
      BY <2>1, <2>2, <2>4, <1>1, ChildIsKid DEF NameTaken, find_child
    <2>6. f \in Nodes \ DOMAIN t.node /\ f # root
      BY <2>1, <1>4, <1>5, FsAssumption
    <2>7. IsNode(file) /\ file.parent = d /\ file.name = name /\ file.data = data /\ file.dir = dir
      BY <2>2, <1>6 DEF IsNode
    <2>8. PICK t1 : t1 = link_child(t, d, f, file)
      OBVIOUS
    <2>9. Linked(t, t1, d, f, file)
      BY <2>8, <1>1, LinkChild
    <2>10. /\ Good(t1) /\ t1.blocks = t.blocks
           /\ HeldBlocks(t1) = HeldBlocks(t) + NodeBlocks(file.data)
      BY <2>1, <2>2, <2>4, <2>5, <2>6, <2>7, <2>9, <1>1, LinkKeeps
    <2>11. PICK n \in Nat : n = NodeBlocks(data)
      BY DEF NodeBlocks
    <2>12. PICK b : b = t1.blocks + (1 + n) - 1
      OBVIOUS
    <2>13. Counted(t1, r.fs, b) /\ r.ret = "FS_SUCCESS"
      <3>1. r = Exit(t1, "FS_SUCCESS", 1 + n, 1) /\ IsFs(t1) /\ 1 + n \in Nat
        BY <2>1, <2>2, <2>8, <2>10, <2>11 DEF Good
      <3> QED BY <3>1, <2>12, ExitCounts
    <2>14. Good(r.fs) /\ r.fs.blocks = b /\ HeldBlocks(r.fs) = HeldBlocks(t1)
      BY <2>10, <2>13, CountedGood
    <2>15. Inv(r.fs)
      <3>1. t.blocks \in Int /\ t.blocks = HeldBlocks(t)
        BY <1>1 DEF IsFs, Inv
      <3> QED BY <3>1, <2>7, <2>10, <2>11, <2>12, <2>14 DEF Inv
    <2>16. /\ DOMAIN r.fs.node = DOMAIN t.node \cup {f} /\ r.fs.node[f] = file
           /\ \A x \in DOMAIN t.node : r.fs.node[x] = t.node[x]
      <3>1. r.fs.node = t1.node
        BY <2>13 DEF Counted
      <3> QED BY <3>1, <2>6, <2>9 DEF Linked
    <2>17. Made(t, r.fs, path, pp, d, f) /\ parse_path(r.fs, path) = At("FS_SUCCESS", f)
      <3>1. ParentPath(pp, path)
        BY <1>3 DEF ParentPath
      <3>2. d = parse_path(t, pp).file /\ parse_path(t, pp).status = "FS_SUCCESS"
        BY <2>1, <2>2, <1>4
      <3>3. path[Len(path)] \notin {Dot, DotDot} /\ file.name = path[Len(path)]
        BY <2>1, <2>7, <1>3
      <3>4. t.node[d].dir /\ f # root /\ f \notin DOMAIN t.node /\ path # <<>>
        BY <2>1, <2>2, <2>6
      <3>5. PICK t2 : t2 = r.fs
        OBVIOUS
      <3>6. /\ Good(t2) /\ DOMAIN t2.node = DOMAIN t.node \cup {f}
            /\ \A x \in DOMAIN t.node : t2.node[x] = t.node[x]
            /\ t2.node[f].parent = d /\ t2.node[f].name = file.name
        BY <3>5, <2>7, <2>14, <2>16
      <3>7. Made(t, t2, path, pp, d, f)
        BY <3>1, <3>2, <3>3, <3>4, <3>6, <1>1 DEF Made
      <3> QED BY <3>5, <3>7, NewIsFound
    <2>18. /\ parse_path(r.fs, path).status = "FS_SUCCESS"
           /\ parse_path(r.fs, path).file = f
      BY <2>17 DEF At
    <2> QED BY <2>7, <2>13, <2>15, <2>16, <2>17, <2>18
  <1> QED BY <1>7, <1>8

\* t1 is t without f, which p led to and which was no node's parent.
Gone(t, t1, p, f) ==
    /\ Good(t) /\ Good(t1) /\ Len(p) \in Nat
    /\ parse_path(t, p).status = "FS_SUCCESS" /\ parse_path(t, p).file = f
    /\ f \in FilesOf(t) /\ \A g \in FilesOf(t) : t.node[g].parent # f
    /\ DOMAIN t1.node = DOMAIN t.node \ {f}
    /\ \A n \in DOMAIN t1.node : t1.node[n] = t.node[n]

\* What delete_file removed is not found any more: the path fails where it first
\* came to f.
LEMMA OldIsGone ==
    ASSUME NEW t, NEW t1, NEW p, NEW f, Gone(t, t1, p, f)
    PROVE  parse_path(t1, p).status # "FS_SUCCESS"
  <1>1. PICK L \in Nat : L = Len(p)
    BY DEF Gone
  <1>2. /\ Good(t) /\ Good(t1) /\ Len(p) \in Nat /\ parse_path(t, p).status = "FS_SUCCESS"
        /\ f # root /\ f \in DOMAIN t.node
    BY DEF Gone, FilesOf
  <1>3. \A n \in 0 .. Len(p) : /\ Walk(t, p)[n].file \in DOMAIN t.node
                               /\ Walk(t, p)[n] = At("FS_SUCCESS", Walk(t, p)[n].file)
    BY <1>2, PathLeads
  <1>4. \A n \in 1 .. Len(p) : Walk(t, p)[n] = Step(t, Walk(t, p)[n - 1], p[n])
    BY <1>2, WalkSteps
  <1> DEFINE There == {k \in 0 .. L : Walk(t, p)[k].file = f}
  <1>5. PICK k \in There : \A j \in There : k <= j
    <2>1. There \subseteq Nat
      OBVIOUS
    <2>2. L \in There
      BY <1>1 DEF Gone, parse_path
    <2> HIDE DEF There
    <2> QED BY <2>1, <2>2, LeastNumber
  <1>6. k \in 1 .. L
    <2>1. Walk(t, p)[0] = Start /\ Start.file = root
      BY <1>2, WalkSteps DEF Start
    <2> QED BY <2>1, <1>2, <1>5
  <1>7. \A n \in 0 .. k - 1 : n \in 0 .. L /\ Walk(t, p)[n].file # f
    BY <1>5, <1>6
  <1>8. \A x \in DOMAIN t1.node : \A c :
           Kids(t1, x, c) = Kids(t, x, c) \ {f} /\ x \in DOMAIN t.node /\ t1.node[x] = t.node[x]
    <2>1. FilesOf(t1) = FilesOf(t) \ {f} /\ \A g \in FilesOf(t1) : t1.node[g] = t.node[g]
      BY DEF Gone, FilesOf
    <2> QED BY <2>1 DEF Gone, Kids
  <1>9. \A x \in DOMAIN t.node : x # f => x \in DOMAIN t1.node
    BY DEF Gone
  <1>10. ASSUME NEW n \in 1 .. k - 1
         PROVE  Step(t1, Walk(t, p)[n - 1], p[n]) = Walk(t, p)[n]
    <2>1. n - 1 \in 0 .. k - 1 /\ n \in 0 .. k - 1 /\ n \in 1 .. Len(p)
          /\ n - 1 \in 0 .. Len(p) /\ n \in 0 .. Len(p)
      BY <1>1, <1>6
    <2>2. PICK x \in DOMAIN t.node, y \in DOMAIN t.node :
             /\ Walk(t, p)[n - 1] = At("FS_SUCCESS", x) /\ Walk(t, p)[n] = At("FS_SUCCESS", y)
             /\ x # f /\ y # f
      BY <2>1, <1>3, <1>7
    <2>3. PICK c : c = p[n]
      OBVIOUS
    <2>4. Step(t, At("FS_SUCCESS", x), c) = At("FS_SUCCESS", y)
      BY <2>1, <2>2, <2>3, <1>4
    <2>5. /\ x \in DOMAIN t1.node /\ t1.node[x] = t.node[x]
          /\ (y \in Kids(t, x, c) => y \in Kids(t1, x, c))
      <3>1. x \in DOMAIN t1.node
        BY <2>2, <1>9
      <3>2. Kids(t1, x, c) = Kids(t, x, c) \ {f} /\ t1.node[x] = t.node[x]
        BY <3>1, <1>8
      <3> QED BY <3>1, <3>2, <2>2
    <2>6. Step(t1, At("FS_SUCCESS", x), c) = At("FS_SUCCESS", y)
      BY <2>4, <2>5, <1>2, StepKept
    <2> QED BY <2>2, <2>3, <2>6
  <1>11. Walk(t1, p)[k - 1] = Walk(t, p)[k - 1]
    <2>1. PICK N \in Nat : N = k - 1 /\ N <= Len(p)
      BY <1>1, <1>6
    <2>2. \A n \in 1 .. N : Step(t1, Walk(t, p)[n - 1], p[n]) = Walk(t, p)[n]
      BY <2>1, <1>10
    <2>3. N <= Len(p) /\ Len(p) \in Nat
      BY <2>1, <1>2
    <2>4. \A n \in 1 .. N : p[n] = p[n]
      OBVIOUS
    <2>5. \A n \in 0 .. N : Walk(t1, p)[n] = Walk(t, p)[n]
      BY <2>2, <2>3, <2>4, SameWalk
    <2> QED BY <2>1, <2>5
  <1>12. k - 1 \in 0 .. k - 1 /\ k - 1 \in 0 .. Len(p) /\ k \in 0 .. Len(p) /\ k \in 1 .. Len(p)
    BY <1>1, <1>6
  <1>13. PICK x \in DOMAIN t.node : x # f /\ Walk(t, p)[k - 1] = At("FS_SUCCESS", x)
    BY <1>3, <1>7, <1>12
  <1>14. PICK c : c = p[k]
    OBVIOUS
  <1>15. Step(t, At("FS_SUCCESS", x), c) = At("FS_SUCCESS", f)
    BY <1>3, <1>4, <1>5, <1>12, <1>13, <1>14
  <1>16. Walk(t1, p)[k] = Step(t1, At("FS_SUCCESS", x), c)
    BY <1>2, <1>11, <1>12, <1>13, <1>14, WalkSteps
  <1>17. \A s1, s2, a, b : At(s1, a) = At(s2, b) => s1 = s2 /\ a = b
    <2>1. \A s, a : At(s, a).status = s /\ At(s, a).file = a
      BY DEF At
    <2> QED BY <2>1
  <1>18. c \notin {Dot, DotDot}
    <2>1. c # Dot
      BY <1>2, <1>13, <1>15, <1>17, StepFrom
    <2>2. t.node[x].parent # f
      <3>1. CASE x = root
        BY <3>1, <1>2 DEF Good, IsFs
      <3>2. CASE x # root
        BY <3>2 DEF Gone, FilesOf
      <3> QED BY <3>1, <3>2
    <2>3. c # DotDot
      BY <2>2, <1>2, <1>15, <1>17, StepFrom
    <2> QED BY <2>1, <2>3
  <1>19. Kids(t1, x, c) = {}
    <2>1. t.node[x].dir /\ Kids(t, x, c) # {}
      <3> SUFFICES ASSUME ~t.node[x].dir \/ Kids(t, x, c) = {} PROVE FALSE
        OBVIOUS
      <3>1. c \notin {Dot, DotDot} /\ (~t.node[x].dir \/ Kids(t, x, c) = {}) =>
               \E s : s # "FS_SUCCESS" /\ Step(t, At("FS_SUCCESS", x), c) = At(s, x)
        <4>1. Good(t) /\ x \in DOMAIN t.node
          BY <1>2
        <4> QED BY ONLY <4>1, StepFrom
      <3>2. PICK s : s # "FS_SUCCESS" /\ Step(t, At("FS_SUCCESS", x), c) = At(s, x)
        BY <3>1, <1>18
      <3> QED BY <3>2, <1>15, <1>17
    <2>2. PICK y \in Kids(t, x, c) : Step(t, At("FS_SUCCESS", x), c) = At("FS_SUCCESS", y)
      BY <2>1, <1>2, <1>18, StepFrom
    <2>3. y = f
      BY <2>2, <1>15, <1>17
    <2>4. \A z \in Kids(t, x, c) : z = f
      BY <2>2, <2>3, <1>2, ChildIsKid
    <2> QED BY <2>4, <1>8, <1>9, <1>13
  <1>20. PICK s : s # "FS_SUCCESS" /\ Step(t1, At("FS_SUCCESS", x), c) = At(s, x)
    <2>1. x \in DOMAIN t1.node
      BY <1>9, <1>13
    <2> QED BY <2>1, <1>2, <1>18, <1>19, StepFrom
  <1>21. Walk(t1, p)[k].status # "FS_SUCCESS"
    BY <1>16, <1>20 DEF At
  <1>22. \A n \in k .. Len(p) : Walk(t1, p)[n].status # "FS_SUCCESS"
    BY <1>2, <1>12, <1>21, ErrorSticks
  <1>23. Len(p) \in k .. Len(p)
    BY <1>1, <1>6
  <1> QED BY <1>22, <1>23 DEF parse_path

\* delete_file keeps the tree and returns exactly the blocks of the node it
\* removes; refuses without a change; and makes its path unknown.
LEMMA DeleteKeeps ==
    ASSUME NEW t, Inv(t), NEW path \in Seq(Components), NEW r, r = delete_file(t, path)
    PROVE  /\ Inv(r.fs) /\ (r.ret # "FS_SUCCESS" => r.fs = t)
           /\ r.ret = "FS_SUCCESS" => parse_path(r.fs, path).status # "FS_SUCCESS"
  <1>1. Good(t) /\ IsFs(t)
    BY DEF Inv, Good
  <1>2. PICK target : target = parse_path(t, path)
    OBVIOUS
  <1>3. PICK f : f = target.file
    OBVIOUS
  <1>4. ASSUME NEW s, s # "FS_SUCCESS", r = Exit(t, s, 0, 0)
        PROVE  r.fs = t /\ r.ret # "FS_SUCCESS"
    BY <1>1, <1>4, ExitCounts
  <1>5. CASE \E s : s # "FS_SUCCESS" /\ r = Exit(t, s, 0, 0)
    <2>1. PICK s : s # "FS_SUCCESS" /\ r = Exit(t, s, 0, 0)
      BY <1>5
    <2> QED BY <2>1, <1>4
  <1>6. CASE ~\E s : s # "FS_SUCCESS" /\ r = Exit(t, s, 0, 0)
    <2>1. /\ target.status = "FS_SUCCESS" /\ f # root /\ ~DirNotEmpty(t, f)
          /\ r = Exit(Unlinked(t, f), "FS_SUCCESS", 0, NodeBlocks(t.node[f].data))
      <3>1. r = IF target.status # "FS_SUCCESS" THEN Exit(t, target.status, 0, 0)
                ELSE IF f = root THEN Exit(t, "FS_PERMISSION_DENIED", 0, 0)
                ELSE IF DirNotEmpty(t, f) THEN Exit(t, "FS_DIR_NOT_EMPTY", 0, 0)
                ELSE IF Places(t.children[t.node[f].parent], f) = {} THEN Exit(t, "FS_INVALID_FS", 0, 0)
                ELSE Exit(Unlinked(t, f), "FS_SUCCESS", 0, NodeBlocks(t.node[f].data))
        BY <1>2, <1>3 DEF delete_file, Released
      <3>2. /\ r # Exit(t, "FS_PERMISSION_DENIED", 0, 0) /\ r # Exit(t, "FS_DIR_NOT_EMPTY", 0, 0)
            /\ r # Exit(t, "FS_INVALID_FS", 0, 0)
        BY <1>6
      <3>3. target.status # "FS_SUCCESS" => r # Exit(t, target.status, 0, 0)
        BY <1>6
      <3> QED BY <3>1, <3>2, <3>3
    <2>2. Len(path) \in Nat
      OBVIOUS
    <2>3. parse_path(t, path).status = "FS_SUCCESS" /\ parse_path(t, path).file = f
      BY <2>1, <1>2, <1>3
    <2>4. f \in FilesOf(t)
      <3>1. f \in DOMAIN t.node
        BY <2>2, <2>3, <1>1, PathLeads
      <3> QED BY <3>1, <2>1 DEF FilesOf
    <2>5. PICK t1 : t1 = Unlinked(t, f)
      OBVIOUS
    <2>6. Removed(t, t1, f)
      BY <2>5, <1>1, UnlinkFile
    <2>7. /\ Good(t1) /\ t1.blocks = t.blocks
          /\ \A g \in FilesOf(t) : t.node[g].parent # f
          /\ HeldBlocks(t1) = HeldBlocks(t) - NodeBlocks(t.node[f].data)
      BY <2>1, <2>4, <2>6, <1>1, UnlinkKeeps
    <2>8. PICK n \in Nat : n = NodeBlocks(t.node[f].data)
      BY DEF NodeBlocks
    <2>9. PICK b : b = t1.blocks + 0 - n
      OBVIOUS
    <2>10. Counted(t1, r.fs, b) /\ r.ret = "FS_SUCCESS"
      <3>1. r = Exit(t1, "FS_SUCCESS", 0, n) /\ IsFs(t1) /\ 0 \in Nat
        BY <2>1, <2>5, <2>7, <2>8 DEF Good
      <3> QED BY <3>1, <2>9, ExitCounts
    <2>11. Good(r.fs) /\ r.fs.blocks = b /\ HeldBlocks(r.fs) = HeldBlocks(t1)
      BY <2>7, <2>10, CountedGood
    <2>12. Inv(r.fs)
      <3>1. t.blocks \in Int /\ t.blocks = HeldBlocks(t)
        BY <1>1 DEF IsFs, Inv
      <3> QED BY <3>1, <2>7, <2>8, <2>9, <2>11 DEF Inv
    <2>13. PICK t2 : t2 = r.fs
      OBVIOUS
    <2>14. /\ DOMAIN t2.node = DOMAIN t.node \ {f}
           /\ \A x \in DOMAIN t2.node : t2.node[x] = t.node[x]
      <3>1. t2.node = t1.node
        BY <2>10, <2>13 DEF Counted
      <3> QED BY <3>1, <2>6 DEF Removed
    <2>15. Gone(t, t2, path, f)
      BY <2>2, <2>3, <2>4, <2>7, <2>11, <2>13, <2>14, <1>1 DEF Gone
    <2>16. parse_path(t2, path).status # "FS_SUCCESS"
      BY <2>15, OldIsGone
    <2> QED BY <2>10, <2>12, <2>13, <2>16
  <1> QED BY <1>5, <1>6

\* t1 is t with the content nd in the file f.
Rewritten(t, t1, f, nd) ==
    /\ t1 = [node |-> t1.node, children |-> t.children, blocks |-> t.blocks]
    /\ t1.node = [n \in DOMAIN t.node |->
                    IF n = f THEN [name |-> t.node[f].name, parent |-> t.node[f].parent,
                                   dir |-> t.node[f].dir, data |-> nd]
                    ELSE t.node[n]]

\* Content of the same length in a file keeps the tree.
LEMMA RewriteKeeps ==
    ASSUME NEW t, Inv(t), NEW f \in DOMAIN t.node, NEW nd \in Seq(Nat),
           nd = <<>> <=> t.node[f].data = <<>>, NEW t1, Rewritten(t, t1, f, nd)
    PROVE  Inv(t1)
  <1>1. /\ DOMAIN t1.node = DOMAIN t.node /\ t1.children = t.children /\ t1.blocks = t.blocks
        /\ t1.node[f].data = nd
        /\ \A n \in DOMAIN t.node : /\ t1.node[n].name = t.node[n].name
                                    /\ t1.node[n].parent = t.node[n].parent
                                    /\ t1.node[n].dir = t.node[n].dir
                                    /\ n # f => t1.node[n] = t.node[n]
    BY DEF Rewritten
  <1>2. Good(t) /\ IsFs(t) /\ IsTree(t)
    BY DEF Inv, Good
  <1>3. \A n \in DOMAIN t1.node : IsNode(t1.node[n])
    <2>1. IsNode(t1.node[f])
      <3>1. t.node[f].dir \in BOOLEAN
        BY <1>2 DEF IsFs, IsNode
      <3>2. t1.node[f] = [name |-> t.node[f].name, parent |-> t.node[f].parent,
                          dir |-> t.node[f].dir, data |-> nd]
        BY DEF Rewritten
      <3> QED BY <3>1, <3>2 DEF IsNode
    <2> QED BY <2>1, <1>1, <1>2 DEF IsFs
  <1>4. IsFs(t1)
    <2>1. t1.node = [n \in DOMAIN t1.node |-> t1.node[n]]
      BY DEF Rewritten
    <2>2. t1 = [node |-> t1.node, children |-> t1.children, blocks |-> t1.blocks]
      BY DEF Rewritten
    <2>3. root \in DOMAIN t.node
      BY <1>2 DEF IsFs
    <2>4. t1.node[root].parent = root /\ t1.node[root].dir
      BY <2>3, <1>1, <1>2 DEF IsFs
    <2> QED BY <2>1, <2>2, <2>4, <1>1, <1>2, <1>3 DEF IsFs
  <1>5. FilesOf(t1) = FilesOf(t)
    BY <1>1 DEF FilesOf
  <1>6. \A g \in FilesOf(t) : g \in DOMAIN t.node
    BY DEF FilesOf
  <1>7. IsTree(t1)
    <2>1. /\ DOMAIN t1.children = DOMAIN t1.node
          /\ \A d \in DOMAIN t1.children : \A i \in DOMAIN t1.children[d] :
                /\ t1.children[d][i] \in FilesOf(t1) /\ t1.node[t1.children[d][i]].parent = d
                /\ \A j \in DOMAIN t1.children[d] : t1.children[d][i] = t1.children[d][j] => i = j
      BY <1>1, <1>2, <1>5, <1>6 DEF IsTree
    <2>2. ASSUME NEW g \in FilesOf(t1)
          PROVE  /\ t1.node[g].parent \in DOMAIN t1.node /\ t1.node[t1.node[g].parent].dir
                 /\ \E i \in DOMAIN t1.children[t1.node[g].parent] : t1.children[t1.node[g].parent][i] = g
                 /\ \A h \in FilesOf(t1) \ {g} :
                       t1.node[h].parent = t1.node[g].parent => t1.node[h].name # t1.node[g].name
      BY <1>1, <1>2, <1>5, <1>6 DEF IsTree
    <2>3. \A S \in SUBSET FilesOf(t1) : S # {} => \E g \in S : t1.node[g].parent \notin S
      <3> SUFFICES ASSUME NEW S \in SUBSET FilesOf(t1), S # {}
                   PROVE  \E g \in S : t1.node[g].parent \notin S
        OBVIOUS
      <3>1. PICK g \in S : t.node[g].parent \notin S
        BY <1>2, <1>5 DEF IsTree
      <3> QED BY <3>1, <1>1, <1>5, <1>6
    <2> QED BY <2>1, <2>2, <2>3 DEF IsTree
  <1>8. HeldBlocks(t1) = HeldBlocks(t)
    <2>1. {g \in FilesOf(t1) : t1.node[g].data # <<>>} = {g \in FilesOf(t) : t.node[g].data # <<>>}
      BY <1>1, <1>5, <1>6
    <2> QED BY <2>1, <1>5 DEF HeldBlocks
  <1> QED BY <1>1, <1>4, <1>7, <1>8 DEF Inv, Good

\* write_file_content stays within the buffer the file has, so it keeps the tree
\* and the heap; it refuses without a change.
LEMMA WriteKeeps ==
    ASSUME NEW t, Inv(t), NEW path \in Seq(Components), NEW data \in Seq(Nat),
           NEW r, r = write_file_content(t, path, data)
    PROVE  Inv(r.fs) /\ (r.ret # "FS_SUCCESS" => r.fs = t)
  <1>1. Good(t) /\ IsFs(t)
    BY DEF Inv, Good
  <1>2. PICK target : target = parse_path(t, path)
    OBVIOUS
  <1>3. PICK f : f = target.file
    OBVIOUS
  <1>4. ASSUME NEW s, s # "FS_SUCCESS", r = Exit(t, s, 0, 0)
        PROVE  r.fs = t /\ r.ret # "FS_SUCCESS"
    BY <1>1, <1>4, ExitCounts
  <1>5. CASE \E s : s # "FS_SUCCESS" /\ r = Exit(t, s, 0, 0)
    <2>1. PICK s : s # "FS_SUCCESS" /\ r = Exit(t, s, 0, 0)
      BY <1>5
    <2> QED BY <2>1, <1>4
  <1>6. CASE ~\E s : s # "FS_SUCCESS" /\ r = Exit(t, s, 0, 0)
    <2> DEFINE nd(old) == data \o SubSeq(old, Len(data) + 1, Len(old))
    <2>1. /\ target.status = "FS_SUCCESS" /\ ~(Len(data) > Len(t.node[f].data))
          /\ r = Exit([t EXCEPT !.node[f].data = nd(@)], "FS_SUCCESS", 0, 0)
      <3>1. r = IF target.status # "FS_SUCCESS" THEN Exit(t, target.status, 0, 0)
                ELSE IF t.node[f].dir THEN Exit(t, "FS_IS_A_DIR", 0, 0)
                ELSE IF Len(data) > Len(t.node[f].data) THEN Exit(t, "FS_FILE_TOO_SMALL", 0, 0)
                ELSE Exit([t EXCEPT !.node[f].data = nd(@)], "FS_SUCCESS", 0, 0)
        BY <1>2, <1>3 DEF write_file_content
      <3>2. r # Exit(t, "FS_IS_A_DIR", 0, 0) /\ r # Exit(t, "FS_FILE_TOO_SMALL", 0, 0)
        BY <1>6
      <3>3. target.status # "FS_SUCCESS" => r # Exit(t, target.status, 0, 0)
        BY <1>6
      <3> HIDE DEF nd
      <3> QED BY <3>1, <3>2, <3>3
    <2>2. f \in DOMAIN t.node
      <3>1. Len(path) \in Nat /\ parse_path(t, path).status = "FS_SUCCESS" /\ parse_path(t, path).file = f
        BY <2>1, <1>2, <1>3
      <3> QED BY <3>1, <1>1, PathLeads
    <2>3. PICK old : old = t.node[f].data
      OBVIOUS
    <2>4. old \in Seq(Nat) /\ IsNode(t.node[f])
      BY <2>2, <2>3, <1>1 DEF IsFs, IsNode
    <2>5. PICK x : x = nd(old)
      OBVIOUS
    <2>6. x \in Seq(Nat) /\ (x = <<>> <=> old = <<>>)
      <3>1. PICK a \in Nat, b \in Nat : a = Len(data) /\ b = Len(old) /\ a <= b
        <4> HIDE DEF nd
        <4>1. Len(data) \in Nat /\ Len(old) \in Nat
          BY <2>4
        <4>2. ~(Len(data) > Len(old))
          BY <2>1, <2>3
        <4> QED BY <4>1, <4>2
      <3>2. PICK tail : tail = SubSeq(old, a + 1, b)
        OBVIOUS
      <3>3. tail \in Seq(Nat) /\ Len(tail) = b - a
        <4>1. \A i \in a + 1 .. b : old[i] \in Nat
          BY <2>4, <3>1
        <4>2. /\ tail \in Seq(Nat)
              /\ Len(tail) = IF a + 1 <= b THEN b - (a + 1) + 1 ELSE 0
          BY <4>1, <3>1, <3>2, SubSeqProperties
        <4> QED BY <4>2, <3>1
      <3>4. x = data \o tail
        BY <2>5, <3>1, <3>2
      <3>5. x \in Seq(Nat) /\ Len(x) = a + (b - a)
        BY <3>1, <3>3, <3>4
      <3>6. Len(x) = Len(old)
        BY <3>1, <3>5
      <3> QED BY <3>5, <3>6, <2>4
    <2>7. PICK t1 : t1 = [t EXCEPT !.node[f].data = nd(@)]
      OBVIOUS
    <2>8. Rewritten(t, t1, f, x)
      <3>1. PICK nodes, ch, b : nodes = t.node /\ ch = t.children /\ b = t.blocks
        OBVIOUS
      <3>2. t = [node |-> nodes, children |-> ch, blocks |-> b] /\ nodes = [n \in DOMAIN nodes |-> nodes[n]]
        BY <3>1, <1>1 DEF IsFs
      <3>3. PICK nodes1 : nodes1 = [nodes EXCEPT ![f].data = x]
        OBVIOUS
      <3>4. t1 = [t EXCEPT !.node = nodes1]
        <4> HIDE DEF nd
        <4>1. t1 = [t EXCEPT !.node = [nodes EXCEPT ![f].data = nd(nodes[f].data)]]
          BY <2>7, <3>1
        <4> QED BY <4>1, <2>3, <2>5, <3>1, <3>3
      <3>5. t1 = [node |-> nodes1, children |-> ch, blocks |-> b]
        BY <3>2, <3>4
      <3>6. PICK o : o = nodes[f]
        OBVIOUS
      <3>7. o = [name |-> o.name, parent |-> o.parent, dir |-> o.dir, data |-> o.data]
        BY <2>4, <3>1, <3>6 DEF IsNode
      <3>8. [o EXCEPT !.data = x] = [name |-> o.name, parent |-> o.parent, dir |-> o.dir, data |-> x]
        BY <3>7
      <3>9. nodes1 = [nodes EXCEPT ![f] = [o EXCEPT !.data = x]]
        BY <3>3, <3>6
      <3>10. nodes1 = [n \in DOMAIN nodes |-> IF n = f THEN [o EXCEPT !.data = x] ELSE nodes[n]]
        BY <3>2, <3>9
      <3> QED BY <3>1, <3>5, <3>6, <3>8, <3>10 DEF Rewritten
    <2>9. Inv(t1)
      BY <2>2, <2>3, <2>6, <2>8, RewriteKeeps
    <2>10. r.fs = t1 /\ r.ret = "FS_SUCCESS"
      <3>1. r = Exit(t1, "FS_SUCCESS", 0, 0) /\ IsFs(t1) /\ 0 \in Nat
        BY <2>1, <2>7, <2>9 DEF Inv, Good
      <3> QED BY <3>1, ExitCounts
    <2> QED BY <2>9, <2>10
  <1> QED BY <1>5, <1>6

\* What every call returns: a tree and a status.
LEMMA CreateReturns ==
    ASSUME NEW t, NEW path, NEW m, NEW data, NEW dir, NEW r, r = create_file(t, path, m, data, dir)
    PROVE  r = [fs |-> r.fs, ret |-> r.ret]
  <1>1. \E t1, s, a, b : r = Exit(t1, s, a, b)
    BY DEF create_file
  <1>2. PICK t1, s, a, b : r = Exit(t1, s, a, b)
    BY <1>1
  <1> QED BY <1>2 DEF Exit

\* g goes through N components of create_file_force's path
IsForce(g, t, path, m, data, dir, N) ==
    /\ g = [i \in 0 .. N |-> g[i]]
    /\ g[0] = Exit(t, "FS_SUCCESS", 0, 0)
    /\ \A n \in 1 .. N : g[n] = ForceStep(t, g[n - 1], path, n, m, data, dir)

\* The definition of Forced has a solution.
LEMMA ForceExists ==
    ASSUME NEW t, NEW path, NEW m, NEW data, NEW dir, NEW N \in Nat
    PROVE  \E g : IsForce(g, t, path, m, data, dir, N)
  <1> DEFINE Walks(k) == \E g : IsForce(g, t, path, m, data, dir, k)
             Bad == {k \in Nat : ~Walks(k)}
  <1>1. Walks(0)
    <2> DEFINE g == [i \in 0 .. 0 |-> Exit(t, "FS_SUCCESS", 0, 0)]
    <2>1. g = [i \in 0 .. 0 |-> g[i]]
      OBVIOUS
    <2>2. /\ g[0] = Exit(t, "FS_SUCCESS", 0, 0)
          /\ \A n \in 1 .. 0 : g[n] = ForceStep(t, g[n - 1], path, n, m, data, dir)
      OBVIOUS
    <2> HIDE DEF g
    <2> QED BY <2>1, <2>2 DEF IsForce
  <1>2. ASSUME NEW k \in Nat \ {0}, Walks(k - 1)
        PROVE  Walks(k)
    <2>1. PICK g : /\ g = [i \in 0 .. (k - 1) |-> g[i]]
                   /\ g[0] = Exit(t, "FS_SUCCESS", 0, 0)
                   /\ \A n \in 1 .. (k - 1) : g[n] = ForceStep(t, g[n - 1], path, n, m, data, dir)
      BY <1>2 DEF IsForce
    <2> DEFINE h == [i \in 0 .. k |-> IF i < k THEN g[i] ELSE ForceStep(t, g[k - 1], path, k, m, data, dir)]
    <2>2. h = [i \in 0 .. k |-> h[i]]
      OBVIOUS
    <2>3. h[0] = Exit(t, "FS_SUCCESS", 0, 0)
      BY <2>1
    <2>4. ASSUME NEW n \in 1 .. k PROVE h[n] = ForceStep(t, h[n - 1], path, n, m, data, dir)
      <3>1. CASE n < k
        <4>1. h[n] = g[n] /\ h[n - 1] = g[n - 1] /\ n \in 1 .. (k - 1)
          BY <3>1
        <4> QED BY <4>1, <2>1
      <3>2. CASE n = k
        BY <3>2
      <3> QED BY <3>1, <3>2
    <2> HIDE DEF h
    <2>5. IsForce(h, t, path, m, data, dir, k)
      BY <2>2, <2>3, <2>4 DEF IsForce
    <2> QED BY <2>5
  <1> HIDE DEF Walks
  <1>3. Bad = {}
    <2> SUFFICES ASSUME Bad # {} PROVE FALSE
      OBVIOUS
    <2>1. PICK k \in Bad : \A j \in Bad : k <= j
      BY LeastNumber
    <2>2. k \in Nat \ {0} /\ k - 1 \in Nat /\ k - 1 \notin Bad
      BY <2>1, <1>1
    <2> QED BY <2>1, <2>2, <1>2
  <1>4. Walks(N)
    BY <1>3
  <1> QED BY <1>4 DEF Walks

\* Forced takes one ForceStep per component.
LEMMA ForceSteps ==
    ASSUME NEW t, NEW path, Len(path) \in Nat, NEW m, NEW data, NEW dir,
           NEW f, f = Forced(t, path, m, data, dir)
    PROVE  /\ f[0] = Exit(t, "FS_SUCCESS", 0, 0)
           /\ \A n \in 1 .. Len(path) : f[n] = ForceStep(t, f[n - 1], path, n, m, data, dir)
  <1>1. PICK N \in Nat : N = Len(path)
    OBVIOUS
  <1> DEFINE Rec(h) == [n \in 0 .. N |-> IF n = 0 THEN Exit(t, "FS_SUCCESS", 0, 0)
                                          ELSE ForceStep(t, h[n - 1], path, n, m, data, dir)]
  <1>2. PICK g : IsForce(g, t, path, m, data, dir, N)
    BY ForceExists
  <1>3. g = Rec(g)
    <2>1. ASSUME NEW n \in 0 .. N
          PROVE  g[n] = IF n = 0 THEN Exit(t, "FS_SUCCESS", 0, 0)
                        ELSE ForceStep(t, g[n - 1], path, n, m, data, dir)
      <3>1. CASE n = 0
        BY <3>1, <1>2 DEF IsForce
      <3>2. CASE n # 0
        <4>1. n \in 1 .. N
          BY <3>2
        <4> QED BY <4>1, <3>2, <1>2 DEF IsForce
      <3> QED BY <3>1, <3>2
    <2> QED BY <2>1, <1>2 DEF IsForce
  <1>4. f = CHOOSE h : h = Rec(h)
    BY <1>1 DEF Forced
  <1>5. f = Rec(f)
    <2> HIDE DEF Rec
    <2> QED BY <1>3, <1>4
  <1>6. f[0] = Exit(t, "FS_SUCCESS", 0, 0)
    BY <1>5
  <1>7. ASSUME NEW n \in 1 .. N PROVE f[n] = ForceStep(t, f[n - 1], path, n, m, data, dir)
    <2>1. n \in 0 .. N /\ n # 0
      OBVIOUS
    <2> QED BY <2>1, <1>5
  <1> QED BY <1>1, <1>6, <1>7

\* create_file_force keeps the tree and the count of its blocks, wherever it
\* stops.
LEMMA ForceKeeps ==
    ASSUME NEW t, Inv(t), NEW path \in Seq(Components), NEW m, NEW data \in Seq(Nat),
           NEW dir \in BOOLEAN
    PROVE  Inv(create_file_force(t, path, m, data, dir).fs)
  <1>1. PICK g : g = Forced(t, path, m, data, dir)
    OBVIOUS
  <1>2. PICK L \in Nat : L = Len(path)
    OBVIOUS
  <1>3. /\ g[0] = Exit(t, "FS_SUCCESS", 0, 0)
        /\ \A n \in 1 .. L : g[n] = ForceStep(t, g[n - 1], path, n, m, data, dir)
    <2>1. Len(path) \in Nat
      BY <1>2
    <2>2. /\ g[0] = Exit(t, "FS_SUCCESS", 0, 0)
          /\ \A n \in 1 .. Len(path) : g[n] = ForceStep(t, g[n - 1], path, n, m, data, dir)
      BY <2>1, <1>1, ForceSteps
    <2> QED BY <2>2, <1>2
  <1> DEFINE Bad == {n \in 0 .. L : ~Inv(g[n].fs)}
  <1>4. 0 \notin Bad
    <2>1. g[0].fs = t
      BY <1>3, ExitCounts DEF Inv, Good
    <2> QED BY <2>1
  <1>5. ASSUME NEW n \in 1 .. L, Inv(g[n - 1].fs) PROVE Inv(g[n].fs)
    <2>1. PICK before, t0 : before = g[n - 1] /\ t0 = before.fs
      OBVIOUS
    <2>2. PICK rest : rest = SubSeq(path, n + 1, Len(path))
      OBVIOUS
    <2>3. rest \in Seq(Components)
      <3>1. \A i \in n + 1 .. L : path[i] \in Components
        BY <1>2
      <3>2. n + 1 \in Int /\ L \in Int
        OBVIOUS
      <3> HIDE DEF Components
      <3> QED BY <3>1, <3>2, <2>2, <1>2, SubSeqProperties
    <2>4. PICK left : left = m - 3 * Cardinality(DOMAIN before.fs.node \ DOMAIN t.node)
      OBVIOUS
    <2>5. PICK made : made = IF n = Len(path) THEN create_file(t0, rest, left, data, dir)
                             ELSE create_folder(t0, rest, left)
      OBVIOUS
    <2>6. \/ g[n] = before
          \/ g[n] = [made EXCEPT !.ret = IF @ = "FS_SUCCESS" THEN @ ELSE "FS_FAIL"]
      BY <1>3, <2>1, <2>2, <2>4, <2>5 DEF ForceStep
    <2>7. Inv(made.fs) /\ made = [fs |-> made.fs, ret |-> made.ret]
      <3>1. Inv(t0)
        BY <1>5, <2>1
      <3>2. CASE n = Len(path)
        <4>1. made = create_file(t0, rest, left, data, dir)
          BY <3>2, <2>5
        <4> QED BY <4>1, <3>1, <2>3, CreateKeeps, CreateReturns
      <3>3. CASE n # Len(path)
        <4>1. PICK none, yes : none = <<>> /\ yes = TRUE
          OBVIOUS
        <4>2. made = create_file(t0, rest, left, none, yes)
          BY <3>3, <4>1, <2>5 DEF create_folder
        <4>3. none \in Seq(Nat) /\ yes \in BOOLEAN
          BY <4>1
        <4> QED BY <4>2, <4>3, <3>1, <2>3, CreateKeeps, CreateReturns
      <3> QED BY <3>2, <3>3
    <2>8. g[n] = before \/ g[n].fs = made.fs
      BY <2>6, <2>7
    <2> QED BY <1>5, <2>1, <2>7, <2>8
  <1>6. Bad = {}
    <2> SUFFICES ASSUME Bad # {} PROVE FALSE
      OBVIOUS
    <2>1. PICK k \in Bad : \A j \in Bad : k <= j
      <3>1. Bad \subseteq Nat
        OBVIOUS
      <3> HIDE DEF Bad
      <3> QED BY <3>1, LeastNumber
    <2>2. k \in 1 .. L /\ k - 1 \in 0 .. L /\ k - 1 \notin Bad
      BY <2>1, <1>4
    <2> QED BY <2>1, <2>2, <1>5
  <1>7. Inv(g[L].fs)
    BY <1>6
  <1> QED BY <1>1, <1>2, <1>7 DEF create_file_force

-----------------------------------------------------------------------------
(* The file system on its own.                                             *)

\* What holds after every call.
Kept == Inv(fs) /\ CreatedResolves /\ DeletedGone

\* What a call may do.
Outcome ==
    /\ Kept'
    /\ ret' # "FS_SUCCESS" /\ call'.fn # "create_file_force" => fs' = fs

\* A call of create_file.
LEMMA CreateCall ==
    ASSUME Inv(fs), NEW path \in Seq(Components), NEW m, NEW data \in Seq(Nat), NEW dir \in BOOLEAN,
           Calls("create_file", path, data, dir, create_file(fs, path, m, data, dir))
    PROVE  Outcome
  <1>1. PICK t, r : t = fs /\ r = create_file(fs, path, m, data, dir)
    OBVIOUS
  <1>2. r = create_file(t, path, m, data, dir) /\ Inv(t)
    BY <1>1
  <1>3. /\ Inv(r.fs) /\ (r.ret # "FS_SUCCESS" => r.fs = t)
        /\ r.ret = "FS_SUCCESS" =>
             /\ parse_path(r.fs, path).status = "FS_SUCCESS"
             /\ r.fs.node[parse_path(r.fs, path).file].data = data
             /\ r.fs.node[parse_path(r.fs, path).file].dir = dir
    BY <1>2, CreateKeeps
  <1>4. /\ fs' = r.fs /\ ret' = r.ret /\ call'.fn = "create_file"
        /\ ret' = "FS_SUCCESS" => call'.args = [path |-> path, data |-> data, dir |-> dir]
    BY <1>1 DEF Calls
  <1>5. CreatedResolves'
    BY <1>3, <1>4 DEF CreatedResolves
  <1>6. DeletedGone'
    BY <1>4 DEF DeletedGone
  <1> QED BY <1>1, <1>3, <1>4, <1>5, <1>6 DEF Outcome, Kept

\* Every call keeps the tree, accounts for the heap and does what its status
\* says.
LEMMA NextKeeps ==
    ASSUME Inv(fs), Next
    PROVE  Outcome
  <1>1. Paths \subseteq Seq(Components) /\ \A c \in Contents : c \in Seq(Nat)
    BY FsAssumption
  <1>2. CASE CreateFile
    <2>1. PICK path \in Paths, m \in 0 .. PLENTY, data \in Contents, dir \in BOOLEAN :
             Calls("create_file", path, data, dir, create_file(fs, path, m, data, dir))
      BY <1>2 DEF CreateFile
    <2>2. path \in Seq(Components) /\ data \in Seq(Nat)
      BY <1>1
    <2> QED BY <2>1, <2>2, CreateCall
  <1>3. CASE CreateFolder
    <2>1. PICK path \in Paths, m \in 0 .. PLENTY :
             Calls("create_file", path, <<>>, TRUE, create_file(fs, path, m, <<>>, TRUE))
      BY <1>3 DEF CreateFolder, create_folder
    <2>2. PICK none, yes : none = <<>> /\ yes = TRUE
      OBVIOUS
    <2>3. path \in Seq(Components) /\ none \in Seq(Nat) /\ yes \in BOOLEAN
      BY <1>1, <2>2
    <2>4. Calls("create_file", path, none, yes, create_file(fs, path, m, none, yes))
      BY <2>1, <2>2
    <2> QED BY <2>3, <2>4, CreateCall
  <1>4. CASE DeleteFile
    <2>1. PICK path \in Paths : Calls("delete_file", path, <<>>, FALSE, delete_file(fs, path))
      BY <1>4 DEF DeleteFile
    <2>2. PICK t, r : t = fs /\ r = delete_file(fs, path)
      OBVIOUS
    <2>3. r = delete_file(t, path) /\ Inv(t) /\ path \in Seq(Components)
      BY <2>2, <1>1
    <2>4. /\ Inv(r.fs) /\ (r.ret # "FS_SUCCESS" => r.fs = t)
          /\ r.ret = "FS_SUCCESS" => parse_path(r.fs, path).status # "FS_SUCCESS"
      BY <2>3, DeleteKeeps
    <2>5. /\ fs' = r.fs /\ ret' = r.ret /\ call'.fn = "delete_file"
          /\ ret' = "FS_SUCCESS" => call'.args.path = path
      BY <2>1, <2>2 DEF Calls
    <2>6. CreatedResolves'
      BY <2>5 DEF CreatedResolves
    <2>7. DeletedGone'
      BY <2>4, <2>5 DEF DeletedGone
    <2> QED BY <2>2, <2>4, <2>5, <2>6, <2>7 DEF Outcome, Kept
  <1>5. CASE WriteFile
    <2>1. PICK path \in Paths, data \in Contents :
             Calls("write_file_content", <<>>, <<>>, FALSE, write_file_content(fs, path, data))
      BY <1>5 DEF WriteFile
    <2>2. PICK t, r : t = fs /\ r = write_file_content(fs, path, data)
      OBVIOUS
    <2>3. r = write_file_content(t, path, data) /\ Inv(t) /\ path \in Seq(Components) /\ data \in Seq(Nat)
      BY <2>2, <1>1
    <2>4. Inv(r.fs) /\ (r.ret # "FS_SUCCESS" => r.fs = t)
      BY <2>3, WriteKeeps
    <2>5. fs' = r.fs /\ ret' = r.ret /\ call'.fn = "write_file_content"
      BY <2>1, <2>2 DEF Calls
    <2>6. CreatedResolves' /\ DeletedGone'
      BY <2>5 DEF CreatedResolves, DeletedGone
    <2> QED BY <2>2, <2>4, <2>5, <2>6 DEF Outcome, Kept
  <1>6. CASE CreateFileForce
    <2>1. PICK path \in Paths, m \in 0 .. 2 * PLENTY, data \in Contents :
             Calls("create_file_force", path, <<>>, FALSE, create_file_force(fs, path, m, data, FALSE))
      BY <1>6 DEF CreateFileForce
    <2>2. PICK t, r, no : t = fs /\ r = create_file_force(fs, path, m, data, FALSE) /\ no = FALSE
      OBVIOUS
    <2>3. /\ r = create_file_force(t, path, m, data, no) /\ Inv(t)
          /\ path \in Seq(Components) /\ data \in Seq(Nat) /\ no \in BOOLEAN
      BY <2>2, <1>1
    <2>4. Inv(r.fs)
      BY <2>3, ForceKeeps
    <2>5. fs' = r.fs /\ call'.fn = "create_file_force"
      BY <2>1, <2>2 DEF Calls
    <2>6. CreatedResolves' /\ DeletedGone'
      BY <2>5 DEF CreatedResolves, DeletedGone
    <2> QED BY <2>4, <2>5, <2>6 DEF Outcome, Kept
  <1> QED BY <1>2, <1>3, <1>4, <1>5, <1>6 DEF Next

\* The file system that init_fs sets up.
LEMMA InitKept ==
    ASSUME Init
    PROVE  Kept
  <1>1. PICK t, top : /\ t = fs /\ top = [name |-> "root", parent |-> root, dir |-> TRUE, data |-> <<>>]
    OBVIOUS
  <1>2. t = [node |-> [n \in {root} |-> top], children |-> [n \in {root} |-> <<>>], blocks |-> 0]
    BY <1>1 DEF Init
  <1>3. /\ DOMAIN t.node = {root} /\ DOMAIN t.children = {root} /\ t.node[root] = top
        /\ t.children[root] = <<>> /\ t.blocks = 0
    BY <1>2
  <1>4. FilesOf(t) = {}
    BY <1>3 DEF FilesOf
  <1>5. IsNode(top) /\ top.parent = root /\ top.dir
    BY <1>1 DEF IsNode
  <1>6. IsFs(t)
    <2>1. t.children \in [DOMAIN t.node -> Seq(Nodes)]
      <3>1. <<>> \in Seq(Nodes)
        OBVIOUS
      <3> QED BY <3>1, <1>2, <1>3
    <2>2. IsFiniteSet(DOMAIN t.node)
      BY <1>3, FS_Singleton
    <2> QED BY <2>1, <2>2, <1>2, <1>3, <1>5 DEF IsFs
  <1>7. IsTree(t)
    <2>1. \A d \in DOMAIN t.children : DOMAIN t.children[d] = {}
      BY <1>3
    <2> QED BY <2>1, <1>3, <1>4 DEF IsTree
  <1>8. HeldBlocks(t) = 0
    <2>1. {f \in FilesOf(t) : t.node[f].data # <<>>} = {}
      BY <1>4
    <2>2. Cardinality({}) = 0
      BY FS_EmptySet
    <2> QED BY <2>1, <2>2, <1>4 DEF HeldBlocks
  <1>9. Inv(fs)
    BY <1>1, <1>3, <1>6, <1>7, <1>8 DEF Inv, Good
  <1>10. CreatedResolves /\ DeletedGone
    BY DEF Init, CreatedResolves, DeletedGone
  <1> QED BY <1>9, <1>10 DEF Kept

\* A step that leaves the file system alone.
LEMMA KeptUnchanged ==
    ASSUME Kept, UNCHANGED vars
    PROVE  Kept'
  BY DEF Kept, vars, CreatedResolves, DeletedGone

\* Whatever the order of calls, the memory left at each of them and the reuse
\* of addresses: the nodes form a tree (TreeOK), every heap block taken belongs
\* to a linked node (NoLeak), a created path resolves to what was created and a
\* deleted one no longer resolves.
THEOREM FsInvariant == Spec => []Kept
  <1>1. Init => Kept
    BY InitKept
  <1>2. Kept /\ [Next]_vars => Kept'
    BY NextKeeps, KeptUnchanged DEF Outcome, Kept
  <1> QED BY <1>1, <1>2, PTL DEF Spec

-----------------------------------------------------------------------------
(* The initial ramdisk.                                                    *)

\* The entry the parser works on has data that ends on the disk.
Parsed == EntriesAt(offset) # {} /\ DataOK

InitramfsTypeOK ==
    /\ disk.entries \in Seq(Entry) /\ disk.size \in Nat
    /\ offset \in Nat /\ depth \in Nat /\ read \in Nat

InitramfsInv ==
    /\ Kept /\ InitramfsTypeOK /\ ParserInBounds
    /\ pc = "parents" => Parsed

\* An entry's name without "./" is a path.
LEMMA StrippedPath ==
    ASSUME NEW e \in Entry
    PROVE  Stripped(e) \in Seq(Components)
  <1> DEFINE real == {k \in DOMAIN e.path : e.path[k] # Dot}
             first == CHOOSE k \in real : \A j \in real : k <= j
  <1>1. e.path \in Seq(Components)
    BY DEF Entry
  <1>2. PICK L \in Nat : L = Len(e.path) /\ DOMAIN e.path = 1 .. L
    BY <1>1
  <1>3. CASE real # {}
    <2>1. real \subseteq Nat /\ real \subseteq 1 .. L
      BY <1>2
    <2>2. first \in real
      <3> HIDE DEF real
      <3>1. \E k \in real : \A j \in real : k <= j
        BY <1>3, <2>1, LeastNumber
      <3> QED BY <3>1
    <2>3. PICK a \in 1 .. L : a = first
      BY <2>1, <2>2
    <2>4. \A i \in a .. L : e.path[i] \in Components
      BY <1>1, <1>2
    <2>5. a \in Int /\ L \in Int
      OBVIOUS
    <2>6. SubSeq(e.path, a, L) \in Seq(Components)
      <3> HIDE DEF Components
      <3> QED BY <2>4, <2>5, SubSeqProperties
    <2>7. Stripped(e) = SubSeq(e.path, first, Len(e.path))
      BY <1>3 DEF Stripped
    <2> QED BY <2>3, <2>6, <2>7, <1>2
  <1>4. CASE real = {}
    <2>1. <<>> \in Seq(Components) /\ <<Dot>> \in Seq(Components)
      BY DEF Components
    <2>2. Stripped(e) \in {<<>>, <<Dot>>}
      BY <1>4 DEF Stripped
    <2> HIDE DEF Components
    <2> QED BY <2>1, <2>2
  <1> QED BY <1>3, <1>4

\* Where there is an entry it is one of the archive's.
LEMMA CurrentEntry ==
    ASSUME InitramfsTypeOK, EntriesAt(offset) # {}
    PROVE  Current \in Entry
  <1>1. PICK i : i = CHOOSE k \in EntriesAt(offset) : TRUE
    OBVIOUS
  <1>2. i \in EntriesAt(offset)
    BY <1>1
  <1>3. i \in DOMAIN disk.entries
    BY <1>2 DEF EntriesAt
  <1>4. disk.entries[i] \in Entry
    <2>1. PICK es \in Seq(Entry) : es = disk.entries
      BY DEF InitramfsTypeOK
    <2> HIDE DEF Entry
    <2> QED BY <2>1, <1>3
  <1> QED BY <1>1, <1>4 DEF Current

\* Padding stays within three bytes.
LEMMA PaddedNat ==
    ASSUME NEW n \in Nat
    PROVE  Padded(n) \in Nat /\ Padded(n) >= n
  <1>1. n % 4 \in 0 .. 3
    OBVIOUS
  <1>2. (4 - (n % 4)) % 4 \in 0 .. 3
    BY <1>1
  <1> QED BY <1>2 DEF Padded

\* The offsets the parser computes from an entry.
LEMMA OffsetsNat ==
    ASSUME InitramfsTypeOK, EntriesAt(offset) # {}
    PROVE  /\ Current.namesize \in Nat /\ Current.filesize \in Nat
           /\ NameEnd \in Nat /\ NameEnd >= offset + HEADER + Current.namesize
           /\ DataEnd \in Nat /\ DataEnd = NameEnd + Current.filesize /\ Padded(DataEnd) \in Nat
  <1>1. Current.namesize \in Nat /\ Current.filesize \in Nat
    BY CurrentEntry DEF Entry
  <1>2. PICK n \in Nat : n = offset + HEADER + Current.namesize
    BY <1>1 DEF InitramfsTypeOK, HEADER
  <1>3. NameEnd \in Nat /\ NameEnd >= n
    <2>1. NameEnd = Padded(n)
      BY <1>2 DEF NameEnd
    <2> QED BY <2>1, PaddedNat
  <1>4. DataEnd = NameEnd + Current.filesize
    BY DEF DataEnd
  <1>5. PICK d \in Nat : d = DataEnd
    BY <1>1, <1>3, <1>4
  <1> QED BY <1>1, <1>2, <1>3, <1>4, <1>5, PaddedNat

\* What the parser has read stays on the disk if it reads only what fits.
LEMMA ReadsInBounds ==
    ASSUME InitramfsTypeOK, read <= disk.size, NEW to \in Nat, to <= disk.size, Reads(to)
    PROVE  read' \in Nat /\ read' <= disk.size
  BY DEF Reads, InitramfsTypeOK

\* The entry the parser works on does not change while its parents are made.
LEMMA SameEntry ==
    ASSUME Parsed, disk' = disk, offset' = offset
    PROVE  Parsed'
  BY DEF Parsed, EntriesAt, DataOK, NameEnd, Current, Fits

\* What every step does to the file system, and what the parser keeps.
RamdiskStep ==
    /\ InitramfsInv'
    /\ UNCHANGED vars \/ (ret' # "FS_SUCCESS" /\ call'.fn # "create_file_force" => fs' = fs)

\* A header is looked at: it is refused, or its name is taken up.
LEMMA HeaderStep ==
    ASSUME InitramfsInv, BadHeader \/ BadEntry \/ GoodEntry
    PROVE  RamdiskStep
  <1>1. /\ pc = "header" /\ UNCHANGED vars /\ disk' = disk /\ Kept' /\ read <= disk.size
        /\ disk.size \in Nat /\ offset \in Nat
    BY KeptUnchanged DEF BadHeader, BadEntry, GoodEntry, InitFsPanics, Advance, InitramfsInv,
                         ParserInBounds, InitramfsTypeOK
  <1>2. InitramfsTypeOK
    BY DEF InitramfsInv
  <1>3. CASE BadHeader
    <2>1. PICK to : Reads(to) /\ to = IF Fits(offset, HEADER) THEN offset + HEADER ELSE 0
      BY <1>3 DEF BadHeader
    <2>2. to \in Nat /\ to <= disk.size
      BY <2>1, <1>1 DEF Fits, HEADER
    <2>3. read' \in Nat /\ read' <= disk.size
      BY <2>1, <2>2, <1>1, <1>2, ReadsInBounds
    <2>4. pc' = "panic" /\ UNCHANGED <<disk, offset, depth>>
      BY <1>3 DEF BadHeader, InitFsPanics
    <2> QED BY <2>3, <2>4, <1>1, <1>2 DEF RamdiskStep, InitramfsInv, InitramfsTypeOK, ParserInBounds
  <1>4. CASE BadEntry
    <2>1. PICK to : Reads(to) /\ to = offset + HEADER + IF NameLengthOK THEN Current.namesize ELSE 0
      BY <1>4 DEF BadEntry
    <2>2. EntriesAt(offset) # {} /\ Fits(offset, HEADER)
      BY <1>4 DEF BadEntry, HeaderOK
    <2>3. Current.namesize \in Nat
      BY <2>2, <1>2, OffsetsNat
    <2>4. to \in Nat /\ to <= disk.size
      <3>1. CASE NameLengthOK
        <4>1. Fits(offset + HEADER, Current.namesize)
          BY <3>1 DEF NameLengthOK
        <4> QED BY <4>1, <3>1, <2>1, <2>3, <1>1 DEF Fits, HEADER
      <3>2. CASE ~NameLengthOK
        BY <3>2, <2>1, <2>2, <1>1 DEF Fits, HEADER
      <3> QED BY <3>1, <3>2
    <2>5. read' \in Nat /\ read' <= disk.size
      BY <2>1, <2>4, <1>1, <1>2, ReadsInBounds
    <2>6. pc' = "panic" /\ UNCHANGED <<disk, offset, depth>>
      BY <1>4 DEF BadEntry, InitFsPanics
    <2> QED BY <2>5, <2>6, <1>1, <1>2 DEF RamdiskStep, InitramfsInv, InitramfsTypeOK, ParserInBounds
  <1>5. CASE GoodEntry
    <2>1. EntriesAt(offset) # {} /\ NameLengthOK
      BY <1>5 DEF GoodEntry, HeaderOK
    <2>2. Current.namesize \in Nat /\ Padded(DataEnd) \in Nat
      BY <2>1, <1>2, OffsetsNat
    <2>3. PICK to : Reads(to) /\ to = offset + HEADER + Current.namesize
      BY <1>5 DEF GoodEntry
    <2>4. to \in Nat /\ to <= disk.size
      BY <2>1, <2>2, <2>3, <1>1 DEF NameLengthOK, Fits, HEADER
    <2>5. read' \in Nat /\ read' <= disk.size
      BY <2>3, <2>4, <1>1, <1>2, ReadsInBounds
    <2>6. \/ pc' \in {"mounted"} /\ UNCHANGED <<offset, depth>>
          \/ pc' = "parents" /\ depth' = 1 /\ UNCHANGED <<disk, offset>> /\ Parsed
          \/ pc' \in {"header", "panic"} /\ depth' = 0 /\ offset' \in {offset, Padded(DataEnd)}
      BY <1>5, <2>1 DEF GoodEntry, Advance, Parsed
    <2>7. InitramfsTypeOK'
      BY <2>2, <2>5, <2>6, <1>1, <1>2 DEF InitramfsTypeOK
    <2>8. pc' = "parents" => Parsed'
      BY <2>6, SameEntry
    <2> QED BY <2>5, <2>7, <2>8, <1>1 DEF RamdiskStep, InitramfsInv, ParserInBounds
  <1> QED BY <1>3, <1>4, <1>5

\* A parent directory of the entry is created, found, or refused.
LEMMA EnsureParentStep ==
    ASSUME InitramfsInv, EnsureParent
    PROVE  RamdiskStep
  <1>1. /\ pc = "parents" /\ Parsed /\ InitramfsTypeOK /\ EntriesAt(offset) # {} /\ Kept
        /\ read <= disk.size
    BY DEF EnsureParent, InitramfsInv, Parsed, ParserInBounds
  <1>2. PICK path \in Seq(Components) : path = Stripped(Current)
    BY <1>1, CurrentEntry, StrippedPath
  <1>3. PICK prefix : prefix = SubSeq(path, 1, depth)
    OBVIOUS
  <1>4. prefix \in Seq(Components)
    <2>1. PICK k \in Nat : k = depth /\ k < Len(path)
      BY <1>1, <1>2 DEF EnsureParent, InitramfsTypeOK
    <2>2. \A i \in 1 .. k : path[i] \in Components
      BY <2>1
    <2>3. 1 \in Int /\ k \in Int
      OBVIOUS
    <2> HIDE DEF Components
    <2>4. SubSeq(path, 1, k) \in Seq(Components)
      BY <2>2, <2>3, SubSeqProperties
    <2> QED BY <2>1, <2>4, <1>3
  <1>5. PICK none, yes : none = <<>> /\ yes = TRUE
    OBVIOUS
  <1>6. PICK m \in 0 .. PLENTY :
          /\ Calls("create_file", prefix, none, yes, create_file(fs, prefix, m, none, yes))
          /\ \/ depth' = depth + 1 /\ UNCHANGED <<pc, disk, offset>>
             \/ pc' = "panic" /\ UNCHANGED <<disk, offset, depth>>
    BY <1>2, <1>3, <1>5 DEF EnsureParent, create_folder, InitFsPanics
  <1>7. none \in Seq(Nat) /\ yes \in BOOLEAN
    BY <1>5
  <1>8. Outcome
    <2>1. Inv(fs)
      BY <1>1 DEF Kept
    <2> QED BY <2>1, <1>4, <1>6, <1>7, CreateCall
  <1>9. Parsed'
    BY <1>1, <1>6, SameEntry
  <1>10. UNCHANGED read
    BY DEF EnsureParent
  <1>11. InitramfsTypeOK' /\ ParserInBounds'
    BY <1>1, <1>6, <1>10 DEF InitramfsTypeOK, ParserInBounds
  <1> QED BY <1>8, <1>9, <1>11 DEF RamdiskStep, InitramfsInv, Outcome

\* The entry itself is created, found, or refused.
LEMMA CreateEntryStep ==
    ASSUME InitramfsInv, CreateEntry
    PROVE  RamdiskStep
  <1>1. /\ pc = "parents" /\ Parsed /\ InitramfsTypeOK /\ EntriesAt(offset) # {} /\ Kept
        /\ read <= disk.size /\ DataOK
    BY DEF CreateEntry, InitramfsInv, Parsed, ParserInBounds
  <1>2. PICK path \in Seq(Components) : path = Stripped(Current)
    BY <1>1, CurrentEntry, StrippedPath
  <1>3. PICK isDir, data : /\ isDir = (Current.type = "directory")
                           /\ data = IF isDir THEN <<>> ELSE Current.data
    OBVIOUS
  <1>4. isDir \in BOOLEAN /\ data \in Seq(Nat)
    <2>1. <<>> \in Seq(Nat) /\ Current.data \in Seq(Nat)
      BY <1>1, CurrentEntry DEF Entry
    <2> QED BY <2>1, <1>3
  <1>5. PICK m \in 0 .. PLENTY :
          /\ Calls("create_file", path, data, isDir, create_file(fs, path, m, data, isDir))
          /\ Advance \/ InitFsPanics
          /\ Reads(IF isDir \/ create_file(fs, path, m, data, isDir).ret # "FS_SUCCESS" THEN 0 ELSE DataEnd)
    BY <1>2, <1>3 DEF CreateEntry
  <1>6. Outcome
    <2>1. Inv(fs)
      BY <1>1 DEF Kept
    <2> QED BY <2>1, <1>4, <1>5, CreateCall
  <1>7. /\ pc' \in {"header", "panic"} /\ disk' = disk /\ depth' \in {0, depth}
        /\ offset' \in {offset, Padded(DataEnd)}
    BY <1>5 DEF Advance, InitFsPanics
  <1>8. /\ Current.filesize \in Nat /\ NameEnd \in Nat /\ DataEnd \in Nat
        /\ DataEnd = NameEnd + Current.filesize /\ Padded(DataEnd) \in Nat
    BY <1>1, OffsetsNat
  <1>9. PICK to : Reads(to) /\ to \in {0, DataEnd}
    BY <1>5
  <1>10. to \in Nat /\ to <= disk.size
    <2>1. disk.size \in Nat /\ DataEnd <= disk.size
      <3>1. disk.size \in Nat /\ disk.size - NameEnd >= Current.filesize
        BY <1>1 DEF DataOK, Fits, InitramfsTypeOK
      <3> HIDE DEF NameEnd, DataEnd, Current
      <3> QED BY <3>1, <1>8
    <2> QED BY <2>1, <1>8, <1>9
  <1>11. read' \in Nat /\ read' <= disk.size
    BY <1>1, <1>9, <1>10, ReadsInBounds
  <1>12. InitramfsTypeOK' /\ ParserInBounds'
    <2>1. offset' \in Nat /\ depth' \in Nat
      BY <1>1, <1>7, <1>8 DEF InitramfsTypeOK
    <2>2. InitramfsTypeOK'
      BY <1>1, <1>7, <1>11, <2>1 DEF InitramfsTypeOK
    <2> QED BY <2>2, <1>7, <1>11 DEF ParserInBounds
  <1> QED BY <1>6, <1>7, <1>12 DEF RamdiskStep, InitramfsInv, Outcome

\* A file's name that ends in a slash: its path is made a folder, then a panic.
LEMMA CreateSlashedStep ==
    ASSUME InitramfsInv, CreateSlashed
    PROVE  RamdiskStep
  <1>1. /\ pc = "parents" /\ Parsed /\ InitramfsTypeOK /\ EntriesAt(offset) # {} /\ Kept
        /\ read <= disk.size
    BY DEF CreateSlashed, InitramfsInv, Parsed, ParserInBounds
  <1>2. PICK path \in Seq(Components) : path = Stripped(Current)
    BY <1>1, CurrentEntry, StrippedPath
  <1>3. PICK none, yes : none = <<>> /\ yes = TRUE
    OBVIOUS
  <1>4. PICK m \in 0 .. PLENTY :
          Calls("create_file", path, none, yes, create_file(fs, path, m, none, yes))
    BY <1>2, <1>3 DEF CreateSlashed, create_folder
  <1>5. none \in Seq(Nat) /\ yes \in BOOLEAN
    BY <1>3
  <1>6. Outcome
    <2>1. Inv(fs)
      BY <1>1 DEF Kept
    <2> QED BY <2>1, <1>4, <1>5, CreateCall
  <1>7. pc' = "panic" /\ UNCHANGED <<disk, offset, depth, read>>
    BY DEF CreateSlashed, InitFsPanics
  <1>8. InitramfsTypeOK' /\ ParserInBounds'
    BY <1>1, <1>7 DEF InitramfsTypeOK, ParserInBounds
  <1> QED BY <1>6, <1>7, <1>8 DEF RamdiskStep, InitramfsInv, Outcome

\* A call to the file system once the disk is mounted.
LEMMA UseStep ==
    ASSUME InitramfsInv, Use(Next)
    PROVE  RamdiskStep
  <1>1. Next /\ Inv(fs)
    BY DEF Use, InitramfsInv, Kept
  <1>2. Outcome
    BY <1>1, NextKeeps
  <1>3. pc' = "running" /\ disk' = NoDisk /\ offset' = 0 /\ depth' = 0 /\ read' = 0
    BY DEF Use
  <1>4. InitramfsTypeOK'
    <2>1. <<>> \in Seq(Entry)
      OBVIOUS
    <2> QED BY <2>1, <1>3 DEF InitramfsTypeOK, NoDisk
  <1> QED BY <1>2, <1>3, <1>4 DEF RamdiskStep, InitramfsInv, ParserInBounds, Outcome

\* Unpacking the ramdisk and using the file system afterwards keep the
\* invariant.
LEMMA RamdiskKeeps ==
    ASSUME InitramfsInv, [InitramfsNext]_allvars
    PROVE  RamdiskStep
  <1>1. CASE BadHeader \/ BadEntry \/ GoodEntry
    BY <1>1, HeaderStep
  <1>2. CASE EnsureParent
    BY <1>2, EnsureParentStep
  <1>3. CASE CreateEntry
    BY <1>3, CreateEntryStep
  <1>4. CASE CreateSlashed
    BY <1>4, CreateSlashedStep
  <1>5. CASE \/ Use(CreateFile) \/ Use(CreateFolder) \/ Use(DeleteFile)
             \/ Use(WriteFile) \/ Use(CreateFileForce)
    <2>1. Use(Next)
      BY <1>5 DEF Use, Next
    <2> QED BY <2>1, UseStep
  <1>6. CASE UNCHANGED allvars
    <2>1. UNCHANGED vars /\ UNCHANGED <<pc, disk, offset, depth, read>>
      BY <1>6 DEF allvars, ivars
    <2>2. Kept'
      BY <2>1, KeptUnchanged DEF InitramfsInv
    <2>3. pc' = "parents" => Parsed'
      BY <2>1, SameEntry DEF InitramfsInv
    <2> QED BY <2>1, <2>2, <2>3 DEF RamdiskStep, InitramfsInv, InitramfsTypeOK, ParserInBounds
  <1> QED BY <1>1, <1>2, <1>3, <1>4, <1>5, <1>6
          DEF InitramfsNext, Unpacking, Panicked

\* The disk before anything is read.
LEMMA RamdiskBegins ==
    ASSUME InitramfsInit
    PROVE  InitramfsInv
  <1>1. Kept
    BY InitKept DEF InitramfsInit
  <1>2. PICK archive \in Archives, cut \in Cuts : disk = DiskOf(archive, cut)
    BY DEF InitramfsInit
  <1>3. disk.entries \in Seq(Entry) /\ disk.size \in Nat
    BY <1>2, InitramfsAssumption DEF DiskOf
  <1> QED BY <1>1, <1>3 DEF InitramfsInit, InitramfsInv, InitramfsTypeOK, ParserInBounds

\* While the ramdisk is unpacked and after it, whatever the archive: the file
\* system stays as FsInvariant has it, and the parser stays on the disk.
THEOREM InitramfsInvariant == InitramfsSpec => []InitramfsInv
  <1>1. InitramfsInit => InitramfsInv
    BY RamdiskBegins
  <1>2. InitramfsInv /\ [InitramfsNext]_allvars => InitramfsInv'
    BY RamdiskKeeps DEF RamdiskStep
  <1> QED BY <1>1, <1>2, PTL DEF InitramfsSpec

\* link_child, unlink_child and the checks of create_file and delete_file keep
\* the nodes a tree: one place in one list for each, no two siblings of a name,
\* no cycle, no freed node; for any number of nodes and any order of calls.
THEOREM FilesAlwaysATree == Spec \/ InitramfsSpec => []TreeOK
  <1>1. Kept => TreeOK
    BY DEF Kept, Inv, Good, TreeOK
  <1>2. InitramfsInv => Kept
    BY DEF InitramfsInv
  <1> QED BY <1>1, <1>2, FsInvariant, InitramfsInvariant, PTL

\* No path through create_file, create_file_force, delete_file or
\* write_file_content loses a heap block or returns one twice, whichever
\* allocation fails.
THEOREM BlocksNeverLeak == Spec \/ InitramfsSpec => []NoLeak
  <1>1. Kept => NoLeak
    BY DEF Kept, Inv, NoLeak
  <1>2. InitramfsInv => Kept
    BY DEF InitramfsInv
  <1> QED BY <1>1, <1>2, FsInvariant, InitramfsInvariant, PTL

\* After a create_file that returned FS_SUCCESS, parse_path follows the same
\* path to the new node: through "." and "..", past the newly linked sibling.
THEOREM CreatedAlwaysResolves == Spec \/ InitramfsSpec => []CreatedResolves
  <1>1. Kept => CreatedResolves
    BY DEF Kept
  <1>2. InitramfsInv => Kept
    BY DEF InitramfsInv
  <1> QED BY <1>1, <1>2, FsInvariant, InitramfsInvariant, PTL

\* After a delete_file that returned FS_SUCCESS, parse_path fails on the same
\* path, even one that runs through the deleted node and back.
THEOREM DeletedAlwaysGone == Spec \/ InitramfsSpec => []DeletedGone
  <1>1. Kept => DeletedGone
    BY DEF Kept
  <1>2. InitramfsInv => Kept
    BY DEF InitramfsInv
  <1> QED BY <1>1, <1>2, FsInvariant, InitramfsInvariant, PTL

\* A call that returns an error has put everything back, the heap's count
\* included (create_file_force excepted).
THEOREM RefusalsChangeNothing == Spec \/ InitramfsSpec => RefusedUnchanged
  <1>1. Kept /\ [Next]_vars => [ret' # "FS_SUCCESS" /\ call'.fn # "create_file_force" => fs' = fs]_vars
    BY NextKeeps DEF Outcome, Kept
  <1>2. InitramfsInv /\ [InitramfsNext]_allvars =>
          [ret' # "FS_SUCCESS" /\ call'.fn # "create_file_force" => fs' = fs]_vars
    BY RamdiskKeeps DEF RamdiskStep
  <1> QED BY <1>1, <1>2, FsInvariant, InitramfsInvariant, PTL
          DEF Spec, InitramfsSpec, RefusedUnchanged

\* For every archive, wherever it is cut off and whatever its headers claim,
\* parse_cpio_disk reads nothing beyond the disk.
THEOREM ParserAlwaysInBounds == InitramfsSpec => []ParserInBounds
  <1>1. InitramfsInv => ParserInBounds
    BY DEF InitramfsInv
  <1> QED BY <1>1, InitramfsInvariant, PTL

-----------------------------------------------------------------------------
(* Names in a tree.                                                        *)

\* The beginning of a path leads to where parse_path stands on its way.
LEMMA PrefixLeads ==
    ASSUME NEW t, NEW p \in Seq(Components), NEW k \in 0 .. Len(p)
    PROVE  parse_path(t, SubSeq(p, 1, k)) = Walk(t, p)[k]
  <1>1. PICK q : q = SubSeq(p, 1, k)
    OBVIOUS
  <1>2. Len(p) \in Nat /\ k \in Nat /\ k <= Len(p)
    OBVIOUS
  <1>3. Len(q) = k /\ \A n \in 1 .. k : q[n] = p[n]
    <2>1. \A i \in 1 .. k : p[i] \in Components
      BY <1>2
    <2> HIDE DEF Components
    <2> QED BY <2>1, <1>1, <1>2, SubSeqProperties
  <1>4. \A n \in 1 .. k : Step(t, Walk(t, p)[n - 1], p[n]) = Walk(t, p)[n]
    <2>1. \A n \in 1 .. Len(p) : Walk(t, p)[n] = Step(t, Walk(t, p)[n - 1], p[n])
      BY <1>2, WalkSteps
    <2>2. \A n \in 1 .. k : n \in 1 .. Len(p)
      BY <1>2
    <2> HIDE DEF Walk, Step
    <2> QED BY <2>1, <2>2
  <1>5. \A n \in 0 .. k : Walk(t, q)[n] = Walk(t, p)[n]
    <2>1. Len(q) \in Nat /\ k <= Len(q)
      BY <1>2, <1>3
    <2> QED BY <2>1, <1>2, <1>3, <1>4, SameWalk
  <1> QED BY <1>1, <1>2, <1>3, <1>5 DEF parse_path

\* The empty path is the root's.
LEMMA RootFound ==
    ASSUME NEW t
    PROVE  parse_path(t, <<>>) = At("FS_SUCCESS", root)
  <1>1. Len(<<>>) = 0
    OBVIOUS
  <1> QED BY <1>1, WalkSteps DEF parse_path, At, Start

\* The path without its last component.
LEMMA LastStep ==
    ASSUME NEW t, NEW p \in Seq(Components), p # <<>>, NEW pp, ParentPath(pp, p)
    PROVE  /\ parse_path(t, p) = Step(t, parse_path(t, pp), p[Len(p)])
           /\ pp \in Seq(Components) /\ Len(pp) = Len(p) - 1 /\ Len(p) \in Nat \ {0}
           /\ \A n \in 1 .. Len(p) - 1 : pp[n] = p[n]
  <1>1. Len(p) \in Nat \ {0} /\ Len(p) - 1 \in 0 .. Len(p) /\ Len(p) \in 1 .. Len(p)
    OBVIOUS
  <1>2. parse_path(t, pp) = Walk(t, p)[Len(p) - 1]
    BY <1>1, PrefixLeads DEF ParentPath
  <1>3. Walk(t, p)[Len(p)] = Step(t, Walk(t, p)[Len(p) - 1], p[Len(p)])
    BY <1>1, WalkSteps
  <1>4. pp \in Seq(Components) /\ Len(pp) = Len(p) - 1 /\ \A n \in 1 .. Len(p) - 1 : pp[n] = p[n]
    <2>1. \A i \in 1 .. Len(p) - 1 : p[i] \in Components
      BY <1>1
    <2>2. PICK N \in Nat : N = Len(p) - 1
      BY <1>1
    <2> HIDE DEF Components
    <2>3. /\ SubSeq(p, 1, N) \in Seq(Components) /\ Len(SubSeq(p, 1, N)) = N
          /\ \A n \in 1 .. N : SubSeq(p, 1, N)[n] = p[n]
      <3>1. 1 \in Int /\ N \in Int
        OBVIOUS
      <3> QED BY <3>1, <2>1, <2>2, SubSeqProperties
    <2>4. pp = SubSeq(p, 1, N)
      BY <2>2 DEF ParentPath
    <2> QED BY <2>2, <2>3, <2>4
  <1> QED BY <1>1, <1>2, <1>3, <1>4 DEF parse_path

\* A path of names only.
IsPlain(p) == p \in Seq(Names)

\* Names are components, and no name is "." or "..".
LEMMA PlainPath ==
    ASSUME NEW p, IsPlain(p)
    PROVE  p \in Seq(Components) /\ \A n \in 1 .. Len(p) : p[n] \in Names /\ p[n] \notin {Dot, DotDot}
  BY FsAssumption DEF IsPlain, Components

\* By a name parse_path steps to a child.
LEMMA StepDown ==
    ASSUME NEW t, Good(t), NEW x \in DOMAIN t.node, NEW c, c \notin {Dot, DotDot}, NEW y,
           Step(t, At("FS_SUCCESS", x), c) = At("FS_SUCCESS", y)
    PROVE  t.node[x].dir /\ y \in Kids(t, x, c)
  <1>1. t.node[x].dir /\ Kids(t, x, c) # {}
    <2> SUFFICES ASSUME ~t.node[x].dir \/ Kids(t, x, c) = {} PROVE FALSE
      OBVIOUS
    <2>1. PICK s : s # "FS_SUCCESS" /\ Step(t, At("FS_SUCCESS", x), c) = At(s, x)
      BY StepFrom
    <2> QED BY <2>1 DEF At
  <1>2. PICK k \in Kids(t, x, c) : Step(t, At("FS_SUCCESS", x), c) = At("FS_SUCCESS", k)
    BY <1>1, StepFrom
  <1>3. k = y
    BY <1>2 DEF At
  <1> QED BY <1>1, <1>2, <1>3

\* A path of names leads to a file by way of its directory.
LEMMA ComesFrom ==
    ASSUME NEW t, Good(t), NEW p, IsPlain(p), p # <<>>, NEW f, parse_path(t, p) = At("FS_SUCCESS", f),
           NEW pp, ParentPath(pp, p)
    PROVE  /\ f \in FilesOf(t) /\ t.node[f].name = p[Len(p)]
           /\ parse_path(t, pp) = At("FS_SUCCESS", t.node[f].parent)
  <1>1. p \in Seq(Components) /\ Len(p) \in Nat \ {0} /\ Len(p) \in 1 .. Len(p)
    BY PlainPath
  <1>2. PICK c : c = p[Len(p)] /\ c \notin {Dot, DotDot}
    BY <1>1, PlainPath
  <1>3. parse_path(t, p) = Step(t, parse_path(t, pp), c) /\ parse_path(t, pp) = Walk(t, p)[Len(p) - 1]
    <2>1. Len(p) - 1 \in 0 .. Len(p)
      BY <1>1
    <2>2. parse_path(t, pp) = Walk(t, p)[Len(p) - 1]
      BY <2>1, <1>1, PrefixLeads DEF ParentPath
    <2> QED BY <2>2, <1>1, <1>2, LastStep
  <1>4. parse_path(t, p).status = "FS_SUCCESS" /\ Len(p) \in Nat /\ Len(p) - 1 \in 0 .. Len(p)
    BY <1>1 DEF At
  <1>5. PICK d \in DOMAIN t.node : parse_path(t, pp) = At("FS_SUCCESS", d)
    BY <1>3, <1>4, PathLeads
  <1>6. Step(t, At("FS_SUCCESS", d), c) = At("FS_SUCCESS", f)
    BY <1>3, <1>5
  <1>7. f \in Kids(t, d, c)
    <2>1. c \notin {Dot, DotDot}
      BY <1>2
    <2> QED BY <2>1, <1>6, StepDown
  <1> QED BY <1>2, <1>5, <1>7 DEF Kids

\* Two paths of names to one file are the same path.
LEMMA PlainApart ==
    ASSUME NEW t, Good(t), NEW p, NEW q, IsPlain(p), IsPlain(q), NEW f,
           parse_path(t, p) = At("FS_SUCCESS", f), parse_path(t, q) = At("FS_SUCCESS", f)
    PROVE  p = q
  <1> DEFINE Both(a, b, x) == /\ IsPlain(a) /\ IsPlain(b) /\ a # b
                              /\ parse_path(t, a) = At("FS_SUCCESS", x)
                              /\ parse_path(t, b) = At("FS_SUCCESS", x)
             Bad == {n \in Nat : \E a, b, x : Both(a, b, x) /\ Len(a) = n}
  <1>1. SUFFICES ASSUME p # q PROVE FALSE
    OBVIOUS
  <1>2. Bad # {} /\ Bad \subseteq Nat
    <2>1. Len(p) \in Nat
      BY DEF IsPlain
    <2> QED BY <2>1, <1>1
  <1>3. PICK n \in Bad : \A i \in Bad : n <= i
    <2> HIDE DEF Bad
    <2> QED BY <1>2, LeastNumber
  <1>4. PICK a, b, x : Both(a, b, x) /\ Len(a) = n
    OBVIOUS
  <1>5. ASSUME NEW u, IsPlain(u), u # <<>>, parse_path(t, u) = At("FS_SUCCESS", x) PROVE x # root
    <2>1. PICK uu : ParentPath(uu, u)
      BY DEF ParentPath
    <2> QED BY <2>1, <1>5, ComesFrom DEF FilesOf
  <1>6. ASSUME NEW u, u = <<>>, parse_path(t, u) = At("FS_SUCCESS", x) PROVE x = root
    BY <1>6, RootFound DEF At
  <1>7. a # <<>> /\ b # <<>>
    <2> HIDE DEF At, parse_path
    <2> QED BY <1>4, <1>5, <1>6
  <1>8. PICK aa, bb : ParentPath(aa, a) /\ ParentPath(bb, b)
    BY DEF ParentPath
  <1>9. /\ parse_path(t, aa) = At("FS_SUCCESS", t.node[x].parent)
        /\ parse_path(t, bb) = At("FS_SUCCESS", t.node[x].parent)
        /\ a[Len(a)] = b[Len(b)]
    BY <1>4, <1>7, <1>8, ComesFrom
  <1>10. ASSUME NEW u, IsPlain(u), u # <<>>, NEW uu, ParentPath(uu, u)
         PROVE  /\ IsPlain(uu) /\ Len(uu) = Len(u) - 1 /\ Len(u) \in Nat \ {0}
                /\ \A i \in 1 .. Len(u) - 1 : uu[i] = u[i]
    <2>1. /\ uu \in Seq(Components) /\ Len(uu) = Len(u) - 1 /\ Len(u) \in Nat \ {0}
          /\ \A i \in 1 .. Len(u) - 1 : uu[i] = u[i]
      BY <1>10, PlainPath, LastStep
    <2>2. ASSUME NEW i \in 1 .. Len(uu) PROVE uu[i] \in Names
      <3>1. \A k \in 1 .. Len(u) : u[k] \in Names
        BY <1>10, PlainPath
      <3>2. i \in 1 .. Len(u) - 1 /\ i \in 1 .. Len(u)
        BY <2>1
      <3>3. uu[i] = u[i]
        BY <3>2, <2>1
      <3> QED BY <3>1, <3>2, <3>3
    <2>3. uu \in Seq(Names)
      <3>1. Len(uu) \in Nat /\ uu = [i \in 1 .. Len(uu) |-> uu[i]]
        BY <2>1
      <3> QED BY <3>1, <2>2
    <2> QED BY <2>1, <2>3 DEF IsPlain
  <1>11. /\ IsPlain(aa) /\ Len(aa) = Len(a) - 1 /\ Len(a) \in Nat \ {0}
         /\ IsPlain(bb) /\ Len(bb) = Len(b) - 1 /\ Len(b) \in Nat \ {0}
         /\ \A i \in 1 .. Len(a) - 1 : aa[i] = a[i]
         /\ \A i \in 1 .. Len(b) - 1 : bb[i] = b[i]
    BY <1>4, <1>7, <1>8, <1>10
  <1>12. aa = bb
    <2>1. SUFFICES ASSUME aa # bb PROVE FALSE
      OBVIOUS
    <2>2. Both(aa, bb, t.node[x].parent) /\ n - 1 \in Nat /\ Len(aa) = n - 1
      BY <2>1, <1>4, <1>9, <1>11
    <2>3. n - 1 \in Bad
      BY <2>2
    <2> HIDE DEF Bad
    <2> QED BY <2>3, <1>2, <1>3
  <1>13. a = b
    <2>1. Len(a) = Len(b) /\ Len(a) \in Nat
      BY <1>11, <1>12
    <2>2. ASSUME NEW i \in 1 .. Len(a) PROVE a[i] = b[i]
      <3>1. CASE i = Len(a)
        BY <3>1, <2>1, <1>9
      <3>2. CASE i # Len(a)
        <4>1. i \in 1 .. Len(a) - 1 /\ i \in 1 .. Len(b) - 1
          BY <3>2, <2>1
        <4> QED BY <4>1, <1>11, <1>12
      <3> QED BY <3>1, <3>2
    <2>3. a \in Seq(Names) /\ b \in Seq(Names)
      BY <1>4 DEF IsPlain
    <2> QED BY <2>1, <2>2, <2>3, SeqEqual
  <1> QED BY <1>4, <1>13

\* What a path led to before create_file it leads to afterwards.
LEMMA OldStays ==
    ASSUME NEW t, NEW t1, NEW path, NEW pp, NEW dir, NEW f, Made(t, t1, path, pp, dir, f),
           NEW q, Len(q) \in Nat, parse_path(t, q).status = "FS_SUCCESS"
    PROVE  parse_path(t1, q) = parse_path(t, q)
  <1>1. PICK N \in Nat : N = Len(q)
    OBVIOUS
  <1>2. /\ Good(t) /\ Good(t1)
        /\ DOMAIN t1.node = DOMAIN t.node \cup {f}
        /\ \A n \in DOMAIN t.node : t1.node[n] = t.node[n]
    BY DEF Made
  <1>3. \A n \in 0 .. N : /\ Walk(t, q)[n].file \in DOMAIN t.node
                          /\ Walk(t, q)[n] = At("FS_SUCCESS", Walk(t, q)[n].file)
    BY <1>1, <1>2, PathLeads
  <1>4. ASSUME NEW x \in DOMAIN t.node, NEW c
        PROVE  /\ x \in DOMAIN t1.node /\ t1.node[x] = t.node[x]
               /\ Kids(t, x, c) \subseteq Kids(t1, x, c)
    BY <1>2 DEF Kids, FilesOf
  <1>5. ASSUME NEW n \in 1 .. N
        PROVE  Step(t1, Walk(t, q)[n - 1], q[n]) = Walk(t, q)[n]
    <2>1. n - 1 \in 0 .. N /\ n \in 0 .. N /\ n \in 1 .. Len(q)
      BY <1>1
    <2>2. PICK x \in DOMAIN t.node, y \in DOMAIN t.node :
             Walk(t, q)[n - 1] = At("FS_SUCCESS", x) /\ Walk(t, q)[n] = At("FS_SUCCESS", y)
      BY <2>1, <1>3
    <2>3. Walk(t, q)[n] = Step(t, Walk(t, q)[n - 1], q[n])
      BY <2>1, WalkSteps
    <2>4. PICK c : c = q[n]
      OBVIOUS
    <2>5. Step(t, At("FS_SUCCESS", x), c) = At("FS_SUCCESS", y)
      BY <2>2, <2>3, <2>4
    <2>6. x \in DOMAIN t1.node /\ t1.node[x] = t.node[x] /\ Kids(t, x, c) \subseteq Kids(t1, x, c)
      BY <1>4
    <2>7. Step(t1, At("FS_SUCCESS", x), c) = At("FS_SUCCESS", y)
      BY <2>5, <2>6, <1>2, StepKept
    <2> QED BY <2>2, <2>4, <2>7
  <1>6. \A n \in 0 .. N : Walk(t1, q)[n] = Walk(t, q)[n]
    <2>1. N <= Len(q)
      BY <1>1
    <2> QED BY <2>1, <1>5, SameWalk
  <1>7. N \in 0 .. N
    OBVIOUS
  <1> QED BY <1>1, <1>6, <1>7 DEF parse_path

\* Why create_file refuses a path whose directory d is found.
Reasons(t, path, d, r) ==
    /\ r.ret = "FS_ALR_EXIST" => /\ path[Len(path)] \notin {Dot, DotDot} /\ t.node[d].dir
                                 /\ Child(t, d, path[Len(path)]) # {}
    /\ path[Len(path)] \notin {Dot, DotDot} /\ t.node[d].dir =>
         r.ret \in {"FS_SUCCESS", "FS_ALR_EXIST", "FS_FAIL"}

\* What create_file answers when the parent resolves, and why.
LEMMA CreateReasons ==
    ASSUME NEW t, NEW path, path # <<>>, NEW pp, ParentPath(pp, path),
           parse_path(t, pp).status = "FS_SUCCESS", NEW d, d = parse_path(t, pp).file,
           NEW m, NEW data, NEW dir, NEW r, r = create_file(t, path, m, data, dir)
    PROVE  Reasons(t, path, d, r)
  <1>1. PICK name, parent, unused : /\ name = path[Len(path)] /\ parent = parse_path(t, pp)
                                    /\ unused = Nodes \ DOMAIN t.node
    OBVIOUS
  <1>2. PICK t1 : t1 = link_child(t, parent.file, CHOOSE n \in unused : TRUE,
                                  [name |-> name, parent |-> parent.file, dir |-> dir, data |-> data])
    OBVIOUS
  <1>3. r = IF m = 0 THEN Exit(t, "FS_FAIL", 0, 0)
            ELSE IF m = 1 THEN Exit(t, "FS_FAIL", 1, 1)
            ELSE IF name \in {Dot, DotDot} THEN Exit(t, "FS_FAIL", 2, 2)
            ELSE IF ~t.node[d].dir THEN Exit(t, "FS_NOT_A_DIR", 2, 2)
            ELSE IF NameTaken(t, d, name) THEN Exit(t, "FS_ALR_EXIST", 2, 2)
            ELSE IF m = 2 \/ unused = {} THEN Exit(t, "FS_FAIL", 2, 2)
            ELSE IF m = 3 /\ data # <<>> THEN Exit(t, "FS_FAIL", 3, FreedOnDataFailure)
            ELSE Exit(t1, "FS_SUCCESS", 1 + NodeBlocks(data), 1)
    BY <1>1, <1>2 DEF create_file, ParentPath
  <1>4. \A u, s, a, b : Exit(u, s, a, b).ret = s
    BY DEF Exit
  <1>5. \/ r.ret = "FS_FAIL" \/ r.ret = "FS_SUCCESS"
        \/ r.ret = "FS_NOT_A_DIR" /\ ~t.node[d].dir
        \/ r.ret = "FS_ALR_EXIST" /\ name \notin {Dot, DotDot} /\ t.node[d].dir /\ NameTaken(t, d, name)
    <2> HIDE DEF Exit, NameTaken
    <2> QED BY <1>3, <1>4
  <1> QED BY <1>1, <1>5 DEF Reasons, NameTaken, find_child

\* The node a path leads to.
Found(t, p) == t.node[parse_path(t, p).file]

\* t holds what the paths in M lead to, and nothing else.
Holds(t, M) ==
    /\ \A p \in M : IsPlain(p) /\ p # <<>> /\ parse_path(t, p).status = "FS_SUCCESS"
    /\ \A f \in FilesOf(t) : \E p \in M : parse_path(t, p) = At("FS_SUCCESS", f)

\* A path with one more name is one of names.
LEMMA OneMoreName ==
    ASSUME NEW path \in Seq(Components), path # <<>>, NEW pp, ParentPath(pp, path), IsPlain(pp),
           path[Len(path)] \notin {Dot, DotDot}
    PROVE  IsPlain(path)
  <1>1. /\ Len(pp) = Len(path) - 1 /\ Len(path) \in Nat \ {0}
        /\ \A n \in 1 .. Len(path) - 1 : pp[n] = path[n]
    BY LastStep
  <1>2. ASSUME NEW n \in 1 .. Len(path) PROVE path[n] \in Names
    <2>1. CASE n = Len(path)
      BY <2>1, <1>1 DEF Components
    <2>2. CASE n # Len(path)
      <3>1. n \in 1 .. Len(path) - 1 /\ n \in 1 .. Len(pp)
        BY <2>2, <1>1
      <3> QED BY <3>1, <1>1, PlainPath
    <2> QED BY <2>1, <2>2
  <1>3. Len(path) \in Nat /\ path = [i \in 1 .. Len(path) |-> path[i]]
    OBVIOUS
  <1> QED BY <1>2, <1>3 DEF IsPlain

\* A directory entry of that name is what the path leads to.
LEMMA TakenIsFound ==
    ASSUME NEW t, Good(t), NEW path \in Seq(Components), path # <<>>, NEW pp, ParentPath(pp, path),
           NEW d \in DOMAIN t.node, parse_path(t, pp) = At("FS_SUCCESS", d), t.node[d].dir,
           path[Len(path)] \notin {Dot, DotDot}, Child(t, d, path[Len(path)]) # {}
    PROVE  \E f \in FilesOf(t) : parse_path(t, path) = At("FS_SUCCESS", f)
  <1>1. PICK c : c = path[Len(path)]
    OBVIOUS
  <1>2. c \notin {Dot, DotDot} /\ Child(t, d, c) # {}
    BY <1>1
  <1>3. PICK f \in Kids(t, d, c) : Step(t, At("FS_SUCCESS", d), c) = At("FS_SUCCESS", f)
    BY <1>2, ChildIsKid, StepFrom
  <1>4. parse_path(t, path) = Step(t, At("FS_SUCCESS", d), c)
    BY <1>1, LastStep
  <1> QED BY <1>3, <1>4 DEF Kids

\* What the paths in M lead to does not change.
Same(t, t1, M) == \A p \in M : Found(t1, p) = Found(t, p)

\* t1 holds one path more than t, with a node of that kind unless it was there.
Added(t, t1, M, path, data, dir) ==
    /\ Holds(t1, M \cup {path}) /\ Same(t, t1, M)
    /\ path \notin M => Found(t1, path).dir = dir /\ Found(t1, path).data = data

\* An accepted create_file adds its path and leaves what the others lead to.
LEMMA CreateAdds ==
    ASSUME NEW t, Inv(t), NEW M, Holds(t, M), NEW path \in Seq(Components), path # <<>>,
           NEW pp, ParentPath(pp, path), IsPlain(pp), parse_path(t, pp).status = "FS_SUCCESS",
           NEW m, NEW data \in Seq(Nat), NEW dir \in BOOLEAN, NEW r,
           r = create_file(t, path, m, data, dir), Accepted(r)
    PROVE  Added(t, r.fs, M, path, data, dir)
  <1>1. Good(t)
    BY DEF Inv
  <1>2. /\ r.ret # "FS_SUCCESS" => r.fs = t
        /\ r.ret = "FS_SUCCESS" =>
             /\ \E qq, d, f : Made(t, r.fs, path, qq, d, f)
             /\ Found(r.fs, path).data = data /\ Found(r.fs, path).dir = dir
    BY CreateKeeps DEF Found
  <1>3. CASE r.ret = "FS_SUCCESS"
    <2>1. PICK qq, d, f : Made(t, r.fs, path, qq, d, f)
      BY <1>2, <1>3
    <2>2. parse_path(r.fs, path) = At("FS_SUCCESS", f)
      BY <2>1, NewIsFound
    <2>3. /\ path[Len(path)] \notin {Dot, DotDot} /\ DOMAIN r.fs.node = DOMAIN t.node \cup {f}
          /\ \A n \in DOMAIN t.node : r.fs.node[n] = t.node[n]
      BY <2>1 DEF Made
    <2>4. IsPlain(path)
      BY <2>3, OneMoreName
    <2>5. ASSUME NEW p \in M
          PROVE  /\ IsPlain(p) /\ p # <<>> /\ parse_path(r.fs, p) = parse_path(t, p)
                 /\ parse_path(t, p).status = "FS_SUCCESS" /\ Found(r.fs, p) = Found(t, p)
      <3>1. IsPlain(p) /\ p # <<>> /\ parse_path(t, p).status = "FS_SUCCESS"
        BY DEF Holds
      <3>2. Len(p) \in Nat
        BY <3>1 DEF IsPlain
      <3>3. parse_path(r.fs, p) = parse_path(t, p)
        BY <3>1, <3>2, <2>1, OldStays
      <3>4. parse_path(t, p).file \in DOMAIN t.node
        BY <3>1, <3>2, <1>1, PathLeads
      <3> QED BY <3>1, <3>3, <3>4, <2>3 DEF Found
    <2>6. parse_path(r.fs, path).status = "FS_SUCCESS"
      BY <2>2 DEF At
    <2>7. ASSUME NEW g \in FilesOf(r.fs)
          PROVE  \E p \in M \cup {path} : parse_path(r.fs, p) = At("FS_SUCCESS", g)
      <3>1. CASE g = f
        BY <3>1, <2>2
      <3>2. CASE g # f
        <4>1. g \in FilesOf(t)
          BY <3>2, <2>3 DEF FilesOf
        <4>2. PICK p \in M : parse_path(t, p) = At("FS_SUCCESS", g)
          BY <4>1 DEF Holds
        <4> QED BY <4>2, <2>5
      <3> QED BY <3>1, <3>2
    <2> HIDE DEF parse_path, Found, At
    <2>8. Holds(r.fs, M \cup {path})
      BY <2>4, <2>5, <2>6, <2>7 DEF Holds
    <2> QED BY <2>5, <2>8, <1>2, <1>3 DEF Added, Same
  <1>4. CASE r.ret = "FS_ALR_EXIST"
    <2>1. r.fs = t
      BY <1>2, <1>4
    <2>2. PICK d : d = parse_path(t, pp).file
      OBVIOUS
    <2>3. path[Len(path)] \notin {Dot, DotDot} /\ t.node[d].dir /\ Child(t, d, path[Len(path)]) # {}
      <3>1. Reasons(t, path, d, r)
        BY <2>2, CreateReasons
      <3> QED BY <3>1, <1>4 DEF Reasons
    <2>4. IsPlain(path)
      BY <2>3, OneMoreName
    <2>5. d \in DOMAIN t.node /\ parse_path(t, pp) = At("FS_SUCCESS", d)
      <3>1. Len(pp) \in Nat /\ Len(pp) \in 0 .. Len(pp)
        BY DEF IsPlain
      <3> QED BY <3>1, <2>2, <1>1, PathLeads DEF parse_path
    <2>6. PICK f \in FilesOf(t) : parse_path(t, path) = At("FS_SUCCESS", f)
      BY <2>3, <2>5, <1>1, TakenIsFound
    <2>7. PICK p \in M : parse_path(t, p) = At("FS_SUCCESS", f)
      BY <2>6 DEF Holds
    <2>8. IsPlain(p)
      BY <2>7 DEF Holds
    <2>9. p = path
      BY <2>4, <2>6, <2>7, <2>8, <1>1, PlainApart
    <2>10. path \in M /\ M \cup {path} = M
      BY <2>7, <2>9
    <2> QED BY <2>1, <2>10 DEF Added, Same
  <1> QED BY <1>3, <1>4 DEF Accepted

-----------------------------------------------------------------------------
(* The archive's entries on the disk.                                      *)

Up4(n) == 4 * ((n + 3) \div 4)

\* where the entry after the k-th begins if that one begins at a
After(es, a, k) == Up4(Up4(a + HEADER + es[k].namesize) + Len(es[k].data))

\* g gives the places of N entries.
IsLayout(g, es, N) ==
    /\ g = [i \in 1 .. N |-> g[i]]
    /\ 1 \in 1 .. N => g[1] = 0
    /\ \A k \in 2 .. N : g[k] = After(es, g[k - 1], k - 1)

\* There is such a function: the definition of EntryAt has a solution.
LEMMA LayoutExists ==
    ASSUME NEW es, NEW N \in Nat
    PROVE  \E g : IsLayout(g, es, N)
  <1> DEFINE Laid(k) == \E g : IsLayout(g, es, k)
             Bad == {k \in Nat : ~Laid(k)}
  <1>1. Laid(0)
    <2> DEFINE g == [i \in 1 .. 0 |-> 0]
    <2>1. g = [i \in 1 .. 0 |-> g[i]] /\ 1 \notin 1 .. 0 /\ 2 .. 0 = {}
      OBVIOUS
    <2> HIDE DEF g
    <2> QED BY <2>1 DEF IsLayout
  <1>2. ASSUME NEW k \in Nat \ {0}, Laid(k - 1)
        PROVE  Laid(k)
    <2>1. PICK g : IsLayout(g, es, k - 1)
      BY <1>2
    <2> DEFINE h == [i \in 1 .. k |-> IF i < k THEN g[i] ELSE IF k = 1 THEN 0 ELSE After(es, g[k - 1], k - 1)]
    <2>2. h = [i \in 1 .. k |-> h[i]]
      OBVIOUS
    <2>3. h[1] = 0
      <3>1. CASE k = 1
        BY <3>1
      <3>2. CASE k # 1
        <4>1. 1 \in 1 .. k - 1 /\ 1 < k /\ 1 \in 1 .. k
          BY <3>2
        <4> QED BY <4>1, <2>1 DEF IsLayout
      <3> QED BY <3>1, <3>2
    <2>4. ASSUME NEW n \in 2 .. k PROVE h[n] = After(es, h[n - 1], n - 1)
      <3>1. CASE n < k
        <4>1. h[n] = g[n] /\ h[n - 1] = g[n - 1] /\ n \in 2 .. k - 1
          BY <3>1
        <4> QED BY <4>1, <2>1 DEF IsLayout
      <3>2. CASE n = k
        <4>1. k # 1 /\ k - 1 \in 1 .. k /\ k - 1 < k
          BY <3>2
        <4>2. h[k - 1] = g[k - 1] /\ h[k] = After(es, g[k - 1], k - 1)
          BY <4>1
        <4> HIDE DEF h
        <4> QED BY <4>2, <3>2
      <3> QED BY <3>1, <3>2
    <2> HIDE DEF h
    <2>5. IsLayout(h, es, k)
      BY <2>2, <2>3, <2>4 DEF IsLayout
    <2> QED BY <2>5
  <1> HIDE DEF Laid
  <1>3. Bad = {}
    <2> SUFFICES ASSUME Bad # {} PROVE FALSE
      OBVIOUS
    <2>1. PICK k \in Bad : \A j \in Bad : k <= j
      BY LeastNumber
    <2>2. k \in Nat \ {0} /\ k - 1 \in Nat /\ k - 1 \notin Bad
      BY <2>1, <1>1
    <2> QED BY <2>1, <2>2, <1>2
  <1>4. Laid(N)
    BY <1>3
  <1> QED BY <1>4 DEF Laid

\* EntryAt is a place of the layout.
LEMMA EntryIsLaid ==
    ASSUME NEW es, NEW N \in Nat, NEW g, IsLayout(g, es, N), NEW i \in 1 .. N
    PROVE  EntryAt(es, i) = g[i]
  <1> DEFINE Rec(f) == [k \in 1 .. i |-> IF k = 1 THEN 0 ELSE After(es, f[k - 1], k - 1)]
             s == [k \in 1 .. i |-> g[k]]
  <1>1. s = Rec(s)
    <2>1. ASSUME NEW k \in 1 .. i PROVE s[k] = IF k = 1 THEN 0 ELSE After(es, s[k - 1], k - 1)
      <3>1. CASE k = 1
        <4>1. 1 \in 1 .. N
          OBVIOUS
        <4> QED BY <4>1, <3>1 DEF IsLayout
      <3>2. CASE k # 1
        <4>1. k - 1 \in 1 .. i /\ k \in 2 .. N
          BY <3>2
        <4> QED BY <4>1, <3>2 DEF IsLayout
      <3> QED BY <3>1, <3>2
    <2> QED BY <2>1
  <1>2. PICK f : f = CHOOSE h : h = Rec(h)
    OBVIOUS
  <1>3. f = Rec(f)
    <2> HIDE DEF Rec, s
    <2> QED BY <1>1, <1>2
  <1>4. EntryAt(es, i) = f[i]
    BY <1>2 DEF EntryAt, After, Up4
  <1> DEFINE Bad == {k \in 1 .. i : f[k] # g[k]}
  <1>5. Bad = {}
    <2> SUFFICES ASSUME Bad # {} PROVE FALSE
      OBVIOUS
    <2>1. PICK k \in Bad : \A j \in Bad : k <= j
      <3>1. Bad \subseteq Nat
        OBVIOUS
      <3> HIDE DEF Bad
      <3> QED BY <3>1, LeastNumber
    <2>2. k # 1
      <3>1. 1 \in 1 .. N /\ 1 \in 1 .. i
        OBVIOUS
      <3> QED BY <3>1, <2>1, <1>3 DEF IsLayout
    <2>3. k \in 2 .. N /\ k - 1 \in 1 .. i /\ k - 1 \notin Bad
      BY <2>1, <2>2
    <2>4. f[k] = After(es, f[k - 1], k - 1) /\ g[k] = After(es, g[k - 1], k - 1) /\ f[k - 1] = g[k - 1]
      <3>1. f[k] = After(es, f[k - 1], k - 1)
        BY <2>1, <2>2, <1>3
      <3> QED BY <3>1, <2>3 DEF IsLayout
    <2> QED BY <2>1, <2>4
  <1>6. i \in 1 .. i
    OBVIOUS
  <1> QED BY <1>4, <1>5, <1>6

\* Padding rounds up to a multiple of four.
LEMMA PaddedUp ==
    ASSUME NEW n \in Nat
    PROVE  Padded(n) = Up4(n) /\ Up4(n) \in Nat /\ Up4(n) >= n
  <1>1. PICK q \in Nat, r \in 0 .. 3 : n = 4 * q + r
    <2>1. n = 4 * (n \div 4) + (n % 4) /\ n \div 4 \in Nat /\ n % 4 \in 0 .. 3
      OBVIOUS
    <2> QED BY <2>1
  <1>2. CASE r = 0
    <2>1. n % 4 = 0 /\ (n + 3) \div 4 = q /\ (4 - 0) % 4 = 0
      BY <1>1, <1>2
    <2> QED BY <2>1, <1>1, <1>2 DEF Padded, Up4
  <1>3. CASE r # 0
    <2>1. n % 4 = r /\ (n + 3) \div 4 = q + 1 /\ (4 - r) % 4 = 4 - r
      BY <1>1, <1>3
    <2> QED BY <2>1, <1>1, <1>3 DEF Padded, Up4
  <1> QED BY <1>2, <1>3

\* Where the parts of an entry at a end: its name, padded, and its data.
NameTo(e, a) == Padded(a + HEADER + e.namesize)
DataTo(e, a) == NameTo(e, a) + Len(e.data)

\* The first entry is at the beginning of the disk; each further one is after
\* the data of the one before it, which is after its header and name.
LEMMA EntrySteps ==
    ASSUME NEW es \in Seq(Entry)
    PROVE  /\ EntryAt(es, 1) = 0
           /\ \A k \in 1 .. Len(es) + 1 : EntryAt(es, k) \in Nat
           /\ \A k \in 1 .. Len(es) :
                /\ EntryAt(es, k + 1) = Padded(DataTo(es[k], EntryAt(es, k)))
                /\ NameTo(es[k], EntryAt(es, k)) \in Nat /\ DataTo(es[k], EntryAt(es, k)) \in Nat
                /\ NameTo(es[k], EntryAt(es, k)) >= EntryAt(es, k) + HEADER + es[k].namesize
                /\ EntryAt(es, k + 1) >= DataTo(es[k], EntryAt(es, k))
                /\ EntryAt(es, k + 1) > EntryAt(es, k)
  <1>1. PICK N \in Nat : N = Len(es) + 1
    OBVIOUS
  <1>2. PICK g : IsLayout(g, es, N)
    BY LayoutExists
  <1>3. \A i \in 1 .. N : EntryAt(es, i) = g[i]
    BY <1>2, EntryIsLaid
  <1>4. g[1] = 0
    <2>1. 1 \in 1 .. N
      BY <1>1
    <2> QED BY <2>1, <1>2 DEF IsLayout
  <1>5. ASSUME NEW k \in 1 .. Len(es), g[k] \in Nat
        PROVE  /\ g[k + 1] \in Nat /\ g[k + 1] = Padded(DataTo(es[k], g[k]))
               /\ NameTo(es[k], g[k]) \in Nat /\ DataTo(es[k], g[k]) \in Nat
               /\ NameTo(es[k], g[k]) >= g[k] + HEADER + es[k].namesize
               /\ g[k + 1] >= DataTo(es[k], g[k])
               /\ g[k + 1] > g[k]
    <2>1. k + 1 \in 2 .. N /\ (k + 1) - 1 = k
      BY <1>1
    <2>2. g[k + 1] = After(es, g[k], k)
      BY <2>1, <1>2 DEF IsLayout
    <2>3. PICK ns \in Nat, l \in Nat : ns = es[k].namesize /\ l = Len(es[k].data)
      <3>1. es[k] \in Entry
        OBVIOUS
      <3>2. es[k].namesize \in Nat /\ es[k].data \in Seq(Nat)
        BY <3>1 DEF Entry
      <3> QED BY <3>2
    <2>4. PICK a \in Nat, b \in Nat : a = g[k] /\ b = a + HEADER + ns
      BY <1>5, <2>3 DEF HEADER
    <2>5. PICK c \in Nat : c = Padded(b) /\ c = Up4(b) /\ c >= b
      BY PaddedUp
    <2>6. PICK d \in Nat : d = c + l
      OBVIOUS
    <2>7. Padded(d) = Up4(d) /\ Up4(d) \in Nat /\ Up4(d) >= d
      BY PaddedUp
    <2>8. g[k + 1] = Up4(d)
      BY <2>2, <2>3, <2>4, <2>5, <2>6 DEF After
    <2>9. NameTo(es[k], g[k]) = c /\ DataTo(es[k], g[k]) = d
      BY <2>3, <2>4, <2>5, <2>6 DEF NameTo, DataTo
    <2>10. b > a /\ Up4(d) > a
      <3>1. b > a
        BY <2>4 DEF HEADER
      <3>2. d >= b
        <4>1. c >= b
          BY <2>5
        <4> QED BY ONLY <4>1, <2>6
      <3>3. Up4(d) \in Nat /\ Up4(d) >= d
        BY <2>7
      <3> QED BY ONLY <3>1, <3>2, <3>3
    <2> HIDE DEF Up4, Padded, NameTo, DataTo
    <2> QED BY <2>3, <2>4, <2>5, <2>7, <2>8, <2>9, <2>10
  <1> DEFINE Bad == {k \in 1 .. N : g[k] \notin Nat}
  <1>6. Bad = {}
    <2> SUFFICES ASSUME Bad # {} PROVE FALSE
      OBVIOUS
    <2>1. PICK k \in Bad : \A j \in Bad : k <= j
      <3>1. Bad \subseteq Nat
        OBVIOUS
      <3> HIDE DEF Bad
      <3> QED BY <3>1, LeastNumber
    <2>2. k # 1
      BY <2>1, <1>4
    <2>3. PICK j \in 1 .. Len(es) : j = k - 1
      BY <2>1, <2>2, <1>1
    <2>4. j \in 1 .. N /\ j \notin Bad /\ k = j + 1
      BY <2>1, <2>3, <1>1
    <2> QED BY <2>1, <2>3, <2>4, <1>5
  <1>7. ASSUME NEW k \in 1 .. Len(es)
        PROVE  g[k] \in Nat /\ EntryAt(es, k) = g[k] /\ EntryAt(es, k + 1) = g[k + 1]
    <2>1. k \in 1 .. N /\ k + 1 \in 1 .. N
      BY <1>1
    <2> QED BY <2>1, <1>3, <1>6
  <1>8. 1 \in 1 .. N
    BY <1>1
  <1> HIDE DEF Entry
  <1> QED BY <1>1, <1>3, <1>4, <1>5, <1>6, <1>7, <1>8

\* Entries lie one behind the other.
LEMMA EntriesApart ==
    ASSUME NEW es \in Seq(Entry), NEW i \in 1 .. Len(es) + 1, NEW j \in 1 .. Len(es) + 1
    PROVE  /\ i < j => EntryAt(es, i) < EntryAt(es, j)
           /\ EntryAt(es, i) = EntryAt(es, j) => i = j
  <1>1. PICK N \in Nat : N = Len(es) + 1
    OBVIOUS
  <1>2. PICK g : g = [k \in 1 .. N |-> EntryAt(es, k)]
    OBVIOUS
  <1>3. /\ \A k \in 1 .. N : g[k] = EntryAt(es, k) /\ g[k] \in Nat
        /\ \A k \in 1 .. N - 1 : g[k + 1] > g[k]
    <2>1. ASSUME NEW k \in 1 .. N - 1 PROVE k \in 1 .. Len(es) /\ k \in 1 .. N /\ k + 1 \in 1 .. N
      BY <1>1
    <2> QED BY <2>1, <1>1, <1>2, EntrySteps
  <1>4. ASSUME NEW a \in 1 .. N, NEW b \in 1 .. N, a < b PROVE g[a] < g[b]
    <2> DEFINE Bad == {k \in 1 .. N : a < k /\ ~(g[a] < g[k])}
    <2>1. Bad = {}
      <3> SUFFICES ASSUME Bad # {} PROVE FALSE
        OBVIOUS
      <3>1. PICK k \in Bad : \A m \in Bad : k <= m
        <4>1. Bad \subseteq Nat
          OBVIOUS
        <4> HIDE DEF Bad
        <4> QED BY <4>1, LeastNumber
      <3>2. PICK m \in 1 .. N - 1 : k = m + 1 /\ m \in 1 .. N
        <4>1. k - 1 \in 1 .. N - 1 /\ k = (k - 1) + 1 /\ k - 1 \in 1 .. N
          BY <3>1
        <4> QED BY <4>1
      <3>3. m \notin Bad /\ a <= m
        BY <3>1, <3>2
      <3>4. g[a] <= g[m] /\ g[m] < g[k] /\ g[a] \in Nat /\ g[m] \in Nat /\ g[k] \in Nat
        <4>1. g[a] \in Nat /\ g[m] \in Nat /\ g[k] \in Nat /\ g[m] < g[k]
          BY <3>1, <3>2, <1>3
        <4>2. CASE a = m
          BY <4>1, <4>2
        <4>3. CASE a # m
          BY <4>1, <4>3, <3>2, <3>3
        <4> QED BY <4>1, <4>2, <4>3
      <3> QED BY <3>1, <3>4
    <2> QED BY <2>1, <1>4
  <1>5. i \in 1 .. N /\ j \in 1 .. N
    BY <1>1
  <1>6. g[i] \in Nat /\ g[j] \in Nat /\ (i < j => g[i] < g[j]) /\ (j < i => g[j] < g[i])
    BY <1>3, <1>4, <1>5
  <1> QED BY <1>3, <1>5, <1>6

-----------------------------------------------------------------------------
(* What is unpacked.                                                       *)

\* The entries before the c-th that become nodes, and the paths made when the
\* parser is at the c-th and has gone through d - 1 components of its name.
MadeBefore(es, c) == {j \in 1 .. c - 1 : Creates(es[j])}
Beginnings(p, n) == {SubSeq(p, 1, k) : k \in 1 .. n}
PathsBefore(es, c) ==
    UNION {Beginnings(Stripped(es[j]), Len(Stripped(es[j]))) : j \in MadeBefore(es, c)}
PathsTo(es, c, d) == PathsBefore(es, c) \cup Beginnings(Stripped(es[c]), d - 1)

\* The kinds of the nodes: an entry's own unless another made its path before,
\* and no file but by an entry for one.
KindsKept(es, t, c) ==
    \A j \in MadeBefore(es, c) :
       (\A i \in MadeBefore(es, c) : i < j => ~Below(Stripped(es[i]), Stripped(es[j]))) =>
          /\ Found(t, Stripped(es[j])).dir = (es[j].type = "directory")
          /\ es[j].type # "directory" => Found(t, Stripped(es[j])).data = es[j].data
FilesListed(es, t, c, d) ==
    \A p \in PathsTo(es, c, d) : ~Found(t, p).dir =>
       \E j \in MadeBefore(es, c) : es[j].type # "directory" /\ p = Stripped(es[j])

UnpackedTo(es, t, c, d) ==
    /\ Holds(t, PathsTo(es, c, d)) /\ KindsKept(es, t, c) /\ FilesListed(es, t, c, d)
    /\ \A j \in 1 .. c - 1 : ~es[j].trailer

\* A name is the longest of its beginnings.
LEMMA WholeName ==
    ASSUME NEW name \in Seq(Components), name # <<>>
    PROVE  Len(name) \in 1 .. Len(name) /\ SubSeq(name, 1, Len(name)) = name
  <1>1. PICK N \in Nat : N = Len(name) /\ N # 0
    OBVIOUS
  <1>2. 1 \in Int /\ N \in Int /\ \A i \in 1 .. N : name[i] \in Components
    BY <1>1
  <1>3. /\ SubSeq(name, 1, N) \in Seq(Components) /\ Len(SubSeq(name, 1, N)) = N
        /\ \A i \in 1 .. N : SubSeq(name, 1, N)[i] = name[i]
    <2> HIDE DEF Components
    <2> QED BY <1>2, SubSeqProperties
  <1>4. SubSeq(name, 1, N) = name
    <2> HIDE DEF Components
    <2> QED BY <1>1, <1>3, SeqEqual
  <1> QED BY <1>1, <1>4

\* How the paths grow from one component and from one entry to the next.
Grown(es, c, name) ==
    /\ PathsTo(es, c, 1) = PathsTo(es, c, 0)
    /\ \A d \in Nat \ {0} : PathsTo(es, c, d + 1) = PathsTo(es, c, d) \cup {SubSeq(name, 1, d)}
    /\ Creates(es[c]) /\ name # <<>> =>
         /\ PathsTo(es, c + 1, 0) = PathsTo(es, c, Len(name)) \cup {name}
         /\ MadeBefore(es, c + 1) = MadeBefore(es, c) \cup {c}
    /\ ~Creates(es[c]) => /\ PathsTo(es, c + 1, 0) = PathsTo(es, c, 0)
                          /\ MadeBefore(es, c + 1) = MadeBefore(es, c)

\* The paths gone through, one component or one entry later.
LEMMA PathsGrow ==
    ASSUME NEW es, NEW c \in Nat \ {0}, NEW name \in Seq(Components), name = Stripped(es[c])
    PROVE  Grown(es, c, name)
  <1>1. \A p : Beginnings(p, 0) = {} /\ Beginnings(p, -1) = {}
    BY DEF Beginnings
  <1>2. PathsTo(es, c, 1) = PathsBefore(es, c) /\ \A k : PathsTo(es, k, 0) = PathsBefore(es, k)
    <2>1. 1 - 1 = 0 /\ 0 - 1 = -1
      OBVIOUS
    <2> QED BY <1>1, <2>1 DEF PathsTo
  <1>3. ASSUME NEW d \in Nat \ {0}
        PROVE  Beginnings(name, d) = Beginnings(name, d - 1) \cup {SubSeq(name, 1, d)}
    <2>1. 1 .. d = (1 .. d - 1) \cup {d}
      OBVIOUS
    <2> QED BY <2>1 DEF Beginnings
  <1>4. ASSUME NEW d \in Nat \ {0}
        PROVE  PathsTo(es, c, d + 1) = PathsTo(es, c, d) \cup {SubSeq(name, 1, d)}
    <2>1. PICK k : k = d + 1 /\ k - 1 = d
      OBVIOUS
    <2>2. PathsTo(es, c, k) = PathsBefore(es, c) \cup Beginnings(name, d)
      BY <2>1 DEF PathsTo
    <2>3. PathsTo(es, c, d) = PathsBefore(es, c) \cup Beginnings(name, d - 1)
      BY DEF PathsTo
    <2> QED BY <2>1, <2>2, <2>3, <1>3
  <1>5. (c + 1) - 1 = c /\ 1 .. c = (1 .. c - 1) \cup {c}
    OBVIOUS
  <1>6. ASSUME Creates(es[c]), name # <<>>
        PROVE  /\ PathsTo(es, c + 1, 0) = PathsTo(es, c, Len(name)) \cup {name}
               /\ MadeBefore(es, c + 1) = MadeBefore(es, c) \cup {c}
    <2>1. MadeBefore(es, c + 1) = MadeBefore(es, c) \cup {c}
      BY <1>5, <1>6 DEF MadeBefore
    <2>2. PathsBefore(es, c + 1) = PathsBefore(es, c) \cup Beginnings(name, Len(name))
      BY <2>1 DEF PathsBefore
    <2>3. Len(name) \in Nat \ {0}
      BY <1>6
    <2>4. SubSeq(name, 1, Len(name)) = name
      BY <1>6, WholeName
    <2>5. PathsTo(es, c, Len(name)) = PathsBefore(es, c) \cup Beginnings(name, Len(name) - 1)
      BY DEF PathsTo
    <2> QED BY <2>1, <2>2, <2>3, <2>4, <2>5, <1>2, <1>3
  <1>7. ASSUME ~Creates(es[c])
        PROVE  /\ PathsTo(es, c + 1, 0) = PathsTo(es, c, 0)
               /\ MadeBefore(es, c + 1) = MadeBefore(es, c)
    <2>1. MadeBefore(es, c + 1) = MadeBefore(es, c)
      BY <1>5, <1>7 DEF MadeBefore
    <2>2. PathsBefore(es, c + 1) = PathsBefore(es, c)
      BY <2>1 DEF PathsBefore
    <2> QED BY <2>1, <2>2, <1>2
  <1> QED BY <1>2, <1>4, <1>6, <1>7 DEF Grown

\* pp, the path without its last component, leads to a node.
IsThere(es, t, c, name, d, path, pp) ==
    /\ path \in Seq(Components) /\ path # <<>> /\ Len(path) = d /\ path[d] = name[d]
    /\ IsPlain(pp) /\ parse_path(t, pp).status = "FS_SUCCESS"
    /\ pp = SubSeq(name, 1, d - 1) /\ Len(pp) = d - 1
    /\ pp \in PathsTo(es, c, d) \/ (pp = <<>> /\ parse_path(t, pp).file = root)

\* While a name's components are gone through, what is before the next one is
\* there.
LEMMA ParentThere ==
    ASSUME NEW es, NEW t, Good(t), NEW c \in Nat \ {0}, NEW name \in Seq(Components), name = Stripped(es[c]),
           NEW d \in 1 .. Len(name), UnpackedTo(es, t, c, d),
           NEW path, path = SubSeq(name, 1, d), NEW pp, ParentPath(pp, path)
    PROVE  IsThere(es, t, c, name, d, path, pp)
  <1>1. PICK L \in Nat : L = Len(name) /\ d \in 1 .. L
    OBVIOUS
  <1>2. \A i \in 1 .. d : name[i] \in Components
    BY <1>1
  <1>3. path \in Seq(Components) /\ Len(path) = d /\ \A i \in 1 .. d : path[i] = name[i]
    <2> HIDE DEF Components
    <2>1. 1 \in Int /\ d \in Int /\ 1 <= d
      OBVIOUS
    <2> QED BY <2>1, <1>2, SubSeqProperties
  <1>4. path # <<>> /\ path[d] = name[d]
    BY <1>3
  <1>5. pp \in Seq(Components) /\ Len(pp) = d - 1 /\ \A n \in 1 .. d - 1 : pp[n] = path[n]
    <2>1. PICK q \in Seq(Components) : q = path /\ q # <<>> /\ Len(q) = d
      BY <1>3, <1>4
    <2>2. ParentPath(pp, q)
      BY <2>1
    <2>3. pp \in Seq(Components) /\ Len(pp) = Len(q) - 1 /\ \A n \in 1 .. Len(q) - 1 : pp[n] = q[n]
      BY ONLY <2>1, <2>2, LastStep
    <2> QED BY <2>1, <2>3
  <1>6. pp = SubSeq(name, 1, d - 1)
    <2>1. /\ SubSeq(name, 1, d - 1) \in Seq(Components) /\ Len(SubSeq(name, 1, d - 1)) = d - 1
          /\ \A n \in 1 .. d - 1 : SubSeq(name, 1, d - 1)[n] = name[n]
      <3>1. \A i \in 1 .. d - 1 : name[i] \in Components
        BY <1>2
      <3>2. PICK N \in Nat : N = d - 1
        OBVIOUS
      <3> HIDE DEF Components
      <3>3. /\ SubSeq(name, 1, N) \in Seq(Components) /\ Len(SubSeq(name, 1, N)) = N
            /\ \A n \in 1 .. N : SubSeq(name, 1, N)[n] = name[n]
        <4>1. 1 \in Int /\ N \in Int
          OBVIOUS
        <4> QED BY <4>1, <3>1, <3>2, SubSeqProperties
      <3> QED BY <3>2, <3>3
    <2>2. \A n \in 1 .. d - 1 : pp[n] = SubSeq(name, 1, d - 1)[n]
      BY <2>1, <1>3, <1>5
    <2> HIDE DEF Components
    <2> QED BY <2>1, <2>2, <1>5, SeqEqual
  <1>7. CASE d = 1
    <2>1. pp = <<>>
      BY <1>5, <1>7
    <2>2. IsPlain(pp) /\ parse_path(t, pp) = At("FS_SUCCESS", root)
      BY <2>1, RootFound DEF IsPlain
    <2> QED BY <2>1, <2>2, <1>3, <1>4, <1>5, <1>6 DEF At, IsThere
  <1>8. CASE d # 1
    <2>1. PICK k \in Nat \ {0} : d = k + 1 /\ k = d - 1
      <3>1. d - 1 \in Nat \ {0} /\ d = (d - 1) + 1
        BY <1>8
      <3> QED BY <3>1
    <2>2. pp \in PathsTo(es, c, d)
      <3>1. PathsTo(es, c, k + 1) = PathsTo(es, c, k) \cup {SubSeq(name, 1, k)}
        BY PathsGrow DEF Grown
      <3> QED BY <3>1, <2>1, <1>6
    <2>3. IsPlain(pp) /\ parse_path(t, pp).status = "FS_SUCCESS"
      BY <2>2 DEF UnpackedTo, Holds
    <2> QED BY <2>2, <2>3, <1>3, <1>4, <1>5, <1>6 DEF IsThere
  <1> QED BY <1>7, <1>8

\* An entry that becomes a node has a name, which is one of the paths made.
LEMMA OwnPath ==
    ASSUME NEW es \in Seq(Entry), NEW c \in 1 .. Len(es) + 1, NEW j \in MadeBefore(es, c), NEW d
    PROVE  /\ Stripped(es[j]) \in PathsTo(es, c, d)
           /\ Stripped(es[j]) \in Seq(Components) /\ Stripped(es[j]) # <<>>
           /\ j \in 1 .. Len(es) /\ j < c
  <1>1. j \in 1 .. c - 1 /\ Creates(es[j])
    BY DEF MadeBefore
  <1>2. j \in 1 .. Len(es) /\ j < c
    BY <1>1
  <1>3. PICK name \in Seq(Components) : name = Stripped(es[j])
    <2> HIDE DEF Entry
    <2>1. es[j] \in Entry
      BY <1>2
    <2> QED BY <2>1, StrippedPath
  <1>4. name # <<>>
    BY <1>1, <1>3 DEF Creates, IsRoot
  <1>5. Len(name) \in 1 .. Len(name) /\ SubSeq(name, 1, Len(name)) = name
    BY <1>4, WholeName
  <1>6. name \in Beginnings(name, Len(name))
    BY <1>5 DEF Beginnings
  <1> QED BY <1>2, <1>3, <1>4, <1>6 DEF PathsTo, PathsBefore

\* The kinds stay when the nodes do.
LEMMA KindsStay ==
    ASSUME NEW es \in Seq(Entry), NEW c \in 1 .. Len(es) + 1, NEW d, NEW t, NEW t1,
           KindsKept(es, t, c), Same(t, t1, PathsTo(es, c, d))
    PROVE  KindsKept(es, t1, c)
  <1>1. ASSUME NEW j \in MadeBefore(es, c) PROVE Found(t1, Stripped(es[j])) = Found(t, Stripped(es[j]))
    BY OwnPath DEF Same
  <1> QED BY <1>1 DEF KindsKept

\* ensure_parent_directories makes one more folder of the name.
LEMMA ParentAdds ==
    ASSUME NEW es \in Seq(Entry), NEW t, Inv(t), NEW c \in 1 .. Len(es),
           NEW name \in Seq(Components), name = Stripped(es[c]),
           NEW d \in 1 .. Len(name), UnpackedTo(es, t, c, d),
           NEW path, path = SubSeq(name, 1, d), NEW m, NEW none, none = <<>>, NEW yes, yes = TRUE,
           NEW r, r = create_file(t, path, m, none, yes), Accepted(r)
    PROVE  UnpackedTo(es, r.fs, c, d + 1)
  <1>1. PICK pp : ParentPath(pp, path)
    BY DEF ParentPath
  <1>2. Good(t) /\ none \in Seq(Nat) /\ yes \in BOOLEAN /\ c \in Nat \ {0} /\ c \in 1 .. Len(es) + 1
    BY DEF Inv
  <1>3. path \in Seq(Components) /\ path # <<>> /\ IsPlain(pp) /\ parse_path(t, pp).status = "FS_SUCCESS"
    <2>1. IsThere(es, t, c, name, d, path, pp)
      BY <1>1, <1>2, ParentThere
    <2> QED BY <2>1 DEF IsThere
  <1>4. PICK M : M = PathsTo(es, c, d)
    OBVIOUS
  <1>5. PathsTo(es, c, d + 1) = M \cup {path}
    <2>1. d \in Nat \ {0}
      OBVIOUS
    <2>2. PathsTo(es, c, d + 1) = PathsTo(es, c, d) \cup {SubSeq(name, 1, d)}
      <3>1. Grown(es, c, name)
        BY <1>2, PathsGrow
      <3> QED BY <3>1, <2>1 DEF Grown
    <2> QED BY <2>2, <1>4
  <1>6. Holds(t, M) /\ KindsKept(es, t, c) /\ FilesListed(es, t, c, d) /\ \A j \in 1 .. c - 1 : ~es[j].trailer
    BY <1>4 DEF UnpackedTo
  <1>7. /\ Holds(r.fs, M \cup {path})
        /\ Same(t, r.fs, M)
        /\ path \notin M => Found(r.fs, path).dir = yes
    <2>1. Added(t, r.fs, M, path, none, yes)
      BY <1>1, <1>2, <1>3, <1>6, CreateAdds
    <2> QED BY <2>1 DEF Added
  <1>8. KindsKept(es, r.fs, c)
    BY <1>2, <1>4, <1>6, <1>7, KindsStay
  <1>9. FilesListed(es, r.fs, c, d + 1)
    <2>1. ASSUME NEW p \in M \cup {path}, ~Found(r.fs, p).dir
          PROVE  \E j \in MadeBefore(es, c) : es[j].type # "directory" /\ p = Stripped(es[j])
      <3>1. p \in M /\ ~Found(t, p).dir
        BY <2>1, <1>7 DEF Same
      <3> QED BY <3>1, <1>4, <1>6 DEF FilesListed
    <2> QED BY <2>1, <1>5 DEF FilesListed
  <1> QED BY <1>5, <1>6, <1>7, <1>8, <1>9 DEF UnpackedTo

\* A path made before leads on from an earlier name, or is a part of this one.
LEMMA MadeIsBelow ==
    ASSUME NEW es \in Seq(Entry), NEW c \in 1 .. Len(es), NEW name \in Seq(Components),
           name = Stripped(es[c]), name # <<>>, name \in PathsTo(es, c, Len(name))
    PROVE  \E j \in MadeBefore(es, c) : Below(Stripped(es[j]), name)
  <1>1. name \notin Beginnings(name, Len(name) - 1)
    <2> SUFFICES ASSUME NEW k \in 1 .. Len(name) - 1, name = SubSeq(name, 1, k) PROVE FALSE
      BY DEF Beginnings
    <2>1. Len(name) \in Nat /\ k \in Nat /\ 1 <= k /\ k < Len(name)
      OBVIOUS
    <2>2. Len(SubSeq(name, 1, k)) = k
      <3>1. 1 \in Int /\ k \in Int /\ \A i \in 1 .. k : name[i] \in Components
        BY <2>1
      <3> HIDE DEF Components
      <3> QED BY <3>1, <2>1, SubSeqProperties
    <2> QED BY <2>1, <2>2
  <1>2. name \in PathsBefore(es, c)
    BY <1>1 DEF PathsTo
  <1>3. PICK j \in MadeBefore(es, c) : name \in Beginnings(Stripped(es[j]), Len(Stripped(es[j])))
    BY <1>2 DEF PathsBefore
  <1>4. PICK whole \in Seq(Components) : whole = Stripped(es[j])
    <2>1. c \in 1 .. Len(es) + 1
      OBVIOUS
    <2> QED BY <2>1, OwnPath
  <1>5. PICK k \in 1 .. Len(whole) : name = SubSeq(whole, 1, k)
    BY <1>3, <1>4 DEF Beginnings
  <1>6. Len(name) = k
    <2>1. 1 \in Int /\ k \in Int /\ 1 <= k /\ \A i \in 1 .. k : whole[i] \in Components
      OBVIOUS
    <2> HIDE DEF Components
    <2> QED BY <2>1, <1>5, SubSeqProperties
  <1>7. Below(whole, name)
    BY <1>5, <1>6 DEF Below
  <1> QED BY <1>4, <1>7

\* The entry itself.
LEMMA EntryAdds ==
    ASSUME NEW es \in Seq(Entry), NEW t, Inv(t), NEW c \in 1 .. Len(es), Creates(es[c]),
           NEW name \in Seq(Components), name = Stripped(es[c]), name # <<>>,
           UnpackedTo(es, t, c, Len(name)), NEW m, NEW isDir, isDir = (es[c].type = "directory"),
           NEW data \in Seq(Nat), data = IF isDir THEN <<>> ELSE es[c].data,
           NEW r, r = create_file(t, name, m, data, isDir), Accepted(r)
    PROVE  UnpackedTo(es, r.fs, c + 1, 0)
  <1>1. PICK pp : ParentPath(pp, name)
    BY DEF ParentPath
  <1>2. /\ Good(t) /\ isDir \in BOOLEAN /\ c \in Nat \ {0} /\ c \in 1 .. Len(es) + 1
        /\ c + 1 \in 1 .. Len(es) + 1 /\ Len(name) \in 1 .. Len(name) /\ SubSeq(name, 1, Len(name)) = name
    BY WholeName DEF Inv
  <1>3. IsPlain(pp) /\ parse_path(t, pp).status = "FS_SUCCESS"
    <2>1. IsThere(es, t, c, name, Len(name), name, pp)
      BY <1>1, <1>2, ParentThere
    <2> QED BY <2>1 DEF IsThere
  <1>4. PICK M : M = PathsTo(es, c, Len(name))
    OBVIOUS
  <1>5. PathsTo(es, c + 1, 0) = M \cup {name} /\ MadeBefore(es, c + 1) = MadeBefore(es, c) \cup {c}
    BY <1>2, <1>4, PathsGrow DEF Grown
  <1>6. /\ Holds(t, M) /\ KindsKept(es, t, c) /\ FilesListed(es, t, c, Len(name))
        /\ \A j \in 1 .. c - 1 : ~es[j].trailer
    BY <1>4 DEF UnpackedTo
  <1>7. /\ Holds(r.fs, M \cup {name})
        /\ Same(t, r.fs, M)
        /\ name \notin M => Found(r.fs, name).dir = isDir /\ Found(r.fs, name).data = data
    <2>1. Added(t, r.fs, M, name, data, isDir)
      BY <1>1, <1>2, <1>3, <1>6, CreateAdds
    <2> QED BY <2>1 DEF Added
  <1>8. KindsKept(es, r.fs, c)
    BY <1>2, <1>4, <1>6, <1>7, KindsStay
  <1>9. KindsKept(es, r.fs, c + 1)
    <2> SUFFICES ASSUME NEW j \in MadeBefore(es, c + 1),
                        \A i \in MadeBefore(es, c + 1) : i < j => ~Below(Stripped(es[i]), Stripped(es[j]))
                 PROVE  /\ Found(r.fs, Stripped(es[j])).dir = (es[j].type = "directory")
                        /\ es[j].type # "directory" => Found(r.fs, Stripped(es[j])).data = es[j].data
      BY DEF KindsKept
    <2>1. CASE j = c
      <3>1. name \notin M
        <4> SUFFICES ASSUME name \in M PROVE FALSE
          OBVIOUS
        <4>1. PICK i \in MadeBefore(es, c) : Below(Stripped(es[i]), name)
          BY <1>4, MadeIsBelow
        <4>2. i < c
          BY <1>2, OwnPath
        <4> QED BY <4>1, <4>2, <2>1, <1>5
      <3> QED BY <3>1, <2>1, <1>7
    <2>2. CASE j # c
      <3>1. j \in MadeBefore(es, c)
        BY <2>2, <1>5
      <3> QED BY <3>1, <1>5, <1>8 DEF KindsKept
    <2> QED BY <2>1, <2>2
  <1>10. FilesListed(es, r.fs, c + 1, 0)
    <2>1. ASSUME NEW p \in M \cup {name}, ~Found(r.fs, p).dir
          PROVE  \E j \in MadeBefore(es, c) \cup {c} : es[j].type # "directory" /\ p = Stripped(es[j])
      <3>1. CASE p \in M
        <4>1. ~Found(t, p).dir
          BY <3>1, <2>1, <1>7 DEF Same
        <4> QED BY <4>1, <3>1, <1>4, <1>6 DEF FilesListed
      <3>2. CASE p \notin M
        <4>1. p = name /\ ~isDir
          BY <3>2, <2>1, <1>7
        <4> QED BY <4>1
      <3> QED BY <3>1, <3>2
    <2> QED BY <2>1, <1>5 DEF FilesListed
  <1>11. ASSUME NEW j \in 1 .. (c + 1) - 1 PROVE ~es[j].trailer
    <2>1. j = c \/ j \in 1 .. c - 1
      OBVIOUS
    <2> QED BY <2>1, <1>6 DEF Creates
  <1> QED BY <1>5, <1>7, <1>9, <1>10, <1>11 DEF UnpackedTo

\* An entry that becomes no node.
LEMMA EntrySkipped ==
    ASSUME NEW es \in Seq(Entry), NEW t, NEW c \in 1 .. Len(es), ~Creates(es[c]), ~es[c].trailer,
           UnpackedTo(es, t, c, 0)
    PROVE  UnpackedTo(es, t, c + 1, 0)
  <1>1. PICK name \in Seq(Components) : name = Stripped(es[c])
    <2> HIDE DEF Entry
    <2>1. es[c] \in Entry
      OBVIOUS
    <2> QED BY <2>1, StrippedPath
  <1>2. PathsTo(es, c + 1, 0) = PathsTo(es, c, 0) /\ MadeBefore(es, c + 1) = MadeBefore(es, c)
    <2>1. c \in Nat \ {0}
      OBVIOUS
    <2> QED BY <2>1, <1>1, PathsGrow DEF Grown
  <1>3. ASSUME NEW j \in 1 .. (c + 1) - 1 PROVE ~es[j].trailer
    <2>1. j = c \/ j \in 1 .. c - 1
      OBVIOUS
    <2> QED BY <2>1 DEF UnpackedTo
  <1> QED BY <1>2, <1>3 DEF UnpackedTo, KindsKept, FilesListed

\* A name of which no beginning is a file's is refused for want of memory only.
LEMMA OnlyMemory ==
    ASSUME NEW es \in Seq(Entry), NEW t, Inv(t), NEW c \in 1 .. Len(es),
           NEW name \in Seq(Components), name = Stripped(es[c]),
           NEW d \in 1 .. Len(name), UnpackedTo(es, t, c, d), name[d] \in Names,
           \A j \in MadeBefore(es, c) : es[j].type # "directory" => ~Below(name, Stripped(es[j])),
           NEW path, path = SubSeq(name, 1, d), NEW m, NEW data, NEW isDir,
           NEW r, r = create_file(t, path, m, data, isDir), ~Accepted(r)
    PROVE  r.ret = "FS_FAIL"
  <1>1. PICK pp : ParentPath(pp, path)
    BY DEF ParentPath
  <1>2. Good(t) /\ c \in Nat \ {0} /\ Len(name) \in Nat /\ d \in Nat /\ d <= Len(name)
    BY DEF Inv
  <1>3. /\ path \in Seq(Components) /\ path # <<>> /\ Len(path) = d /\ path[d] = name[d]
        /\ parse_path(t, pp).status = "FS_SUCCESS" /\ pp = SubSeq(name, 1, d - 1) /\ Len(pp) = d - 1
        /\ pp \in PathsTo(es, c, d) \/ (pp = <<>> /\ parse_path(t, pp).file = root)
    <2>1. IsThere(es, t, c, name, d, path, pp)
      BY <1>1, <1>2, ParentThere
    <2> QED BY <2>1 DEF IsThere
  <1>4. path[Len(path)] \notin {Dot, DotDot}
    BY <1>3, FsAssumption
  <1>5. PICK f : f = parse_path(t, pp).file
    OBVIOUS
  <1>6. t.node[f].dir
    <2>1. CASE pp \in PathsTo(es, c, d)
      <3> SUFFICES ASSUME ~t.node[f].dir PROVE FALSE
        OBVIOUS
      <3>1. ~Found(t, pp).dir
        BY <1>5 DEF Found
      <3>2. PICK j \in MadeBefore(es, c) : es[j].type # "directory" /\ pp = Stripped(es[j])
        BY <3>1, <2>1 DEF UnpackedTo, FilesListed
      <3>3. Below(name, pp)
        <4>1. Len(pp) <= Len(name) /\ SubSeq(name, 1, Len(pp)) = pp
          BY <1>2, <1>3
        <4> QED BY <4>1 DEF Below
      <3> QED BY <3>2, <3>3
    <2>2. CASE f = root
      BY <2>2, <1>2 DEF Good, IsFs
    <2> QED BY <2>1, <2>2, <1>3, <1>5
  <1>7. Reasons(t, path, f, r)
    BY <1>1, <1>3, <1>5, CreateReasons
  <1> QED BY <1>4, <1>6, <1>7 DEF Reasons, Accepted

-----------------------------------------------------------------------------
(* The parser on its way through the archive.                              *)

\* What an entry claims is its data, or more than there is on the disk.
Told ==
    \A i \in DOMAIN disk.entries :
       \/ disk.entries[i].filesize = Len(disk.entries[i].data)
       \/ EntryAt(disk.entries, i) + HEADER + disk.entries[i].namesize + disk.entries[i].filesize > disk.size

\* The parser is at the c-th entry, everything before it unpacked and nothing
\* else there.
AtEntry(c) == c \in 1 .. Len(disk.entries) + 1 /\ offset = EntryAt(disk.entries, c)
Position(c) ==
    /\ AtEntry(c) /\ UnpackedTo(disk.entries, fs, c, depth)
    /\ pc # "parents" => depth = 0
    /\ pc = "parents" => /\ c <= Len(disk.entries) /\ Creates(disk.entries[c])
                         /\ depth \in 1 .. Len(Stripped(disk.entries[c]))
                         /\ disk.entries[c].filesize = Len(disk.entries[c].data)
    /\ pc = "mounted" => c <= Len(disk.entries) /\ disk.entries[c].trailer

ArchiveInv ==
    /\ InitramfsInv /\ Told
    /\ pc \in {"header", "parents", "mounted"} => \E c : Position(c)
    /\ pc = "panic" => ~Sound \/ ret = "FS_FAIL"

\* The entry found at the offset is the c-th.
LEMMA HeaderIsEntry ==
    ASSUME InitramfsTypeOK, NEW c, AtEntry(c)
    PROVE  /\ EntriesAt(offset) # {} <=> c \in 1 .. Len(disk.entries)
           /\ c \in 1 .. Len(disk.entries) => Current = disk.entries[c] /\ disk.entries[c] \in Entry
  <1>1. PICK es \in Seq(Entry) : es = disk.entries
    BY DEF InitramfsTypeOK
  <1>2. c \in 1 .. Len(es) + 1 /\ offset = EntryAt(es, c) /\ DOMAIN es = 1 .. Len(es)
    BY <1>1 DEF AtEntry
  <1>3. EntriesAt(offset) = {i \in 1 .. Len(es) : EntryAt(es, i) = EntryAt(es, c)}
    BY <1>1, <1>2 DEF EntriesAt
  <1>4. ASSUME NEW i \in EntriesAt(offset) PROVE i = c
    <2>1. i \in 1 .. Len(es) + 1 /\ EntryAt(es, i) = EntryAt(es, c)
      BY <1>3
    <2> QED BY <2>1, <1>2, EntriesApart
  <1>5. c \in 1 .. Len(es) => c \in EntriesAt(offset)
    BY <1>3
  <1>6. EntriesAt(offset) # {} => c \in 1 .. Len(es)
    BY <1>3, <1>4
  <1>7. ASSUME c \in 1 .. Len(es) PROVE Current = es[c] /\ es[c] \in Entry
    <2>1. PICK k : k = CHOOSE i \in EntriesAt(offset) : TRUE
      OBVIOUS
    <2>2. k = c
      BY <2>1, <1>4, <1>5, <1>7
    <2> HIDE DEF Entry
    <2>3. es[c] \in Entry
      BY <1>7
    <2>4. Current = es[k]
      BY <2>1, <1>1 DEF Current
    <2> QED BY <2>2, <2>3, <2>4
  <1> QED BY <1>1, <1>5, <1>6, <1>7

\* Where the parts of an entry end that claims its data.
LEMMA EntryEnds ==
    ASSUME InitramfsTypeOK, NEW c, AtEntry(c), c \in 1 .. Len(disk.entries),
           disk.entries[c].filesize = Len(disk.entries[c].data)
    PROVE  /\ offset \in Nat /\ Current.namesize \in Nat /\ Current.filesize \in Nat
           /\ NameEnd \in Nat /\ DataEnd \in Nat /\ Padded(DataEnd) \in Nat
           /\ NameEnd >= offset + HEADER + Current.namesize /\ DataEnd = NameEnd + Current.filesize
           /\ Padded(DataEnd) >= DataEnd
           /\ Padded(DataEnd) = EntryAt(disk.entries, c + 1)
  <1>1. PICK es \in Seq(Entry) : es = disk.entries
    BY DEF InitramfsTypeOK
  <1>2. EntriesAt(offset) # {} /\ Current = es[c] /\ offset = EntryAt(es, c)
    BY <1>1, HeaderIsEntry DEF AtEntry
  <1>3. /\ Current.namesize \in Nat /\ Current.filesize \in Nat
        /\ NameEnd \in Nat /\ NameEnd >= offset + HEADER + Current.namesize
        /\ DataEnd \in Nat /\ DataEnd = NameEnd + Current.filesize /\ Padded(DataEnd) \in Nat
    BY <1>2, OffsetsNat
  <1>4. DataEnd = DataTo(es[c], EntryAt(es, c))
    BY <1>1, <1>2 DEF DataEnd, DataTo, NameEnd, NameTo
  <1>5. Padded(DataEnd) = EntryAt(es, c + 1)
    <2>1. c \in 1 .. Len(es)
      BY <1>1
    <2> QED BY <2>1, <1>4, EntrySteps
  <1>6. Padded(DataEnd) >= DataEnd
    BY <1>3, PaddedNat
  <1> QED BY <1>1, <1>3, <1>5, <1>6 DEF InitramfsTypeOK

\* If its data is there, an entry claims its data.
LEMMA ClaimsItsData ==
    ASSUME InitramfsTypeOK, Told, NEW c, AtEntry(c), c \in 1 .. Len(disk.entries), DataOK
    PROVE  disk.entries[c].filesize = Len(disk.entries[c].data)
  <1>1. EntriesAt(offset) # {} /\ Current = disk.entries[c] /\ offset = EntryAt(disk.entries, c)
    BY HeaderIsEntry DEF AtEntry
  <1>2. /\ Current.namesize \in Nat /\ Current.filesize \in Nat
        /\ NameEnd \in Nat /\ NameEnd >= offset + HEADER + Current.namesize
    BY <1>1, OffsetsNat
  <1>3. disk.size \in Nat /\ disk.size - NameEnd >= Current.filesize /\ offset \in Nat
    BY DEF DataOK, Fits, InitramfsTypeOK
  <1>4. ~(offset + HEADER + Current.namesize + Current.filesize > disk.size)
    <2> HIDE DEF NameEnd, Current
    <2> QED BY <1>2, <1>3 DEF HEADER
  <1>5. c \in DOMAIN disk.entries
    <2>1. PICK es \in Seq(Entry) : es = disk.entries
      BY DEF InitramfsTypeOK
    <2> QED BY <2>1
  <1>6. \/ disk.entries[c].filesize = Len(disk.entries[c].data)
        \/ offset + HEADER + Current.namesize + Current.filesize > disk.size
    BY <1>1, <1>5 DEF Told
  <1> QED BY <1>4, <1>6

\* In a sound archive the parser finds nothing to refuse.
LEMMA SoundGoes ==
    ASSUME InitramfsTypeOK, Sound, NEW c, AtEntry(c), \A j \in 1 .. c - 1 : ~disk.entries[j].trailer
    PROVE  /\ c \in 1 .. Len(disk.entries)
           /\ HeaderOK /\ NameLengthOK /\ NameOK /\ ~SlashFirst(Current) /\ DataOK /\ NextOK
  <1>1. PICK es \in Seq(Entry) : es = disk.entries
    BY DEF InitramfsTypeOK
  <1>2. PICK n \in Nat : n = Len(es)
    OBVIOUS
  <1>3. /\ disk.size = EntryAt(es, n + 1) /\ n > 0 /\ es[n].trailer
        /\ \A i \in 1 .. n : /\ es[i].magic /\ es[i].hex /\ es[i].ended /\ ~SlashFirst(es[i])
                             /\ es[i].namesize \in 1 .. MAX_PATH + 1
                             /\ es[i].filesize = Len(es[i].data)
    BY <1>1, <1>2 DEF Sound
  <1>4. c \in 1 .. n
    <2>1. c \in 1 .. n + 1
      BY <1>1, <1>2 DEF AtEntry
    <2>2. c # n + 1
      <3> SUFFICES ASSUME c = n + 1 PROVE FALSE
        OBVIOUS
      <3>1. n \in 1 .. c - 1
        BY <1>3
      <3> QED BY <3>1, <1>1, <1>3
    <2> QED BY <2>1, <2>2
  <1>5. c \in 1 .. Len(disk.entries) /\ disk.entries[c].filesize = Len(disk.entries[c].data)
    BY <1>1, <1>2, <1>3, <1>4
  <1>6. EntriesAt(offset) # {} /\ Current = es[c]
    BY <1>1, <1>5, HeaderIsEntry
  <1>7. PICK o \in Nat, ns \in Nat, fz \in Nat, ne \in Nat, de \in Nat, pd \in Nat :
          /\ o = offset /\ ns = Current.namesize /\ fz = Current.filesize
          /\ ne = NameEnd /\ de = DataEnd /\ pd = Padded(DataEnd)
    BY <1>5, EntryEnds
  <1>8. ne >= o + HEADER + ns /\ de = ne + fz /\ pd >= de /\ pd = EntryAt(es, c + 1)
    BY <1>1, <1>5, <1>7, EntryEnds
  <1>9. PICK sz \in Nat : sz = disk.size /\ pd <= sz
    <2>1. c + 1 \in 1 .. Len(es) + 1 /\ n + 1 \in 1 .. Len(es) + 1 /\ (c + 1 < n + 1 \/ c + 1 = n + 1)
      BY <1>2, <1>4
    <2>2. disk.size \in Nat
      BY DEF InitramfsTypeOK
    <2>3. CASE c + 1 < n + 1
      <3>1. EntryAt(es, c + 1) < EntryAt(es, n + 1)
        BY <2>1, <2>3, EntriesApart
      <3> QED BY <3>1, <2>2, <1>3, <1>8
    <2>4. CASE c + 1 = n + 1
      BY <2>4, <2>2, <1>3, <1>8
    <2> QED BY <2>1, <2>3, <2>4
  <1> DEFINE from == o + HEADER + ns
  <1>10. from \in Nat /\ from >= o + HEADER /\ from <= ne /\ ne <= sz
    <2>1. from \in Nat /\ from >= o + HEADER /\ from <= ne
      BY <1>8 DEF HEADER
    <2>2. ne <= de
      BY <1>8
    <2>3. de <= pd /\ pd <= sz
      BY <1>8, <1>9
    <2> HIDE DEF from
    <2> QED BY ONLY <2>1, <2>2, <2>3
  <1>11. HeaderOK
    <2>1. Fits(offset, HEADER)
      <3>1. o <= sz /\ sz - o >= HEADER
        BY <1>8, <1>9 DEF HEADER
      <3> QED BY <3>1, <1>7, <1>9 DEF Fits
    <2> QED BY <2>1, <1>3, <1>4, <1>6 DEF HeaderOK, hex8
  <1>12. NameLengthOK
    <2>1. Fits(offset + HEADER, Current.namesize)
      <3>1. o + HEADER <= sz /\ sz - (o + HEADER) >= ns
        BY <1>8, <1>9 DEF HEADER
      <3> QED BY <3>1, <1>7, <1>9 DEF Fits
    <2> QED BY <2>1, <1>3, <1>4, <1>6 DEF NameLengthOK
  <1>13. NameOK
    <2>1. Fits(offset + HEADER + Current.namesize, NameEnd - offset - HEADER - Current.namesize)
      <3>1. ne - o - HEADER - ns = ne - from
        BY DEF HEADER
      <3>2. from <= sz /\ sz - from >= ne - from
        <4> HIDE DEF from
        <4> QED BY ONLY <1>10
      <3> QED BY <3>1, <3>2, <1>7, <1>9 DEF Fits
    <2> QED BY <2>1, <1>3, <1>4, <1>6 DEF NameOK
  <1>14. DataOK
    <2>1. ne <= sz /\ sz - ne >= fz
      BY <1>8, <1>9
    <2> QED BY <2>1, <1>7, <1>9 DEF DataOK, Fits
  <1>15. NextOK
    <2>1. de <= sz /\ sz - de >= pd - de
      BY <1>8, <1>9
    <2> QED BY <2>1, <1>7, <1>9 DEF NextOK, Fits
  <1>16. ~SlashFirst(Current)
    BY <1>3, <1>4, <1>6
  <1> QED BY <1>5, <1>11, <1>12, <1>13, <1>14, <1>15, <1>16

\* In a sound archive an entry's name is made of names, and no beginning of it
\* is the name of a file.
LEMMA SoundNames ==
    ASSUME InitramfsTypeOK, Sound, NEW c \in 1 .. Len(disk.entries), Creates(disk.entries[c]),
           \A j \in 1 .. c - 1 : ~disk.entries[j].trailer
    PROVE  /\ \A k \in 1 .. Len(Stripped(disk.entries[c])) : Stripped(disk.entries[c])[k] \in Names
           /\ \A j \in MadeBefore(disk.entries, c) :
                disk.entries[j].type # "directory" =>
                     ~Below(Stripped(disk.entries[c]), Stripped(disk.entries[j]))
  <1>1. PICK es \in Seq(Entry) : es = disk.entries /\ DOMAIN es = 1 .. Len(es)
    BY DEF InitramfsTypeOK
  <1>2. /\ \A i \in Listed : \A k \in DOMAIN Stripped(es[i]) : Stripped(es[i])[k] \in Names
        /\ \A i, j \in Listed : i # j /\ es[i].type # "directory" => ~Below(Stripped(es[j]), Stripped(es[i]))
    BY <1>1 DEF Sound, PathOf
  <1>3. c \in Listed
    <2>1. ASSUME NEW j \in 1 .. c PROVE ~es[j].trailer
      <3>1. j = c \/ j \in 1 .. c - 1
        OBVIOUS
      <3> QED BY <3>1, <1>1 DEF Creates
    <2> QED BY <2>1, <1>1 DEF Listed
  <1>4. ASSUME NEW j \in MadeBefore(es, c) PROVE j \in Listed /\ j # c
    <2>1. j \in 1 .. c - 1 /\ Creates(es[j])
      BY DEF MadeBefore
    <2>2. \A i \in 1 .. j : i \in 1 .. c - 1
      BY <2>1
    <2> QED BY <2>1, <2>2, <1>1 DEF Listed
  <1>5. Stripped(es[c]) \in Seq(Components)
    <2> HIDE DEF Entry
    <2>1. es[c] \in Entry
      BY <1>1
    <2> QED BY <2>1, StrippedPath
  <1>6. DOMAIN Stripped(es[c]) = 1 .. Len(Stripped(es[c]))
    BY <1>5
  <1> QED BY <1>1, <1>2, <1>3, <1>4, <1>6

\* The disk does not change while it is unpacked.
LEMMA SameDisk ==
    ASSUME disk' = disk
    PROVE  (Told => Told') /\ (Sound' <=> Sound)
  BY DEF Told, Sound, Listed, PathOf

\* What a step of the parser keeps.
Goes ==
    /\ Told'
    /\ pc' \in {"header", "parents", "mounted"} => \E c : Position(c)'
    /\ pc' = "panic" => ~Sound' \/ ret' = "FS_FAIL"

\* On from an entry that is done to the next one.
LEMMA AdvanceGoes ==
    ASSUME InitramfsTypeOK, Told, NEW c \in 1 .. Len(disk.entries), AtEntry(c), DataOK, Advance,
           \A j \in 1 .. c - 1 : ~disk.entries[j].trailer,
           NEW es, es = disk.entries, UnpackedTo(es, fs', c + 1, 0)
    PROVE  Goes
  <1>1. disk' = disk /\ depth' = 0 /\ Told'
    BY SameDisk DEF Advance
  <1>2. CASE NextOK
    <2>1. pc' = "header" /\ offset' = Padded(DataEnd)
      BY <1>2 DEF Advance
    <2>2. offset' = EntryAt(es, c + 1)
      BY <2>1, ClaimsItsData, EntryEnds
    <2>3. c + 1 \in 1 .. Len(es) + 1
      <3>1. Len(disk.entries) \in Nat
        BY DEF InitramfsTypeOK
      <3> QED BY <3>1
    <2>4. disk'.entries = es
      BY <1>1
    <2>5. Position(c + 1)'
      BY <2>1, <2>2, <2>3, <2>4, <1>1 DEF Position, AtEntry
    <2> QED BY <2>1, <2>5, <1>1 DEF Goes
  <1>3. CASE ~NextOK
    <2>1. pc' = "panic"
      BY <1>3 DEF Advance
    <2>2. ~Sound
      BY <1>3, SoundGoes
    <2> QED BY <2>1, <2>2, <1>1, SameDisk DEF Goes
  <1> QED BY <1>2, <1>3

\* A header is looked at: the parser stays, goes to the next entry or panics.
LEMMA HeaderGoes ==
    ASSUME ArchiveInv, BadHeader \/ BadEntry \/ GoodEntry
    PROVE  Goes
  <1>1. /\ pc = "header" /\ UNCHANGED vars /\ disk' = disk /\ InitramfsTypeOK /\ Told
    BY DEF BadHeader, BadEntry, GoodEntry, InitFsPanics, Advance, ArchiveInv, InitramfsInv
  <1>2. PICK c : Position(c)
    BY <1>1 DEF ArchiveInv
  <1>3. PICK es \in Seq(Entry) : es = disk.entries
    BY <1>1 DEF InitramfsTypeOK
  <1>4. AtEntry(c) /\ UnpackedTo(es, fs, c, 0) /\ depth = 0 /\ \A j \in 1 .. c - 1 : ~disk.entries[j].trailer
    BY <1>1, <1>2, <1>3 DEF Position, UnpackedTo
  <1>5. Told' /\ (Sound' <=> Sound)
    BY <1>1, SameDisk
  <1>6. CASE BadHeader \/ BadEntry
    <2>1. ~Sound
      <3> SUFFICES ASSUME Sound PROVE FALSE
        OBVIOUS
      <3>1. HeaderOK /\ NameLengthOK /\ NameOK /\ ~SlashFirst(Current) /\ DataOK
        BY <1>1, <1>4, SoundGoes
      <3> QED BY <3>1, <1>6 DEF BadHeader, BadEntry
    <2>2. pc' = "panic"
      BY <1>6 DEF BadHeader, BadEntry, InitFsPanics
    <2> QED BY <2>1, <2>2, <1>5 DEF Goes
  <1>7. CASE GoodEntry
    <2>1. EntriesAt(offset) # {}
      BY <1>7 DEF GoodEntry, HeaderOK
    <2>2. c \in 1 .. Len(es) /\ Current = es[c]
      BY <2>1, <1>1, <1>3, <1>4, HeaderIsEntry
    <2>3. CASE Current.trailer
      <3>1. pc' = "mounted" /\ UNCHANGED <<offset, depth>>
        BY <2>3, <1>7 DEF GoodEntry
      <3>2. Position(c)'
        <4>1. fs' = fs /\ depth' = 0 /\ offset' = offset /\ disk'.entries = es /\ c <= Len(es) /\ es[c].trailer
          BY <3>1, <2>2, <2>3, <1>1, <1>3, <1>4 DEF vars
        <4>2. c \in 1 .. Len(es) + 1 /\ offset = EntryAt(es, c)
          BY <1>3, <1>4 DEF AtEntry
        <4> QED BY <4>1, <4>2, <3>1, <1>4 DEF Position, AtEntry
      <3> QED BY <3>1, <3>2, <1>5 DEF Goes
    <2>4. CASE ~Current.trailer /\ Creates(Current)
      <3>1. pc' = "parents" /\ depth' = 1 /\ offset' = offset /\ DataOK
        BY <2>4, <1>7 DEF GoodEntry
      <3>2. PICK name \in Seq(Components) : name = Stripped(es[c])
        <4> HIDE DEF Entry
        <4>1. es[c] \in Entry
          BY <2>2
        <4> QED BY <4>1, StrippedPath
      <3>3. Len(name) \in Nat /\ 1 \in 1 .. Len(name) /\ Creates(es[c])
        <4>1. name # <<>> /\ Creates(es[c])
          BY <3>2, <2>2, <2>4 DEF Creates, IsRoot
        <4> QED BY <4>1
      <3>4. UnpackedTo(es, fs, c, 1)
        <4>1. c \in Nat \ {0}
          BY <2>2
        <4>2. Grown(es, c, name)
          BY <4>1, <3>2, PathsGrow
        <4>3. PathsTo(es, c, 1) = PathsTo(es, c, 0)
          BY <4>2 DEF Grown
        <4> QED BY <4>3, <1>4 DEF UnpackedTo, FilesListed
      <3>5. es[c].filesize = Len(es[c].data)
        BY <3>1, <2>2, <1>1, <1>3, <1>4, ClaimsItsData
      <3>6. Position(c)'
        <4>1. fs' = fs /\ disk'.entries = es /\ c <= Len(es)
          BY <2>2, <1>1, <1>3 DEF vars
        <4>2. c \in 1 .. Len(es) + 1 /\ offset = EntryAt(es, c)
          BY <1>3, <1>4 DEF AtEntry
        <4>3. depth' \in 1 .. Len(Stripped(es[c]))
          BY <3>1, <3>2, <3>3
        <4> QED BY <4>1, <4>2, <4>3, <3>1, <3>3, <3>4, <3>5 DEF Position, AtEntry
      <3> QED BY <3>1, <3>6, <1>5 DEF Goes
    <2>5. CASE ~Current.trailer /\ ~Creates(Current)
      <3>1. Advance /\ DataOK
        BY <2>5, <1>7 DEF GoodEntry
      <3>2. UnpackedTo(es, fs, c + 1, 0)
        BY <2>2, <2>5, <1>4, EntrySkipped
      <3>3. UnpackedTo(es, fs', c + 1, 0) /\ c \in 1 .. Len(disk.entries)
        BY <3>2, <2>2, <1>1, <1>3 DEF vars
      <3> QED BY <3>1, <3>3, <1>1, <1>3, <1>4, AdvanceGoes
    <2> QED BY <2>3, <2>4, <2>5
  <1> QED BY <1>6, <1>7

\* The entry whose name is being made.
InName(c, es, name) ==
    /\ es \in Seq(Entry) /\ es = disk.entries /\ c \in 1 .. Len(es) /\ AtEntry(c) /\ Current = es[c]
    /\ name \in Seq(Components) /\ name = Stripped(es[c]) /\ name # <<>>
    /\ Creates(es[c]) /\ depth \in 1 .. Len(name) /\ UnpackedTo(es, fs, c, depth)
    /\ es[c].filesize = Len(es[c].data)
    /\ \A j \in 1 .. c - 1 : ~es[j].trailer

\* Between two components of a name the entry has passed every check.
LEMMA NameBeingMade ==
    ASSUME ArchiveInv, pc = "parents"
    PROVE  \E c, es, name : InName(c, es, name)
  <1>1. InitramfsTypeOK
    BY DEF ArchiveInv, InitramfsInv
  <1>2. PICK c : Position(c)
    BY DEF ArchiveInv
  <1>3. PICK es \in Seq(Entry) : es = disk.entries
    BY <1>1 DEF InitramfsTypeOK
  <1>4. /\ AtEntry(c) /\ UnpackedTo(es, fs, c, depth) /\ c <= Len(es) /\ Creates(es[c])
        /\ depth \in 1 .. Len(Stripped(es[c])) /\ es[c].filesize = Len(es[c].data)
    BY <1>2, <1>3 DEF Position
  <1>5. c \in 1 .. Len(es)
    BY <1>3, <1>4 DEF AtEntry
  <1>6. Current = es[c]
    BY <1>1, <1>3, <1>4, <1>5, HeaderIsEntry
  <1>7. PICK name \in Seq(Components) : name = Stripped(es[c])
    <2> HIDE DEF Entry
    <2>1. es[c] \in Entry
      BY <1>5
    <2> QED BY <2>1, StrippedPath
  <1>8. name # <<>>
    BY <1>4, <1>7 DEF Creates, IsRoot
  <1>9. \A j \in 1 .. c - 1 : ~es[j].trailer
    BY <1>4 DEF UnpackedTo
  <1>10. InName(c, es, name)
    BY <1>3, <1>4, <1>5, <1>6, <1>7, <1>8, <1>9 DEF InName
  <1> QED BY <1>10

\* A refusal in a sound archive is for want of memory.
LEMMA RefusalGoes ==
    ASSUME ArchiveInv, NEW c, NEW es, NEW name, InName(c, es, name), disk' = disk, pc' = "panic",
           NEW t, t = fs, NEW path, path = SubSeq(name, 1, depth), NEW m, NEW data, NEW isDir,
           NEW r, r = create_file(t, path, m, data, isDir), ~Accepted(r), ret' = r.ret
    PROVE  Goes
  <1>1. InitramfsTypeOK /\ Told /\ Inv(t)
    BY DEF ArchiveInv, InitramfsInv, Kept
  <1>2. Told' /\ (Sound' <=> Sound)
    BY <1>1, SameDisk
  <1>3. ASSUME Sound PROVE ret' = "FS_FAIL"
    <2>1. PICK d : d = depth
      OBVIOUS
    <2>2. /\ es \in Seq(Entry) /\ c \in 1 .. Len(es) /\ name \in Seq(Components) /\ name = Stripped(es[c])
          /\ d \in 1 .. Len(name) /\ UnpackedTo(es, t, c, d) /\ path = SubSeq(name, 1, d)
      BY <2>1 DEF InName
    <2>3. /\ \A k \in 1 .. Len(name) : name[k] \in Names
          /\ \A j \in MadeBefore(es, c) : es[j].type # "directory" => ~Below(name, Stripped(es[j]))
      <3>1. /\ c \in 1 .. Len(disk.entries) /\ Creates(disk.entries[c]) /\ es = disk.entries
            /\ \A j \in 1 .. c - 1 : ~disk.entries[j].trailer
        BY DEF InName
      <3>2. /\ \A k \in 1 .. Len(Stripped(disk.entries[c])) : Stripped(disk.entries[c])[k] \in Names
            /\ \A j \in MadeBefore(disk.entries, c) :
                 disk.entries[j].type # "directory" =>
                     ~Below(Stripped(disk.entries[c]), Stripped(disk.entries[j]))
        BY <3>1, <1>1, <1>3, SoundNames
      <3> QED BY <3>1, <3>2, <2>2
    <2>4. name[d] \in Names
      BY <2>2, <2>3
    <2> QED BY <2>2, <2>3, <2>4, <1>1, OnlyMemory
  <1> QED BY <1>2, <1>3 DEF Goes

\* A parent directory: one more component of the name is in the tree.
LEMMA EnsureParentGoes ==
    ASSUME ArchiveInv, EnsureParent
    PROVE  Goes
  <1>1. InitramfsTypeOK /\ Told /\ pc = "parents" /\ Inv(fs)
    BY DEF EnsureParent, ArchiveInv, InitramfsInv, Kept
  <1>2. PICK c, es, name : InName(c, es, name)
    BY <1>1, NameBeingMade
  <1>3. PICK t, d : t = fs /\ d = depth
    OBVIOUS
  <1>4. PICK path, none, yes : path = SubSeq(name, 1, d) /\ none = <<>> /\ yes = TRUE
    OBVIOUS
  <1>5. Stripped(Current) = name
    BY <1>2 DEF InName
  <1>6. PICK m \in 0 .. PLENTY :
          /\ Calls("create_file", path, none, yes, create_file(fs, path, m, none, yes))
          /\ \/ /\ Accepted(create_file(fs, path, m, none, yes))
                /\ depth' = depth + 1 /\ UNCHANGED <<pc, disk, offset>>
             \/ ~Accepted(create_file(fs, path, m, none, yes)) /\ InitFsPanics
    BY <1>3, <1>4, <1>5 DEF EnsureParent, create_folder
  <1>7. PICK r : r = create_file(t, path, m, none, yes)
    OBVIOUS
  <1>8. fs' = r.fs /\ ret' = r.ret
    BY <1>3, <1>6, <1>7 DEF Calls
  <1>9. CASE Accepted(r)
    <2>1. depth' = d + 1 /\ UNCHANGED <<pc, disk, offset>>
      BY <1>3, <1>6, <1>7, <1>9
    <2>2. /\ es \in Seq(Entry) /\ c \in 1 .. Len(es) /\ name \in Seq(Components) /\ name = Stripped(es[c])
          /\ d \in 1 .. Len(name) /\ UnpackedTo(es, t, c, d)
      BY <1>2, <1>3 DEF InName
    <2>3. Inv(t) /\ d < Len(name)
      BY <1>1, <1>3, <1>5 DEF EnsureParent
    <2>4. UnpackedTo(es, r.fs, c, d + 1)
      BY <2>2, <2>3, <1>4, <1>7, <1>9, ParentAdds
    <2>5. Position(c)'
      <3>1. /\ disk'.entries = es /\ c <= Len(es) /\ Creates(es[c]) /\ es[c].filesize = Len(es[c].data)
            /\ c \in 1 .. Len(es) + 1 /\ offset' = EntryAt(es, c)
        BY <2>1, <2>2, <1>2 DEF InName, AtEntry
      <3>2. depth' \in 1 .. Len(Stripped(es[c]))
        BY <2>1, <2>2, <2>3
      <3>3. pc' = "parents" /\ UnpackedTo(es, fs', c, depth')
        BY <2>1, <2>4, <1>1, <1>8
      <3> QED BY <3>1, <3>2, <3>3 DEF Position, AtEntry
    <2>6. Told' /\ pc' = "parents"
      BY <2>1, <1>1, SameDisk
    <2> QED BY <2>5, <2>6 DEF Goes
  <1>10. CASE ~Accepted(r)
    <2>1. pc' = "panic" /\ disk' = disk
      BY <1>3, <1>6, <1>7, <1>10 DEF InitFsPanics
    <2>2. path = SubSeq(name, 1, depth)
      BY <1>3, <1>4
    <2> QED BY <2>1, <2>2, <1>2, <1>3, <1>7, <1>8, <1>10, RefusalGoes
  <1> QED BY <1>9, <1>10

\* The entry itself: its whole name is in the tree.
LEMMA CreateEntryGoes ==
    ASSUME ArchiveInv, CreateEntry
    PROVE  Goes
  <1>1. InitramfsTypeOK /\ Told /\ pc = "parents" /\ Inv(fs) /\ DataOK
    BY DEF CreateEntry, ArchiveInv, InitramfsInv, Kept, Parsed
  <1>2. PICK c, es, name : InName(c, es, name)
    BY <1>1, NameBeingMade
  <1>3. PICK t : t = fs
    OBVIOUS
  <1>4. PICK isDir, data : /\ isDir = (es[c].type = "directory")
                           /\ data = IF isDir THEN <<>> ELSE es[c].data
    OBVIOUS
  <1>5. Current = es[c] /\ Stripped(Current) = name
    BY <1>2 DEF InName
  <1>6. PICK m \in 0 .. PLENTY :
          /\ Calls("create_file", name, data, isDir, create_file(fs, name, m, data, isDir))
          /\ \/ Accepted(create_file(fs, name, m, data, isDir)) /\ Advance
             \/ ~Accepted(create_file(fs, name, m, data, isDir)) /\ InitFsPanics
    BY <1>4, <1>5 DEF CreateEntry
  <1>7. PICK r : r = create_file(t, name, m, data, isDir)
    OBVIOUS
  <1>8. fs' = r.fs /\ ret' = r.ret
    BY <1>3, <1>6, <1>7 DEF Calls
  <1>9. /\ es \in Seq(Entry) /\ c \in 1 .. Len(es) /\ name \in Seq(Components) /\ name = Stripped(es[c])
        /\ name # <<>> /\ Creates(es[c]) /\ UnpackedTo(es, t, c, Len(name)) /\ depth = Len(name)
    <2>1. depth = Len(name)
      BY <1>5 DEF CreateEntry
    <2> QED BY <2>1, <1>2, <1>3 DEF InName
  <1>10. CASE Accepted(r)
    <2>1. Advance
      BY <1>3, <1>6, <1>7, <1>10
    <2>2. data \in Seq(Nat)
      <3>1. es[c] \in Entry
        <4> HIDE DEF Entry
        <4> QED BY <1>9
      <3>2. es[c].data \in Seq(Nat) /\ <<>> \in Seq(Nat)
        BY <3>1 DEF Entry
      <3> QED BY <3>2, <1>4
    <2>3. UnpackedTo(es, r.fs, c + 1, 0)
      <3>1. Inv(t)
        BY <1>1, <1>3
      <3> QED BY <3>1, <2>2, <1>4, <1>7, <1>9, <1>10, EntryAdds
    <2>4. /\ UnpackedTo(es, fs', c + 1, 0) /\ c \in 1 .. Len(disk.entries) /\ AtEntry(c) /\ es = disk.entries
          /\ \A j \in 1 .. c - 1 : ~disk.entries[j].trailer
      BY <2>3, <1>2, <1>8 DEF InName
    <2> QED BY <2>1, <2>4, <1>1, AdvanceGoes
  <1>11. CASE ~Accepted(r)
    <2>1. pc' = "panic" /\ disk' = disk
      BY <1>3, <1>6, <1>7, <1>11 DEF InitFsPanics
    <2>2. name = SubSeq(name, 1, depth)
      BY <1>9, WholeName
    <2> QED BY <2>1, <2>2, <1>2, <1>3, <1>7, <1>8, <1>11, RefusalGoes
  <1> QED BY <1>10, <1>11

\* No file's name ends in a slash in a sound archive.
LEMMA CreateSlashedGoes ==
    ASSUME ArchiveInv, CreateSlashed
    PROVE  Goes
  <1>1. Told /\ pc = "parents" /\ pc' = "panic" /\ disk' = disk /\ SlashedFile(Current)
    BY DEF CreateSlashed, ArchiveInv, InitFsPanics
  <1>2. PICK c, es, name : InName(c, es, name)
    BY <1>1, NameBeingMade
  <1>3. c \in 1 .. Len(disk.entries) /\ SlashedFile(disk.entries[c])
    BY <1>1, <1>2 DEF InName
  <1>4. ~Sound
    BY <1>3 DEF Sound
  <1> QED BY <1>1, <1>4, SameDisk DEF Goes

\* Every step of the parser leaves it at an entry with everything before it
\* unpacked, or has a reason to panic.
LEMMA ArchiveGoes ==
    ASSUME ArchiveInv, [InitramfsNext]_allvars
    PROVE  ArchiveInv'
  <1>1. InitramfsInv'
    BY RamdiskKeeps DEF ArchiveInv, RamdiskStep
  <1> SUFFICES Goes
    BY <1>1 DEF Goes, ArchiveInv
  <1>2. CASE BadHeader \/ BadEntry \/ GoodEntry
    BY <1>2, HeaderGoes
  <1>3. CASE EnsureParent
    BY <1>3, EnsureParentGoes
  <1>4. CASE CreateEntry
    BY <1>4, CreateEntryGoes
  <1>5. CASE CreateSlashed
    BY <1>5, CreateSlashedGoes
  <1>6. CASE \/ Use(CreateFile) \/ Use(CreateFolder) \/ Use(DeleteFile)
             \/ Use(WriteFile) \/ Use(CreateFileForce)
    <2>1. pc' = "running" /\ disk' = NoDisk
      BY <1>6 DEF Use
    <2>2. Told'
      <3>1. DOMAIN disk'.entries = {}
        BY <2>1 DEF NoDisk
      <3> QED BY <3>1 DEF Told
    <2> QED BY <2>1, <2>2 DEF Goes
  <1>7. CASE UNCHANGED allvars
    <2>1. UNCHANGED <<fs, ret, pc, disk, offset, depth>>
      BY <1>7 DEF allvars, ivars, vars
    <2>2. \A c : Position(c) => Position(c)'
      BY <2>1 DEF Position, AtEntry
    <2> QED BY <2>1, <2>2, SameDisk DEF ArchiveInv, Goes
  <1> QED BY <1>2, <1>3, <1>4, <1>5, <1>6, <1>7 DEF InitramfsNext, Unpacking, Panicked

\* At first the parser is at the first entry and the tree holds the root only.
LEMMA ArchiveBegins ==
    ASSUME InitramfsInit
    PROVE  ArchiveInv
  <1>1. InitramfsInv
    BY RamdiskBegins
  <1>2. PICK archive \in Archives, cut \in Cuts : disk = DiskOf(archive, cut)
    BY DEF InitramfsInit
  <1>3. disk.entries = archive /\ disk.size = DiskOf(archive, cut).size /\ archive \in Seq(Entry)
    BY <1>2, InitramfsAssumption DEF DiskOf
  <1>4. Told
    BY <1>3, ClaimsAssumption DEF Told
  <1>5. AtEntry(1)
    <2>1. EntryAt(archive, 1) = 0 /\ 1 \in 1 .. Len(archive) + 1
      BY <1>3, EntrySteps
    <2> QED BY <2>1, <1>3 DEF AtEntry, InitramfsInit
  <1>6. UnpackedTo(archive, fs, 1, 0)
    <2>1. 1 .. 1 - 1 = {} /\ 1 .. 0 - 1 = {}
      OBVIOUS
    <2>2. MadeBefore(archive, 1) = {}
      BY <2>1 DEF MadeBefore
    <2>3. PathsTo(archive, 1, 0) = {}
      BY <2>1, <2>2 DEF PathsTo, PathsBefore, Beginnings
    <2>4. FilesOf(fs) = {}
      BY DEF InitramfsInit, Init, FilesOf
    <2> QED BY <2>1, <2>2, <2>3, <2>4 DEF UnpackedTo, Holds, KindsKept, FilesListed
  <1>7. Position(1) /\ pc = "header"
    BY <1>3, <1>5, <1>6 DEF Position, InitramfsInit
  <1> QED BY <1>1, <1>4, <1>7 DEF ArchiveInv

\* When the ramdisk is mounted everything is unpacked.
LEMMA MountedUnpacked ==
    ASSUME ArchiveInv, pc = "mounted"
    PROVE  /\ \A i \in Listed :
                /\ parse_path(fs, PathOf(i)).status = "FS_SUCCESS"
                /\ (\A j \in Listed : j < i => ~Below(PathOf(j), PathOf(i))) =>
                     /\ fs.node[parse_path(fs, PathOf(i)).file].dir = (disk.entries[i].type = "directory")
                     /\ disk.entries[i].type # "directory" =>
                          fs.node[parse_path(fs, PathOf(i)).file].data = disk.entries[i].data
           /\ \A f \in Files : \E i \in Listed : \E k \in DOMAIN PathOf(i) :
                parse_path(fs, SubSeq(PathOf(i), 1, k)).file = f
  <1>1. PICK es \in Seq(Entry) : es = disk.entries /\ DOMAIN es = 1 .. Len(es)
    BY DEF ArchiveInv, InitramfsInv, InitramfsTypeOK
  <1>2. PICK c : Position(c)
    BY DEF ArchiveInv
  <1>3. c \in 1 .. Len(es) + 1 /\ c <= Len(es) /\ es[c].trailer /\ UnpackedTo(es, fs, c, 0)
    BY <1>1, <1>2 DEF Position, AtEntry
  <1>4. c \in 1 .. Len(es) /\ c \in Nat \ {0}
    BY <1>3
  <1>5. Listed = MadeBefore(es, c)
    <2>1. ASSUME NEW i \in Listed PROVE i \in MadeBefore(es, c)
      <3>1. i \in 1 .. Len(es) /\ Creates(es[i]) /\ \A j \in 1 .. i : ~es[j].trailer
        BY <1>1 DEF Listed
      <3>2. c \notin 1 .. i
        BY <3>1, <1>3
      <3>3. i \in 1 .. c - 1
        BY <3>1, <3>2, <1>4
      <3> QED BY <3>1, <3>3 DEF MadeBefore
    <2>2. ASSUME NEW i \in MadeBefore(es, c) PROVE i \in Listed
      <3>1. i \in 1 .. c - 1 /\ Creates(es[i])
        BY DEF MadeBefore
      <3>2. i \in 1 .. Len(es) /\ \A j \in 1 .. i : j \in 1 .. c - 1
        BY <3>1, <1>4
      <3> QED BY <3>1, <3>2, <1>1, <1>3 DEF Listed, UnpackedTo
    <2> QED BY <2>1, <2>2
  <1>6. Holds(fs, PathsTo(es, c, 0)) /\ KindsKept(es, fs, c)
    BY <1>3 DEF UnpackedTo
  <1>7. ASSUME NEW i \in MadeBefore(es, c)
        PROVE  Stripped(es[i]) \in PathsTo(es, c, 0) /\ DOMAIN Stripped(es[i]) = 1 .. Len(Stripped(es[i]))
    <2>1. Stripped(es[i]) \in PathsTo(es, c, 0) /\ Stripped(es[i]) \in Seq(Components)
      BY <1>3, OwnPath
    <2> QED BY <2>1
  <1>8. \A i : PathOf(i) = Stripped(es[i])
    BY <1>1 DEF PathOf
  <1>9. ASSUME NEW i \in Listed
        PROVE  /\ parse_path(fs, PathOf(i)).status = "FS_SUCCESS"
               /\ (\A j \in Listed : j < i => ~Below(PathOf(j), PathOf(i))) =>
                     /\ fs.node[parse_path(fs, PathOf(i)).file].dir = (disk.entries[i].type = "directory")
                     /\ disk.entries[i].type # "directory" =>
                          fs.node[parse_path(fs, PathOf(i)).file].data = disk.entries[i].data
    BY <1>1, <1>5, <1>6, <1>7, <1>8 DEF Holds, KindsKept, Found
  <1>10. ASSUME NEW f \in Files
         PROVE  \E i \in Listed : \E k \in DOMAIN PathOf(i) : parse_path(fs, SubSeq(PathOf(i), 1, k)).file = f
    <2>1. PICK p \in PathsTo(es, c, 0) : parse_path(fs, p) = At("FS_SUCCESS", f)
      BY <1>6 DEF Holds, Files
    <2>2. p \in PathsBefore(es, c)
      <3>1. 1 .. 0 - 1 = {}
        OBVIOUS
      <3> QED BY <3>1, <2>1 DEF PathsTo, Beginnings
    <2>3. PICK i \in MadeBefore(es, c) : p \in Beginnings(Stripped(es[i]), Len(Stripped(es[i])))
      BY <2>2 DEF PathsBefore
    <2>4. PICK k \in 1 .. Len(Stripped(es[i])) : p = SubSeq(Stripped(es[i]), 1, k)
      BY <2>3 DEF Beginnings
    <2>5. parse_path(fs, p).file = f
      BY <2>1 DEF At
    <2> QED BY <2>3, <2>4, <2>5, <1>5, <1>7, <1>8
  <1> QED BY <1>9, <1>10

\* For every archive and wherever memory runs out: once parse_cpio_disk has
\* returned, every entry before the trailer is in the file system under its
\* name, with its own kind and content unless an earlier entry had made that
\* path, and nothing else is there; and it gives up on a sound archive only when
\* kmalloc fails.
THEOREM ArchiveAlwaysUnpacked == InitramfsSpec => []ArchiveUnpacked
  <1>1. InitramfsInit => ArchiveInv
    BY ArchiveBegins
  <1>2. ArchiveInv /\ [InitramfsNext]_allvars => ArchiveInv'
    BY ArchiveGoes
  <1>3. ArchiveInv => ArchiveUnpacked
    <2> SUFFICES ASSUME ArchiveInv PROVE ArchiveUnpacked
      OBVIOUS
    <2>1. pc = "panic" => ~Sound \/ ret = "FS_FAIL"
      BY DEF ArchiveInv
    <2> QED BY <2>1, MountedUnpacked DEF ArchiveUnpacked
  <1> QED BY <1>1, <1>2, <1>3, PTL DEF InitramfsSpec

=============================================================================

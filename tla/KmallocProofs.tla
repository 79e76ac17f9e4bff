--------------------------- MODULE KmallocProofs ---------------------------
(***************************************************************************)
(* Proofs about Kmalloc, for every heap size, page size and request size.  *)
(***************************************************************************)
EXTENDS Kmalloc, FiniteSetTheorems, WellFoundedInduction, TLAPS

-----------------------------------------------------------------------------
(* Numbers.                                                                *)

\* Every non-empty set of numbers has a least one.
LEMMA LeastNumber ==
    ASSUME NEW T, T \subseteq Nat, T # {}
    PROVE  \E x \in T : \A y \in T : x <= y
  <1>1. PICK x \in T : \A y \in T : ~ (<<y, x>> \in OpToRel(<, Nat))
    BY NatLessThanWellFounded, WFMin
  <1>2. \A y \in T : ~ (y < x)
    BY <1>1 DEF OpToRel
  <1> QED BY <1>2

\* Rounding up never loses words.
LEMMA AlignUpCovers ==
    ASSUME NEW n \in Nat, NEW d \in Nat \ {0}
    PROVE  align_up(n, d) \in Nat /\ n <= align_up(n, d)
  <1>1. n + d - 1 \in Nat
    OBVIOUS
  <1>2. /\ (n + d - 1) \div d \in Nat
        /\ n + d - 1 < d * ((n + d - 1) \div d) + d
    BY <1>1
  <1>3. ((n + d - 1) \div d) * d = d * ((n + d - 1) \div d)
    BY <1>2
  <1> QED BY <1>2, <1>3 DEF align_up

\* A chunk for a block has its header and all the words asked for.
LEMMA RequiredCovers ==
    ASSUME NEW size \in Nat \ {0}
    PROVE  Required(size) \in Nat /\ Required(size) >= size + HEADER
  BY AlignUpCovers DEF Required, ALIGNMENT, HEADER

\* kmalloc_grow asks for enough pages for the chunk.
LEMMA GrowCovers ==
    ASSUME NEW size \in Nat \ {0}
    PROVE  GrowWords(size) \in Nat /\ GrowWords(size) >= Required(size)
  <1> DEFINE wanted == IF Required(size) < GROW_MIN THEN GROW_MIN ELSE Required(size)
  <1>1. wanted \in Nat /\ wanted >= Required(size)
    BY RequiredCovers, KmallocAssumption
  <1>2. align_up(wanted, PAGE) \in Nat /\ wanted <= align_up(wanted, PAGE)
    BY <1>1, AlignUpCovers, KmallocAssumption
  <1> QED BY <1>1, <1>2, RequiredCovers DEF GrowWords

-----------------------------------------------------------------------------
(* The chunk list.                                                         *)

\* S is the set of chunks of a heap m that ends at e: a doubly linked list
\* whose chunks tile the words from BASE to e, and no word elsewhere looks like
\* the state of a used chunk.
ChunkOK(m, S, e, c) ==
    /\ state(m, c) \in {FREE, USED}
    /\ length(m, c) >= HEADER /\ c + length(m, c) <= e
    /\ next(m, c) = IF c + length(m, c) = e THEN NULL ELSE c + length(m, c)
    /\ next(m, c) # NULL => next(m, c) \in S /\ prev(m, next(m, c)) = c
    /\ IF c = BASE THEN prev(m, c) = NULL
       ELSE prev(m, c) \in S /\ prev(m, c) + length(m, prev(m, c)) = c

Linked(m, S, e) ==
    /\ e \in Nat /\ DOMAIN m = BASE .. (e - 1) /\ m \in [DOMAIN m -> Int]
    /\ BASE \in S /\ S \subseteq BASE .. (e - HEADER)
    /\ \A c \in S : ChunkOK(m, S, e, c)
    /\ \A w \in DOMAIN m : m[w] = USED => w \in S

\* What ChunkOK says in terms of words.
LEMMA LinkedWords ==
    ASSUME NEW m, NEW S, NEW e, Linked(m, S, e), NEW c \in S
    PROVE  /\ BASE \in Nat \ {0} /\ e \in Nat /\ c \in Nat /\ c >= BASE /\ c + 4 <= e
           /\ m[c] \in {FREE, USED} /\ m[c + 1] \in Nat /\ m[c + 1] >= 4
           /\ c + m[c + 1] <= e
           /\ m[c + 2] \in Nat /\ m[c + 3] \in Nat
           /\ c + m[c + 1] = e => m[c + 2] = 0
           /\ c + m[c + 1] # e => m[c + 2] = c + m[c + 1] /\ m[c + 2] \in S /\ m[m[c + 2] + 3] = c
           /\ c = BASE => m[c + 3] = 0
           /\ c # BASE => m[c + 3] \in S /\ m[c + 3] + m[m[c + 3] + 1] = c
  <1>1. ChunkOK(m, S, e, c) /\ c \in BASE .. (e - 4) /\ e \in Nat /\ BASE \in Nat \ {0}
    BY KmallocAssumption DEF Linked, HEADER
  <1>2. /\ {c, c + 1, c + 2, c + 3} \subseteq DOMAIN m
        /\ m[c] \in Int /\ m[c + 1] \in Int /\ m[c + 2] \in Int /\ m[c + 3] \in Int
    BY <1>1 DEF Linked
  <1>3. /\ m[c] \in {FREE, USED} /\ m[c + 1] >= 4 /\ c + m[c + 1] <= e
        /\ m[c + 2] = IF c + m[c + 1] = e THEN 0 ELSE c + m[c + 1]
        /\ m[c + 2] # 0 => m[c + 2] \in S /\ m[m[c + 2] + 3] = c
        /\ c = BASE => m[c + 3] = 0
        /\ c # BASE => m[c + 3] \in S /\ m[c + 3] + m[m[c + 3] + 1] = c
    BY <1>1 DEF ChunkOK, state, length, next, prev, HEADER, NULL
  <1>4. S \subseteq Nat
    BY <1>1 DEF Linked
  <1> QED BY <1>1, <1>2, <1>3, <1>4

\* Chunks do not overlap.
LEMMA Apart ==
    ASSUME NEW m, NEW S, NEW e, Linked(m, S, e),
           NEW c \in S, NEW d \in S, c < d
    PROVE  c + m[c + 1] <= d
  <1> DEFINE T == {x \in S : \E y \in S : y < x /\ x < y + m[y + 1]}
  <1>1. T \subseteq Nat
    BY LinkedWords
  <1>2. SUFFICES ASSUME ~(c + m[c + 1] <= d) PROVE FALSE
    OBVIOUS
  <1>3. T # {}
    <2>1. c \in Nat /\ d \in Nat /\ m[c + 1] \in Nat
      BY LinkedWords
    <2>2. d < c + m[c + 1]
      BY <1>2, <2>1
    <2> QED BY <2>2
  <1> HIDE DEF T
  <1>4. PICK x \in T : \A y \in T : x <= y
    BY <1>1, <1>3, LeastNumber
  <1> USE DEF T
  <1>5. PICK y \in S : y < x /\ x < y + m[y + 1]
    BY <1>4
  <1>6. x \in S /\ x # BASE /\ x \in Nat /\ y \in Nat /\ m[y + 1] \in Nat
    <2>1. x \in S
      BY <1>4
    <2>2. BASE \in Nat /\ y \in Nat /\ y >= BASE /\ m[y + 1] \in Nat
      BY LinkedWords
    <2>3. x \in Nat
      BY <2>1, LinkedWords
    <2> QED BY <2>1, <2>2, <2>3, <1>5
  <1>7. PICK p \in S : p + m[p + 1] = x /\ p \in Nat /\ m[p + 1] \in Nat /\ m[p + 1] >= 4
    <2>1. m[x + 3] \in S /\ m[x + 3] + m[m[x + 3] + 1] = x
      BY <1>6, LinkedWords
    <2>2. PICK p \in S : p = m[x + 3]
      BY <2>1
    <2>3. p \in Nat /\ m[p + 1] \in Nat /\ m[p + 1] >= 4
      BY LinkedWords
    <2> QED BY <2>1, <2>2, <2>3
  <1>8. CASE y < p
    <2>1. p \in T
      BY <1>5, <1>6, <1>7, <1>8
    <2> QED BY <2>1, <1>4, <1>7, <1>6
  <1>9. CASE p < y
    <2>1. y \in T
      BY <1>5, <1>6, <1>7, <1>9
    <2> QED BY <2>1, <1>4, <1>5, <1>6
  <1>10. CASE y = p
    BY <1>10, <1>5, <1>7
  <1> QED BY <1>6, <1>7, <1>8, <1>9, <1>10

\* The walk's next chunk.
Step(m, c) == IF c = NULL THEN NULL ELSE next(m, c)

\* There is a function that lists the chunks: the definition of NthChunk has a
\* solution.
LEMMA WalkExists ==
    ASSUME NEW m, NEW S, NEW e, Linked(m, S, e), NEW N \in Nat
    PROVE  \E g \in [0 .. N -> S \cup {NULL}] :
              g[0] = BASE /\ \A n \in 1 .. N : g[n] = Step(m, g[n - 1])
  <1> DEFINE Walk(k) == \E g \in [0 .. k -> S \cup {NULL}] :
                           g[0] = BASE /\ \A n \in 1 .. k : g[n] = Step(m, g[n - 1])
             Bad == {k \in Nat : ~Walk(k)}
  <1>1. Walk(0)
    <2>1. BASE \in S
      BY DEF Linked
    <2> DEFINE g == [i \in 0 .. 0 |-> BASE]
    <2>2. g \in [0 .. 0 -> S \cup {NULL}]
      BY <2>1
    <2>3. g[0] = BASE /\ \A n \in 1 .. 0 : g[n] = Step(m, g[n - 1])
      OBVIOUS
    <2> QED BY <2>2, <2>3
  <1>2. ASSUME NEW k \in Nat \ {0}, Walk(k - 1)
        PROVE  Walk(k)
    <2>1. PICK g \in [0 .. (k - 1) -> S \cup {NULL}] :
             g[0] = BASE /\ \A n \in 1 .. (k - 1) : g[n] = Step(m, g[n - 1])
      BY <1>2
    <2> DEFINE h == [i \in 0 .. k |-> IF i < k THEN g[i] ELSE Step(m, g[k - 1])]
    <2>2. ASSUME NEW c \in S \cup {NULL} PROVE Step(m, c) \in S \cup {NULL}
      <3>1. CASE c = NULL
        BY <3>1 DEF Step
      <3>2. CASE c \in S
        BY <3>2, LinkedWords DEF Step, next, NULL
      <3> QED BY <3>1, <3>2
    <2>3. h \in [0 .. k -> S \cup {NULL}]
      BY <2>2
    <2>4. h[0] = BASE
      BY <2>1
    <2>5. ASSUME NEW n \in 1 .. k PROVE h[n] = Step(m, h[n - 1])
      BY <2>1
    <2> HIDE DEF h
    <2> QED BY <2>3, <2>4, <2>5
  <1> HIDE DEF Walk
  <1>3. Bad = {}
    <2> SUFFICES ASSUME Bad # {} PROVE FALSE
      OBVIOUS
    <2>1. PICK k \in Bad : \A j \in Bad : k <= j
      BY LeastNumber
    <2>2. k \in Nat \ {0} /\ k - 1 \in Nat /\ k - 1 \notin Bad
      BY <2>1, <1>1
    <2> QED BY <2>1, <2>2, <1>2
  <1>4. Walk(N)
    BY <1>3
  <1> QED BY <1>4 DEF Walk

\* The list has room for a chunk per HEADER words.
LEMMA RoomFits ==
    ASSUME NEW m, NEW S, NEW e, Linked(m, S, e)
    PROVE  Room(m) \in Nat /\ e - BASE < 4 * Room(m) + 4
  <1>1. BASE \in Nat /\ e \in Nat /\ BASE <= e - 1 /\ DOMAIN m = BASE .. (e - 1)
    BY KmallocAssumption DEF Linked, HEADER
  <1>2. Cardinality(DOMAIN m) = e - BASE
    <2>1. Cardinality(BASE .. (e - 1)) = IF BASE > e - 1 THEN 0 ELSE (e - 1) - BASE + 1
      BY <1>1, FS_Interval
    <2> QED BY <2>1, <1>1
  <1> QED BY <1>1, <1>2 DEF Room, HEADER

\* NthChunk walks from BASE along the next pointers.
LEMMA WalkSteps ==
    ASSUME NEW m, NEW S, NEW e, Linked(m, S, e)
    PROVE  /\ NthChunk(m, BASE)[0] = BASE
           /\ \A n \in 1 .. Room(m) : NthChunk(m, BASE)[n] = Step(m, NthChunk(m, BASE)[n - 1])
  <1> DEFINE Rec(f) == [n \in 0 .. Room(m) |->
                           IF n = 0 THEN BASE
                           ELSE IF f[n - 1] = NULL THEN NULL ELSE next(m, f[n - 1])]
  <1>1. Room(m) \in Nat
    BY RoomFits
  <1>2. PICK g \in [0 .. Room(m) -> S \cup {NULL}] :
           g[0] = BASE /\ \A n \in 1 .. Room(m) : g[n] = Step(m, g[n - 1])
    BY <1>1, WalkExists
  <1>3. g = Rec(g)
    BY <1>1, <1>2 DEF Step
  <1>4. NthChunk(m, BASE) = CHOOSE f : f = Rec(f)
    BY DEF NthChunk
  <1>5. NthChunk(m, BASE) = Rec(NthChunk(m, BASE))
    <2> HIDE DEF Rec
    <2> QED BY <1>3, <1>4
  <1>6. PICK f : f = NthChunk(m, BASE)
    OBVIOUS
  <1>7. f = Rec(f)
    BY <1>5, <1>6
  <1>8. f[0] = BASE /\ \A n \in 1 .. Room(m) : f[n] = Step(m, f[n - 1])
    BY <1>7, <1>1 DEF Step
  <1> QED BY <1>6, <1>8

\* The list that kmalloc walks is the set of chunks.
LEMMA ListIsChunks ==
    ASSUME NEW m, NEW S, NEW e, Linked(m, S, e)
    PROVE  ChunkList(m, BASE) = S
  <1>1. PICK f, N : f = NthChunk(m, BASE) /\ N = Room(m)
    OBVIOUS
  <1>2. /\ N \in Nat /\ e - BASE < 4 * N + 4 /\ BASE \in Nat \ {0} /\ e \in Nat /\ BASE \in S
        /\ S \subseteq Nat /\ NULL \notin S
    <2>1. Room(m) \in Nat /\ e - BASE < 4 * Room(m) + 4
      BY RoomFits
    <2>2. BASE \in Nat \ {0} /\ e \in Nat /\ BASE \in S /\ S \subseteq BASE .. (e - 4)
      BY KmallocAssumption DEF Linked, HEADER
    <2>3. S \subseteq Nat /\ NULL \notin S
      BY <2>2 DEF NULL
    <2> QED BY <1>1, <2>1, <2>2, <2>3
  <1>3. f[0] = BASE /\ \A n \in 1 .. N : f[n] = Step(m, f[n - 1])
    BY <1>1, WalkSteps
  <1> DEFINE Reached(n) == f[n] \in S \cup {NULL} /\ (f[n] \in S => f[n] >= BASE + 4 * n)
             Off == {n \in 0 .. N : ~Reached(n)}
  <1>4. \A n \in 0 .. N : Reached(n)
    <2>1. Reached(0)
      BY <1>2, <1>3
    <2>2. ASSUME NEW n \in 1 .. N, Reached(n - 1)
          PROVE  Reached(n)
      <3>1. f[n] = Step(m, f[n - 1]) /\ n \in Nat /\ n - 1 \in Nat
        BY <1>2, <1>3
      <3>2. CASE f[n - 1] = NULL
        BY <3>1, <3>2, <1>2 DEF Step
      <3>3. CASE f[n - 1] \in S
        <4>1. PICK c \in S : c = f[n - 1] /\ c >= BASE + 4 * (n - 1)
          BY <3>3, <2>2
        <4>2. f[n] = m[c + 2]
          BY <3>1, <4>1, <1>2 DEF Step, next
        <4>3. /\ c \in Nat /\ m[c + 1] \in Nat /\ m[c + 1] >= 4
              /\ m[c + 2] = 0 \/ (m[c + 2] \in S /\ m[c + 2] = c + m[c + 1])
          BY LinkedWords
        <4>4. CASE m[c + 2] = 0
          BY <4>2, <4>4, <1>2 DEF NULL
        <4>5. CASE m[c + 2] \in S /\ m[c + 2] = c + m[c + 1]
          BY <4>1, <4>2, <4>3, <4>5, <3>1, <1>2
        <4> QED BY <4>3, <4>4, <4>5
      <3> QED BY <2>2, <3>2, <3>3
    <2> HIDE DEF Reached
    <2>3. Off = {}
      <3> SUFFICES ASSUME Off # {} PROVE FALSE
        OBVIOUS
      <3> HIDE DEF Off
      <3>4. Off \subseteq Nat
        BY <1>2 DEF Off
      <3>1. PICK n \in Off : \A k \in Off : n <= k
        BY <3>4, LeastNumber
      <3> USE DEF Off
      <3>2. n \in 1 .. N /\ n - 1 \in 0 .. N /\ n - 1 \notin Off
        BY <3>1, <2>1, <1>2
      <3> QED BY <3>1, <3>2, <2>2
    <2> QED BY <2>3
  <1> DEFINE Missed == {c \in S : ~\E n \in 0 .. N : f[n] = c}
  <1>5. Missed = {}
    <2> SUFFICES ASSUME Missed # {} PROVE FALSE
      OBVIOUS
    <2>1. PICK c \in Missed : \A d \in Missed : c <= d
      BY LeastNumber, <1>2
    <2>2. c \in S /\ c # BASE /\ c \in Nat
      BY <2>1, <1>2, <1>3
    <2>3. m[c + 3] \in S /\ m[c + 3] + m[m[c + 3] + 1] = c /\ c + 4 <= e
      BY <2>2, LinkedWords
    <2>4. PICK p \in S : p + m[p + 1] = c
      BY <2>3
    <2>5. p \in Nat /\ m[p + 1] \in Nat /\ m[p + 1] >= 4 /\ (p + m[p + 1] # e => m[p + 2] = p + m[p + 1])
      BY LinkedWords
    <2>6. p \notin Missed
      BY <2>1, <2>2, <2>4, <2>5
    <2>7. PICK n \in 0 .. N : f[n] = p
      BY <2>6
    <2>8. n \in Nat /\ p >= BASE + 4 * n
      BY <2>7, <1>4, <1>2
    <2>9. n + 1 \in 1 .. N
      BY <2>8, <2>5, <2>4, <2>3, <2>2, <1>2
    <2>10. f[n + 1] = m[p + 2]
      <3>1. f[n + 1] = Step(m, f[(n + 1) - 1])
        BY <2>9, <1>3
      <3>2. (n + 1) - 1 = n
        BY <2>8
      <3> QED BY <3>1, <3>2, <2>7, <1>2 DEF Step, next
    <2>11. f[n + 1] = c
      BY <2>10, <2>5, <2>4, <2>3, <2>2, <1>2
    <2> QED BY <2>11, <2>9, <2>1, <1>2
  <1>6. ChunkList(m, BASE) = {f[n] : n \in 0 .. N} \ {NULL}
    BY <1>1 DEF ChunkList
  <1> HIDE DEF Missed
  <1>7. ASSUME NEW x \in ChunkList(m, BASE) PROVE x \in S
    BY <1>4, <1>6
  <1>8. ASSUME NEW x \in S PROVE x \in ChunkList(m, BASE)
    <2>1. \E n \in 0 .. N : f[n] = x
      BY <1>5 DEF Missed
    <2> QED BY <2>1, <1>2, <1>6
  <1> QED BY <1>7, <1>8

-----------------------------------------------------------------------------
(* What each change of the headers does to the list.                       *)

\* Writing a word changes that word.
LEMMA PutWord ==
    ASSUME NEW D, NEW m \in [D -> Int], NEW w \in D, NEW v \in Int
    PROVE  /\ [m EXCEPT ![w] = v] \in [D -> Int]
           /\ [m EXCEPT ![w] = v][w] = v
           /\ \A u \in D : u # w => [m EXCEPT ![w] = v][u] = m[u]
  OBVIOUS

\* The words of one chunk, as LinkedWords gives them.
WordsOK(m, S, e, c) ==
    /\ m[c] \in {FREE, USED} /\ m[c + 1] >= 4 /\ c + m[c + 1] <= e
    /\ c + m[c + 1] = e => m[c + 2] = 0
    /\ c + m[c + 1] # e => m[c + 2] = c + m[c + 1] /\ m[c + 2] \in S /\ m[m[c + 2] + 3] = c
    /\ c = BASE => m[c + 3] = 0
    /\ c # BASE => m[c + 3] \in S /\ m[c + 3] + m[m[c + 3] + 1] = c

\* Words that look like a list are one.
LEMMA LinkedIntro ==
    ASSUME NEW S, NEW e \in Nat, NEW m \in [BASE .. (e - 1) -> Int],
           BASE \in S, S \subseteq BASE .. (e - 4),
           \A c \in S : WordsOK(m, S, e, c),
           \A w \in BASE .. (e - 1) : m[w] = USED => w \in S
    PROVE  Linked(m, S, e)
  <1>1. BASE \in Nat \ {0}
    BY KmallocAssumption
  <1>2. ASSUME NEW c \in S PROVE ChunkOK(m, S, e, c)
    <2>1. WordsOK(m, S, e, c) /\ c \in BASE .. (e - 4) /\ m[c + 1] \in Int
      BY <1>1
    <2> QED BY <2>1, <1>1 DEF WordsOK, ChunkOK, state, length, next, prev, NULL, HEADER
  <1> QED BY <1>2 DEF Linked, HEADER

\* Two headers share no word, and no header lies within another chunk.
LEMMA HeadersApart ==
    ASSUME NEW m, NEW S, NEW e, Linked(m, S, e), NEW c \in S, NEW d \in S, c # d
    PROVE  /\ c + m[c + 1] <= d \/ d + m[d + 1] <= c
           /\ c + 4 <= d \/ d + 4 <= c
  <1>1. c \in Nat /\ m[c + 1] \in Nat /\ m[c + 1] >= 4
    BY LinkedWords
  <1>2. d \in Nat /\ m[d + 1] \in Nat /\ m[d + 1] >= 4
    BY LinkedWords
  <1>3. CASE c < d
    BY <1>1, <1>2, <1>3, Apart
  <1>4. CASE d < c
    BY <1>1, <1>2, <1>4, Apart
  <1> QED BY <1>1, <1>2, <1>3, <1>4

\* What a change that leaves all headers of S alone leaves: kcalloc's clearing,
\* the writes of clients.
LEMMA OutsideHeaders ==
    ASSUME NEW m, NEW S, NEW e, Linked(m, S, e),
           NEW m1 \in [BASE .. (e - 1) -> Int],
           \A c \in S : /\ m1[c] = m[c] /\ m1[c + 1] = m[c + 1]
                        /\ m1[c + 2] = m[c + 2] /\ m1[c + 3] = m[c + 3],
           \A w \in BASE .. (e - 1) : m1[w] = USED => w \in S
    PROVE  Linked(m1, S, e)
  <1>1. BASE \in S /\ S \subseteq BASE .. (e - 4) /\ e \in Nat
    BY DEF Linked, HEADER
  <1>2. ASSUME NEW c \in S PROVE WordsOK(m1, S, e, c)
    <2>1. WordsOK(m, S, e, c)
      BY LinkedWords DEF WordsOK
    <2> QED BY <2>1 DEF WordsOK
  <1> QED BY <1>1, <1>2, LinkedIntro

\* m1 is m with chunk c in state s.
Marked(m, m1, c, s) == s \in {FREE, USED} /\ m1 = [m EXCEPT ![c] = s]

\* Marking a chunk free or used.
LEMMA MarkLinked ==
    ASSUME NEW m, NEW S, NEW e, Linked(m, S, e), NEW c \in S, NEW s,
           NEW m1, Marked(m, m1, c, s)
    PROVE  /\ Linked(m1, S, e)
           /\ m1[c] = s
           /\ \A d \in S : /\ d # c => m1[d] = m[d]
                           /\ m1[d + 1] = m[d + 1] /\ m1[d + 2] = m[d + 2] /\ m1[d + 3] = m[d + 3]
  <1>1. BASE \in S /\ S \subseteq BASE .. (e - 4) /\ e \in Nat /\ DOMAIN m = BASE .. (e - 1)
        /\ m \in [BASE .. (e - 1) -> Int] /\ BASE \in Nat \ {0}
    BY KmallocAssumption DEF Linked, HEADER
  <1>2. m1 \in [BASE .. (e - 1) -> Int] /\ m1[c] = s
    BY <1>1 DEF FREE, USED, Marked
  <1>3. ASSUME NEW d \in S
        PROVE  /\ d # c => m1[d] = m[d]
               /\ m1[d + 1] = m[d + 1] /\ m1[d + 2] = m[d + 2] /\ m1[d + 3] = m[d + 3]
    <2>1. c \in Nat /\ d \in Nat /\ d + 4 <= e /\ d >= BASE
      BY <1>1
    <2>2. c = d \/ c + 4 <= d \/ d + 4 <= c
      BY HeadersApart
    <2> QED BY <1>1, <2>1, <2>2 DEF Marked
  <1>4. ASSUME NEW d \in S PROVE WordsOK(m1, S, e, d)
    <2>1. WordsOK(m, S, e, d)
      BY LinkedWords DEF WordsOK
    <2>2. m1[d] \in {FREE, USED}
      BY <1>2, <1>3, <2>1 DEF WordsOK, Marked
    <2> QED BY <2>1, <2>2, <1>3 DEF WordsOK
  <1>5. \A w \in BASE .. (e - 1) : m1[w] = USED => w \in S
    BY <1>1 DEF Linked, Marked
  <1>6. Linked(m1, S, e)
    <2> QED BY <1>1, <1>2, <1>4, <1>5, LinkedIntro
  <1> QED BY <1>2, <1>3, <1>6

\* m1 is m with chunk b merged into chunk a before it.
Joined(m, m1, S, e, a, b) ==
    /\ Linked(m1, S \ {b}, e)
    /\ m1[a + 1] = m[a + 1] + m[b + 1] /\ m1[a + 2] = m[b + 2]
    /\ \A d \in S : m1[d] = m[d]
    /\ \A d \in S \ {a} : m1[d + 1] = m[d + 1] /\ m1[d + 2] = m[d + 2]

\* kmerge_next of two free neighbours joins them.
LEMMA MergeJoins ==
    ASSUME NEW m, NEW S, NEW e, Linked(m, S, e), NEW a \in S, NEW b \in S,
           b = next(m, a), state(m, a) = FREE, state(m, b) = FREE
    PROVE  /\ ~kmerge_next(m, a).faulted
           /\ Joined(m, kmerge_next(m, a).mem, S, e, a, b)
  <1>1. BASE \in S /\ S \subseteq BASE .. (e - 4) /\ e \in Nat /\ DOMAIN m = BASE .. (e - 1)
        /\ m \in [BASE .. (e - 1) -> Int] /\ BASE \in Nat \ {0}
    BY KmallocAssumption DEF Linked, HEADER
  <1>2. ASSUME NEW d \in S PROVE Readable(m, d) /\ d # NULL
    BY <1>1 DEF Readable, NULL
  <1>3. PICK x, y, n, after : x = m[a + 1] /\ y = m[b + 1] /\ n = m[b + 2] /\ after = n
    OBVIOUS
  <1>4. /\ a \in Nat /\ x \in Nat /\ x >= 4 /\ a + x <= e /\ m[a] = FREE /\ m[a + 2] = b
        /\ a >= BASE
    BY <1>3, LinkedWords DEF state, next
  <1>5. b \in Nat /\ y \in Nat /\ y >= 4 /\ b + y <= e /\ m[b] = FREE /\ n \in Nat
        /\ (b + y = e => n = 0) /\ (b + y # e => n = b + y /\ n \in S /\ m[n + 3] = b)
    BY <1>3, LinkedWords DEF state
  <1>6. b = a + x /\ m[b + 3] = a /\ b # BASE
    <2>1. /\ a + m[a + 1] = e => m[a + 2] = 0
          /\ a + m[a + 1] # e => m[a + 2] = a + m[a + 1] /\ m[m[a + 2] + 3] = a
      BY LinkedWords
    <2>2. b # 0
      BY <1>1
    <2> QED BY <2>1, <2>2, <1>3, <1>4, <1>1
  <1> DEFINE merged == [m EXCEPT ![a + 1] = @ + y, ![a + 2] = n]
             m1 == IF n = 0 THEN merged ELSE [merged EXCEPT ![n + 3] = a]
  <1>7. kmerge_next(m, a) = Ok(m1)
    <2>1. n # 0 => Readable(m, n)
      BY <1>2, <1>5
    <2> QED BY <2>1, <1>2, <1>3, <1>4, <1>5, <1>6
            DEF kmerge_next, state, next, length, Ok, NULL
  <1>8. /\ m1 \in [BASE .. (e - 1) -> Int]
        /\ m1[a + 1] = x + y /\ m1[a + 2] = n
        /\ n # 0 => m1[n + 3] = a
        /\ \A w \in BASE .. (e - 1) : w # a + 1 /\ w # a + 2 /\ (n = 0 \/ w # n + 3) => m1[w] = m[w]
    <2>1. a + 1 \in BASE .. (e - 1) /\ a + 2 \in BASE .. (e - 1)
      BY <1>1, <1>4, <1>6, <1>5
    <2>4. /\ merged \in [BASE .. (e - 1) -> Int]
          /\ merged[a + 1] = x + y /\ merged[a + 2] = n
          /\ \A w \in BASE .. (e - 1) : w # a + 1 /\ w # a + 2 => merged[w] = m[w]
      <3> DEFINE k == [m EXCEPT ![a + 1] = x + y]
      <3>1. merged = [k EXCEPT ![a + 2] = n]
        BY <1>3
      <3>2. /\ k \in [BASE .. (e - 1) -> Int] /\ k[a + 1] = x + y
            /\ \A w \in BASE .. (e - 1) : w # a + 1 => k[w] = m[w]
        BY <2>1, <1>1, <1>4, <1>5, PutWord
      <3> HIDE DEF k, merged
      <3>3. /\ merged \in [BASE .. (e - 1) -> Int] /\ merged[a + 2] = n
            /\ \A w \in BASE .. (e - 1) : w # a + 2 => merged[w] = k[w]
        <4>1. n \in Int /\ a + 2 \in BASE .. (e - 1)
          BY <2>1, <1>5
        <4> QED BY <4>1, <3>1, <3>2, PutWord
      <3>4. a + 1 # a + 2
        BY <1>4
      <3> QED BY <3>2, <3>3, <3>4, <2>1
    <2> HIDE DEF merged
    <2>2. CASE n = 0
      BY <2>4, <2>2
    <2>3. CASE n # 0
      <3>1. n \in S /\ n \in Nat /\ n + 3 \in BASE .. (e - 1) /\ n + 3 # a + 1 /\ n + 3 # a + 2
        <4>1. n \in S /\ n = a + x + y
          BY <2>3, <1>5, <1>6, <1>4
        <4> QED BY <4>1, <1>4, <1>5, <1>1
      <3>2. m1 = [merged EXCEPT ![n + 3] = a] /\ a \in Int
        BY <2>3, <1>4
      <3>3. /\ m1 \in [BASE .. (e - 1) -> Int] /\ m1[n + 3] = a
            /\ \A w \in BASE .. (e - 1) : w # n + 3 => m1[w] = merged[w]
        BY <3>1, <3>2, <2>4, PutWord
      <3> HIDE DEF m1
      <3> QED BY <3>1, <3>3, <2>1, <2>3, <2>4
    <2> QED BY <2>2, <2>3
  <1> HIDE DEF m1
  <1>9. ASSUME NEW d \in S
        PROVE  /\ m1[d] = m[d]
               /\ d # a => m1[d + 1] = m[d + 1] /\ m1[d + 2] = m[d + 2]
               /\ d # n => m1[d + 3] = m[d + 3]
    <2>1. d \in Nat /\ d >= BASE /\ d + 4 <= e /\ {d, d + 1, d + 2, d + 3} \subseteq BASE .. (e - 1)
      BY <1>1
    <2>2. d = a \/ d + 4 <= a \/ a + 4 <= d
      BY HeadersApart
    <2>3. n = 0 \/ d = n \/ d + 4 <= n \/ n + 4 <= d
      BY HeadersApart, <1>5
    <2> QED BY <1>8, <2>1, <2>2, <2>3, <1>4, <1>5, <1>6
  <1>10. ASSUME NEW d \in S \ {b} PROVE WordsOK(m1, S \ {b}, e, d)
    <2>1. WordsOK(m, S, e, d) /\ d \in Nat /\ m[d + 1] \in Nat /\ m[d + 2] \in Nat
      BY LinkedWords DEF WordsOK
    <2>2. CASE d = a
      <3>1. m1[d] \in {FREE, USED} /\ m1[d + 1] = x + y /\ m1[d + 2] = n
        BY <2>1, <2>2, <1>8, <1>9 DEF WordsOK
      <3>2. m1[d + 3] = m[d + 3] /\ (n # 0 => n # b)
        <4>1. a # n /\ n # b
          BY <1>4, <1>5, <1>6, <1>1
        <4> QED BY <4>1, <2>2, <1>9
      <3>3. d # BASE => m[d + 3] \in S \ {b} /\ m1[m[d + 3] + 1] = m[m[d + 3] + 1]
        <4> SUFFICES ASSUME d # BASE PROVE m[d + 3] \in S \ {b} /\ m1[m[d + 3] + 1] = m[m[d + 3] + 1]
          OBVIOUS
        <4>1. PICK q \in S : q = m[d + 3] /\ q + m[q + 1] = d
          BY <2>1 DEF WordsOK
        <4>2. q \in Nat /\ m[q + 1] \in Nat /\ m[q + 1] >= 4
          BY LinkedWords
        <4>3. q # a /\ q # b
          BY <4>1, <4>2, <2>2, <1>4, <1>6
        <4> QED BY <4>1, <4>3, <1>9
      <3> QED BY <3>1, <3>2, <3>3, <2>1, <2>2, <1>8, <1>4, <1>5, <1>6 DEF WordsOK
    <2>3. CASE d # a
      <3>1. m1[d] = m[d] /\ m1[d + 1] = m[d + 1] /\ m1[d + 2] = m[d + 2]
        BY <2>3, <1>9
      <3>2. d + m[d + 1] # e => m[d + 2] # b /\ m1[m[d + 2] + 3] = d
        <4> SUFFICES ASSUME d + m[d + 1] # e PROVE m[d + 2] # b /\ m1[m[d + 2] + 3] = d
          OBVIOUS
        <4>1. PICK t \in S : t = m[d + 2] /\ m[t + 3] = d /\ t = d + m[d + 1]
          BY <2>1 DEF WordsOK
        <4>2. t # b
          BY <4>1, <1>6, <2>3
        <4>3. t # n
          <5> SUFFICES ASSUME t = n PROVE FALSE
            OBVIOUS
          <5>1. n # 0
            BY <1>1
          <5>2. m[n + 3] = b
            BY <5>1, <1>5
          <5> QED BY <5>2, <4>1
        <4> QED BY <4>1, <4>2, <4>3, <1>9
      <3>3. d = BASE => m1[d + 3] = 0
        <4>1. d = BASE => d # n
          BY <1>5, <1>6, <1>4, <1>1
        <4> QED BY <4>1, <1>9, <2>1 DEF WordsOK
      <3>4. d # BASE => m1[d + 3] \in S \ {b} /\ m1[d + 3] + m1[m1[d + 3] + 1] = d
        <4> SUFFICES ASSUME d # BASE PROVE m1[d + 3] \in S \ {b} /\ m1[d + 3] + m1[m1[d + 3] + 1] = d
          OBVIOUS
        <4>1. CASE d = n
          <5>1. n # 0 /\ m1[d + 3] = a
            <6>1. n # 0
              BY <4>1, <1>1
            <6> QED BY <6>1, <4>1, <1>8
          <5>2. a + m1[a + 1] = d
            BY <4>1, <5>1, <1>8, <1>5, <1>6, <1>4
          <5> QED BY <5>1, <5>2, <1>6, <1>4
        <4>2. CASE d # n
          <5>1. PICK q \in S : q = m[d + 3] /\ q + m[q + 1] = d /\ m1[d + 3] = q
            BY <2>1, <4>2, <1>9 DEF WordsOK
          <5>2. q # b
            <6> SUFFICES ASSUME q = b PROVE FALSE
              OBVIOUS
            <6>1. b + y = d
              BY <5>1, <1>3
            <6>2. d # e
              <7>1. d \in BASE .. (e - 4)
                BY <1>1
              <7> QED BY <7>1, <1>1
            <6> QED BY <6>1, <6>2, <4>2, <1>5
          <5>3. q # a
            BY <5>1, <1>3, <1>6
          <5> QED BY <5>1, <5>2, <5>3, <1>9
        <4> QED BY <4>1, <4>2
      <3> QED BY <3>1, <3>2, <3>3, <3>4, <2>1 DEF WordsOK
    <2> QED BY <2>2, <2>3
  <1>11. ASSUME NEW w \in BASE .. (e - 1), m1[w] = USED PROVE w \in S \ {b}
    <2>1. w # a + 1 /\ w # a + 2 /\ (n = 0 \/ w # n + 3)
      <3>1. m1[a + 1] # USED /\ m1[a + 2] # USED /\ (n # 0 => m1[n + 3] # USED)
        BY <1>8, <1>4, <1>5 DEF USED
      <3> QED BY <3>1, <1>11
    <2>2. m1[w] = m[w]
      BY <2>1, <1>8
    <2>3. w \in S
      BY <2>2, <1>11, <1>1 DEF Linked
    <2>4. w # b
      <3>1. m[w] = -2 /\ m[b] = -1
        BY <2>2, <1>11, <1>5 DEF USED, FREE
      <3> QED BY <3>1
    <2> QED BY <2>3, <2>4
  <1>12. Linked(m1, S \ {b}, e)
    <2>1. BASE \in S \ {b} /\ S \ {b} \subseteq BASE .. (e - 4)
      BY <1>1, <1>6
    <2> QED BY <2>1, <1>1, <1>8, <1>10, <1>11, LinkedIntro
  <1>13. Joined(m, m1, S, e, a, b)
    BY <1>12, <1>8, <1>9, <1>3 DEF Joined
  <1> QED BY <1>7, <1>13 DEF Ok

\* kmerge_next leaves everything alone when the next chunk is used or missing.
LEMMA MergeNothing ==
    ASSUME NEW m, NEW S, NEW e, Linked(m, S, e), NEW a, Readable(m, a),
           \/ next(m, a) = NULL
           \/ next(m, a) \in S /\ state(m, next(m, a)) = USED
    PROVE  kmerge_next(m, a) = Ok(m)
  <1>1. BASE \in Nat /\ S \subseteq BASE .. (e - 4) /\ e \in Nat /\ DOMAIN m = BASE .. (e - 1)
    BY KmallocAssumption DEF Linked, HEADER
  <1>2. \A d \in S : Readable(m, d)
    BY <1>1 DEF Readable
  <1> QED BY <1>2 DEF kmerge_next, FREE, USED

\* m1 is m with chunk c cut after r words.
Parted(m, m1, S, e, c, r) ==
    /\ Linked(m1, S \cup {c + r}, e)
    /\ m1[c + 1] = r /\ m1[c + 2] = c + r
    /\ m1[c + r] = FREE /\ m1[c + r + 1] = m[c + 1] - r /\ m1[c + r + 2] = m[c + 2]
    /\ \A d \in S : m1[d] = m[d]
    /\ \A d \in S \ {c} : m1[d + 1] = m[d + 1] /\ m1[d + 2] = m[d + 2]

\* The words ksplit writes.
LEMMA SplitWords ==
    ASSUME NEW m, NEW S, NEW e, Linked(m, S, e), NEW c \in S, NEW r \in Nat,
           r >= 4, m[c + 1] >= r + 4,
           NEW n, n = m[c + 2], NEW x, x = c + r
    PROVE  LET m1 == ksplit(m, c, r)
           IN  /\ m1 \in [BASE .. (e - 1) -> Int]
               /\ m1[x] = FREE /\ m1[x + 1] = m[c + 1] - r /\ m1[x + 2] = n /\ m1[x + 3] = c
               /\ n # 0 => m1[n + 3] = x
               /\ m1[c + 2] = x /\ m1[c + 1] = r
               /\ \A w \in BASE .. (e - 1) :
                     w \notin {x, x + 1, x + 2, x + 3, c + 1, c + 2} /\ (n = 0 \/ w # n + 3)
                        => m1[w] = m[w]
  <1> DEFINE D == BASE .. (e - 1)
             k1 == [m EXCEPT ![x] = FREE]
             k2 == [k1 EXCEPT ![x + 1] = m[c + 1] - r]
             k3 == [k2 EXCEPT ![x + 2] = n]
             k4 == [k3 EXCEPT ![x + 3] = c]
             k5 == IF n = 0 THEN k4 ELSE [k4 EXCEPT ![n + 3] = x]
             k6 == [k5 EXCEPT ![c + 2] = x]
             k7 == [k6 EXCEPT ![c + 1] = r]
  <1>1. S \subseteq BASE .. (e - 4) /\ e \in Nat /\ m \in [D -> Int] /\ BASE \in Nat \ {0}
    BY KmallocAssumption DEF Linked, HEADER
  <1>2. /\ c \in Nat /\ c >= BASE /\ m[c + 1] \in Nat /\ c + m[c + 1] <= e /\ n \in Nat
        /\ n # 0 => n \in S /\ n = c + m[c + 1]
    BY LinkedWords
  <1>3. /\ x \in Nat /\ {x, x + 1, x + 2, x + 3, c + 1, c + 2} \subseteq D
        /\ n # 0 => n + 3 \in D
    <2>1. n # 0 => n \in Nat /\ n >= BASE /\ n + 4 <= e
      BY <1>1, <1>2
    <2>2. x \in Nat /\ x >= BASE /\ x + 4 <= e /\ c + 4 <= e
      BY <1>1, <1>2
    <2>3. \A w \in Nat : w >= BASE /\ w + 1 <= e => w \in D
      BY <1>1
    <2>4. {x, x + 1, x + 2, x + 3} \subseteq D
      BY <2>2, <2>3, <1>1
    <2>5. {c + 1, c + 2} \subseteq D
      BY <2>2, <2>3, <1>1, <1>2
    <2>6. ASSUME n # 0 PROVE n + 3 \in D
      <3>1. n + 3 \in Nat /\ n + 3 >= BASE /\ (n + 3) + 1 <= e
        <4>1. e \in Nat /\ BASE \in Nat
          BY <1>1
        <4> QED BY <4>1, <2>1, <2>6
      <3> HIDE DEF D
      <3> QED BY <3>1, <2>3
    <2> HIDE DEF D
    <2> QED BY <2>2, <2>4, <2>5, <2>6
  <1>4. ksplit(m, c, r) = k7
    BY DEF ksplit, WriteHeader, length, next, NULL
  <1> HIDE DEF D
  <1>5. k1 \in [D -> Int] /\ k1[x] = FREE /\ \A u \in D : u # x => k1[u] = m[u]
    BY <1>1, <1>3, PutWord DEF FREE
  <1> HIDE DEF k1
  <1>6. k2 \in [D -> Int] /\ k2[x + 1] = m[c + 1] - r /\ \A u \in D : u # x + 1 => k2[u] = k1[u]
    <2>1. m[c + 1] - r \in Int
      BY <1>2
    <2> QED BY <2>1, <1>5, <1>3, PutWord
  <1> HIDE DEF k2
  <1>7. k3 \in [D -> Int] /\ k3[x + 2] = n /\ \A u \in D : u # x + 2 => k3[u] = k2[u]
    BY <1>2, <1>3, <1>6, PutWord
  <1> HIDE DEF k3
  <1>8. k4 \in [D -> Int] /\ k4[x + 3] = c /\ \A u \in D : u # x + 3 => k4[u] = k3[u]
    BY <1>2, <1>3, <1>7, PutWord
  <1> HIDE DEF k4
  <1>9. /\ k5 \in [D -> Int] /\ (n # 0 => k5[n + 3] = x)
        /\ \A u \in D : n = 0 \/ u # n + 3 => k5[u] = k4[u]
    <2>1. CASE n = 0
      BY <2>1, <1>8
    <2>2. CASE n # 0
      <3>1. k5 = [k4 EXCEPT ![n + 3] = x] /\ x \in Int /\ n + 3 \in D
        BY <2>2, <1>3
      <3> QED BY <3>1, <1>8, PutWord
    <2> QED BY <2>1, <2>2
  <1> HIDE DEF k5
  <1>10. k6 \in [D -> Int] /\ k6[c + 2] = x /\ \A u \in D : u # c + 2 => k6[u] = k5[u]
    BY <1>2, <1>3, <1>9, PutWord
  <1> HIDE DEF k6
  <1>11. k7 \in [D -> Int] /\ k7[c + 1] = r /\ \A u \in D : u # c + 1 => k7[u] = k6[u]
    BY <1>2, <1>3, <1>10, PutWord
  <1> HIDE DEF k7
  <1>12. /\ c + 1 # c + 2 /\ c + 1 < x /\ c + 2 < x /\ x + 1 # x + 2 /\ x + 1 # x + 3 /\ x + 2 # x + 3
         /\ x # x + 1 /\ x # x + 2 /\ x # x + 3
         /\ n # 0 => x + 3 < n + 3 /\ x + 2 < n + 3 /\ x + 1 < n + 3 /\ x < n + 3 /\ c + 1 < n + 3 /\ c + 2 < n + 3
    BY <1>2
  <1>13. /\ k7[x] = FREE /\ k7[x + 1] = m[c + 1] - r /\ k7[x + 2] = n /\ k7[x + 3] = c
         /\ n # 0 => k7[n + 3] = x
         /\ k7[c + 2] = x
    BY <1>2, <1>3, <1>5, <1>6, <1>7, <1>8, <1>9, <1>10, <1>11, <1>12
  <1>14. ASSUME NEW w \in D, w \notin {x, x + 1, x + 2, x + 3, c + 1, c + 2}, n = 0 \/ w # n + 3
         PROVE  k7[w] = m[w]
    BY <1>14, <1>5, <1>6, <1>7, <1>8, <1>9, <1>10, <1>11
  <1> QED BY <1>4, <1>11, <1>13, <1>14 DEF D

\* ksplit cuts a chunk in two.
LEMMA SplitParts ==
    ASSUME NEW m, NEW S, NEW e, Linked(m, S, e), NEW c \in S, NEW r \in Nat,
           r >= 4, m[c + 1] >= r + 4
    PROVE  Parted(m, ksplit(m, c, r), S, e, c, r)
  <1>1. BASE \in S /\ S \subseteq BASE .. (e - 4) /\ e \in Nat /\ DOMAIN m = BASE .. (e - 1)
        /\ m \in [BASE .. (e - 1) -> Int] /\ BASE \in Nat \ {0}
    BY KmallocAssumption DEF Linked, HEADER
  <1>2. PICK n, x, len, m1 : n = m[c + 2] /\ x = c + r /\ len = m[c + 1] /\ m1 = ksplit(m, c, r)
    OBVIOUS
  <1>3. /\ c \in Nat /\ c >= BASE /\ len \in Nat /\ c + len <= e /\ n \in Nat
        /\ c + len = e => n = 0
        /\ c + len # e => n \in S /\ n = c + len /\ m[n + 3] = c
    BY <1>2, LinkedWords
  <1>4. x \in Nat /\ x = c + r /\ len >= r + 4 /\ x + 4 <= e /\ x # BASE
    BY <1>1, <1>2, <1>3
  <1>5. /\ m1 \in [BASE .. (e - 1) -> Int]
        /\ m1[x] = FREE /\ m1[x + 1] = len - r /\ m1[x + 2] = n /\ m1[x + 3] = c
        /\ n # 0 => m1[n + 3] = x
        /\ m1[c + 2] = x /\ m1[c + 1] = r
        /\ \A w \in BASE .. (e - 1) :
              w \notin {x, x + 1, x + 2, x + 3, c + 1, c + 2} /\ (n = 0 \/ w # n + 3)
                 => m1[w] = m[w]
    <2>1. n = m[c + 2] /\ x = c + r /\ r >= 4 /\ m[c + 1] >= r + 4
      BY <1>2
    <2> QED BY <2>1, <1>2, SplitWords
  <1>6. ASSUME NEW d \in S
        PROVE  /\ m1[d] = m[d] /\ d # x
               /\ d # c => m1[d + 1] = m[d + 1] /\ m1[d + 2] = m[d + 2]
               /\ d # n => m1[d + 3] = m[d + 3]
    <2>1. d \in Nat /\ d >= BASE /\ d + 4 <= e /\ {d, d + 1, d + 2, d + 3} \subseteq BASE .. (e - 1)
      BY <1>1
    <2>2. d = c \/ d + 4 <= c \/ c + len <= d
      <3>1. CASE d # c
        <4>1. c + m[c + 1] <= d \/ d + m[d + 1] <= c
          BY <3>1, HeadersApart
        <4>2. m[d + 1] \in Nat /\ m[d + 1] >= 4
          BY LinkedWords
        <4> QED BY <4>1, <4>2, <1>2, <1>3, <2>1
      <3> QED BY <3>1
    <2>3. n = 0 \/ d = n \/ d + 4 <= n \/ n + 4 <= d
      BY HeadersApart, <1>3
    <2> QED BY <1>5, <2>1, <2>2, <2>3, <1>3, <1>4, SMTT(40)
  <1>7. x \notin S
    BY <1>6
  <1>8. ASSUME NEW d \in S \cup {x} PROVE WordsOK(m1, S \cup {x}, e, d)
    <2>1. CASE d = x
      <3>1. m1[d] \in {FREE, USED} /\ m1[d + 1] >= 4 /\ d + m1[d + 1] = c + len
        BY <2>1, <1>5, <1>4, <1>3
      <3>2. m1[d + 3] \in S /\ m1[d + 3] + m1[m1[d + 3] + 1] = d
        BY <2>1, <1>5, <1>4
      <3> QED BY <3>1, <3>2, <2>1, <1>5, <1>4, <1>3, <1>1 DEF WordsOK
    <2>2. CASE d = c
      <3>1. m1[d] = m[d] /\ m[d] \in {FREE, USED} /\ WordsOK(m, S, e, d)
        BY <2>2, <1>6, LinkedWords DEF WordsOK
      <3>2. d # n
        BY <2>2, <1>3, <1>4, <1>1
      <3>3. m1[d + 3] = m[d + 3]
        BY <3>2, <2>2, <1>6
      <3>4. d # BASE => m[d + 3] # c /\ m1[m[d + 3] + 1] = m[m[d + 3] + 1]
        <4> SUFFICES ASSUME d # BASE PROVE m[d + 3] # c /\ m1[m[d + 3] + 1] = m[m[d + 3] + 1]
          OBVIOUS
        <4>1. PICK q \in S : q = m[d + 3] /\ q + m[q + 1] = d
          BY <3>1 DEF WordsOK
        <4>2. q \in Nat /\ m[q + 1] \in Nat /\ m[q + 1] >= 4
          BY LinkedWords
        <4>3. q # c
          BY <4>1, <4>2, <2>2, <1>3
        <4> QED BY <4>1, <4>3, <1>6
      <3>5. m1[d + 1] = r /\ d + r <= e /\ d + r # e /\ m1[d + 2] = d + r /\ d + r = x /\ m1[x + 3] = d
        <4>1. c + r <= e /\ c + r # e
          BY <1>3, <1>4, <1>1
        <4> QED BY <4>1, <2>2, <1>4, <1>5
      <3>6. d = BASE => m1[d + 3] = 0
        BY <3>1, <3>3 DEF WordsOK
      <3>7. d # BASE => m1[d + 3] \in S /\ m1[d + 3] + m1[m1[d + 3] + 1] = d
        BY <3>1, <3>3, <3>4 DEF WordsOK
      <3> QED BY <3>1, <3>5, <3>6, <3>7 DEF WordsOK
    <2>3. CASE d \in S /\ d # c
      <3>0. WordsOK(m, S, e, d) /\ d \in Nat /\ m[d + 1] \in Nat /\ m[d + 2] \in Nat
        BY <2>3, LinkedWords DEF WordsOK
      <3>1. m1[d] = m[d] /\ m1[d + 1] = m[d + 1] /\ m1[d + 2] = m[d + 2]
        BY <2>3, <1>6
      <3>2. d + m[d + 1] # e => m1[m[d + 2] + 3] = d
        <4> SUFFICES ASSUME d + m[d + 1] # e PROVE m1[m[d + 2] + 3] = d
          OBVIOUS
        <4>1. PICK t \in S : t = m[d + 2] /\ m[t + 3] = d
          BY <3>0 DEF WordsOK
        <4>2. t # n
          <5> SUFFICES ASSUME t = n PROVE FALSE
            OBVIOUS
          <5>1. n # 0
            BY <1>1
          <5>2. m[n + 3] = c
            BY <5>1, <1>3
          <5> QED BY <5>2, <4>1, <2>3
        <4> QED BY <4>1, <4>2, <1>6
      <3>3. d = BASE => m1[d + 3] = 0
        <4>1. d = BASE => d # n
          BY <1>3, <1>4, <1>1
        <4> QED BY <4>1, <1>6, <3>0, <2>3 DEF WordsOK
      <3>4. d # BASE => m1[d + 3] \in S \cup {x} /\ m1[d + 3] + m1[m1[d + 3] + 1] = d
        <4> SUFFICES ASSUME d # BASE PROVE m1[d + 3] \in S \cup {x} /\ m1[d + 3] + m1[m1[d + 3] + 1] = d
          OBVIOUS
        <4>1. CASE d = n
          <5>1. n # 0
            BY <4>1, <2>3, <1>1
          <5>2. m1[d + 3] = x /\ n = c + len
            BY <5>1, <4>1, <1>5, <1>3
          <5> QED BY <5>2, <4>1, <1>5, <1>3, <1>4
        <4>2. CASE d # n
          <5>1. PICK q \in S : q = m[d + 3] /\ q + m[q + 1] = d /\ m1[d + 3] = q
            BY <3>0, <4>2, <1>6, <2>3 DEF WordsOK
          <5>2. q # c
            <6> SUFFICES ASSUME q = c PROVE FALSE
              OBVIOUS
            <6>1. c + len = d
              BY <5>1, <1>2
            <6>2. d # e
              <7>1. d \in BASE .. (e - 4)
                BY <1>1, <2>3
              <7> QED BY <7>1, <1>1
            <6> QED BY <6>1, <6>2, <4>2, <1>3
          <5> QED BY <5>1, <5>2, <1>6
        <4> QED BY <4>1, <4>2
      <3> QED BY <3>0, <3>1, <3>2, <3>3, <3>4 DEF WordsOK
    <2> QED BY <1>8, <2>1, <2>2, <2>3
  <1>9. ASSUME NEW w \in BASE .. (e - 1), m1[w] = USED PROVE w \in S \cup {x}
    <2>1. /\ m1[x] # USED /\ m1[x + 1] # USED /\ m1[x + 2] # USED /\ m1[x + 3] # USED
          /\ m1[c + 1] # USED /\ m1[c + 2] # USED /\ (n # 0 => m1[n + 3] # USED)
      BY <1>5, <1>3, <1>4 DEF USED, FREE
    <2>2. w \notin {x, x + 1, x + 2, x + 3, c + 1, c + 2} /\ (n = 0 \/ w # n + 3)
      BY <2>1, <1>9
    <2>3. m1[w] = m[w]
      BY <2>2, <1>5
    <2> QED BY <2>3, <1>9, <1>1 DEF Linked
  <1>10. Linked(m1, S \cup {x}, e)
    <2>1. BASE \in S \cup {x} /\ S \cup {x} \subseteq BASE .. (e - 4)
      BY <1>1, <1>4, <1>3
    <2> QED BY <2>1, <1>1, <1>5, <1>8, <1>9, LinkedIntro
  <1>11. x + 1 = c + r + 1 /\ x + 2 = c + r + 2
    BY <1>4, <1>3
  <1> QED BY <1>2, <1>10, <1>11, <1>5, <1>6 DEF Parted

\* Writing within a block, behind its header, touches no header.
LEMMA FillKeeps ==
    ASSUME NEW m, NEW S, NEW e, Linked(m, S, e), NEW c \in S, NEW size \in Nat,
           size + 4 <= m[c + 1], NEW clear \in BOOLEAN,
           NEW m1, m1 = Filled(m, c + HEADER, size, clear)
    PROVE  /\ Linked(m1, S, e)
           /\ \A d \in S : /\ m1[d] = m[d] /\ m1[d + 1] = m[d + 1]
                           /\ m1[d + 2] = m[d + 2] /\ m1[d + 3] = m[d + 3]
  <1>1. S \subseteq BASE .. (e - 4) /\ e \in Nat /\ DOMAIN m = BASE .. (e - 1)
        /\ m \in [BASE .. (e - 1) -> Int] /\ BASE \in Nat \ {0}
    BY KmallocAssumption DEF Linked, HEADER
  <1>2. c \in Nat /\ m[c + 1] \in Nat
    BY LinkedWords
  <1>3. m1 = [w \in BASE .. (e - 1) |->
                 IF clear /\ w \in (c + 4) .. (c + 4 + size - 1) THEN 0 ELSE m[w]]
    BY <1>1 DEF Filled, Payload, HEADER
  <1>4. m1 \in [BASE .. (e - 1) -> Int]
    BY <1>1, <1>3
  <1>5. ASSUME NEW d \in S
        PROVE  /\ m1[d] = m[d] /\ m1[d + 1] = m[d + 1]
               /\ m1[d + 2] = m[d + 2] /\ m1[d + 3] = m[d + 3]
    <2>1. d \in Nat /\ {d, d + 1, d + 2, d + 3} \subseteq BASE .. (e - 1)
      BY <1>1
    <2>2. d = c \/ d + 4 <= c \/ c + m[c + 1] <= d
      <3>1. CASE d # c
        <4>1. c + m[c + 1] <= d \/ d + m[d + 1] <= c
          BY <3>1, HeadersApart
        <4>2. m[d + 1] \in Nat /\ m[d + 1] >= 4
          BY LinkedWords
        <4> QED BY <4>1, <4>2, <1>2, <2>1
      <3> QED BY <3>1
    <2>3. ASSUME NEW w \in {d, d + 1, d + 2, d + 3} PROVE m1[w] = m[w]
      <3>1. w \notin (c + 4) .. (c + 4 + size - 1) /\ w \in BASE .. (e - 1)
        BY <2>1, <2>2, <1>2
      <3> QED BY <3>1, <1>3
    <2> QED BY <2>3
  <1>6. ASSUME NEW w \in BASE .. (e - 1), m1[w] = USED PROVE w \in S
    <2>1. m1[w] = 0 \/ m1[w] = m[w]
      BY <1>3
    <2>2. m[w] = USED
      BY <2>1, <1>6 DEF USED
    <2> QED BY <2>2, <1>1 DEF Linked
  <1>7. Linked(m1, S, e)
    BY <1>4, <1>5, <1>6, OutsideHeaders
  <1> QED BY <1>5, <1>7

\* Some chunk is the last one.
LEMMA LastExists ==
    ASSUME NEW m, NEW S, NEW e, Linked(m, S, e)
    PROVE  \E c \in S : next(m, c) = NULL
  <1>1. S \subseteq BASE .. (e - 4) /\ e \in Nat /\ BASE \in Nat \ {0} /\ BASE \in S
    BY KmallocAssumption DEF Linked, HEADER
  <1> DEFINE T == {e - c : c \in S}
  <1>2. T \subseteq Nat /\ T # {}
    BY <1>1
  <1> HIDE DEF T
  <1>3. PICK t \in T : \A u \in T : t <= u
    BY <1>2, LeastNumber
  <1>4. PICK c \in S : t = e - c
    BY <1>3 DEF T
  <1>5. \A d \in S : d <= c
    BY <1>1, <1>3, <1>4 DEF T
  <1>6. /\ c \in Nat /\ m[c + 1] \in Nat /\ m[c + 1] >= 4
        /\ m[c + 2] = 0 \/ (m[c + 2] \in S /\ m[c + 2] = c + m[c + 1])
    BY LinkedWords
  <1>7. m[c + 2] = 0
    BY <1>5, <1>6
  <1> QED BY <1>7 DEF next, NULL

\* A heap of one free chunk.
LEMMA FirstChunk ==
    ASSUME NEW e \in Nat, e >= BASE + 4, NEW m \in [BASE .. (e - 1) -> Int],
           m[BASE] = FREE, m[BASE + 1] = e - BASE, m[BASE + 2] = 0, m[BASE + 3] = 0,
           \A w \in BASE .. (e - 1) : w # BASE => m[w] >= 0
    PROVE  Linked(m, {BASE}, e)
  <1>1. BASE \in Nat \ {0}
    BY KmallocAssumption
  <1>2. ASSUME NEW c \in {BASE} PROVE WordsOK(m, {BASE}, e, c)
    <2>1. e - BASE \in Nat /\ e - BASE >= 4 /\ BASE + (e - BASE) = e
      BY <1>1
    <2>2. WordsOK(m, {BASE}, e, BASE)
      BY <2>1 DEF WordsOK
    <2> QED BY <2>2
  <1>3. \A w \in BASE .. (e - 1) : m[w] = USED => w \in {BASE}
    BY DEF USED
  <1>4. BASE \in {BASE} /\ {BASE} \subseteq BASE .. (e - 4)
    BY <1>1
  <1> QED BY <1>2, <1>3, <1>4, LinkedIntro

\* m1 is m with words more words that hold a free chunk, linked behind last.
Lengthened(m, m1, e, last, words) ==
    /\ m1 \in [BASE .. (e + words - 1) -> Int]
    /\ m1[e] = FREE /\ m1[e + 1] = words /\ m1[e + 2] = 0 /\ m1[e + 3] = last
    /\ m1[last + 2] = e
    /\ \A w \in BASE .. (e - 1) : w # last + 2 => m1[w] = m[w]
    /\ \A w \in (e + 4) .. (e + words - 1) : m1[w] = 0

\* A free chunk of new words behind the last one.
LEMMA AppendLinks ==
    ASSUME NEW m, NEW S, NEW e, Linked(m, S, e), NEW last \in S, m[last + 2] = 0,
           NEW words \in Nat, words >= 4, NEW m1, Lengthened(m, m1, e, last, words)
    PROVE  /\ Linked(m1, S \cup {e}, e + words)
           /\ \A d \in S : m1[d] = m[d] /\ m1[d + 1] = m[d + 1] /\ (d # last => m1[d + 2] = m[d + 2])
  <1>1. BASE \in S /\ S \subseteq BASE .. (e - 4) /\ e \in Nat /\ DOMAIN m = BASE .. (e - 1)
        /\ m \in [BASE .. (e - 1) -> Int] /\ BASE \in Nat \ {0}
    BY KmallocAssumption DEF Linked, HEADER
  <1>2. /\ last \in Nat /\ last >= BASE /\ last + 4 <= e
        /\ m[last + 1] \in Nat /\ m[last + 1] >= 4 /\ last + m[last + 1] = e
    <2>1. /\ last \in Nat /\ last >= BASE /\ last + 4 <= e /\ m[last + 1] \in Nat /\ m[last + 1] >= 4
          /\ last + m[last + 1] # e => m[last + 2] \in S
      BY LinkedWords
    <2>2. 0 \notin S
      BY <1>1
    <2> QED BY <2>1, <2>2
  <1>3. ASSUME NEW d \in S
        PROVE  /\ m1[d] = m[d] /\ m1[d + 1] = m[d + 1] /\ m1[d + 3] = m[d + 3]
               /\ d # last => m1[d + 2] = m[d + 2]
    <2>1. d \in Nat /\ {d, d + 1, d + 2, d + 3} \subseteq BASE .. (e - 1)
      BY <1>1
    <2>2. d = last \/ d + 4 <= last \/ last + 4 <= d
      BY HeadersApart
    <2> QED BY <2>1, <2>2, <1>2 DEF Lengthened
  <1>4. ASSUME NEW d \in S \cup {e} PROVE WordsOK(m1, S \cup {e}, e + words, d)
    <2>1. CASE d = e
      <3>1. m1[d] \in {FREE, USED} /\ d + m1[d + 1] = e + words /\ m1[d + 2] = 0 /\ d # BASE
        BY <2>1, <1>1, <1>2 DEF Lengthened
      <3>2. m1[d + 3] \in S /\ m1[d + 3] + m1[m1[d + 3] + 1] = d
        BY <2>1, <1>2, <1>3 DEF Lengthened
      <3>3. m1[d + 1] >= 4 /\ d + m1[d + 1] <= e + words
        <4>1. m1[d + 1] = words
          BY <2>1 DEF Lengthened
        <4> QED BY <4>1, <2>1, <1>1
      <3> QED BY <3>1, <3>2, <3>3 DEF WordsOK
    <2>2. CASE d \in S
      <3>1. WordsOK(m, S, e, d) /\ d \in Nat /\ m[d + 1] \in Nat /\ m[d + 2] \in Nat
        BY <2>2, LinkedWords DEF WordsOK
      <3>2. m1[d] = m[d] /\ m1[d + 1] = m[d + 1] /\ m1[d + 3] = m[d + 3]
        BY <2>2, <1>3
      <3>3. d + m[d + 1] <= e + words /\ d + m[d + 1] # e + words
        <4>1. d + m[d + 1] <= e
          BY <3>1 DEF WordsOK
        <4>2. PICK z \in Nat : z = d + m[d + 1] /\ z <= e /\ e \in Nat
          <5>1. e \in Nat
            BY <1>1
          <5> QED BY <5>1, <4>1, <3>1
        <4>3. z <= e + words /\ z # e + words
          BY <4>2
        <4> QED BY <4>2, <4>3
      <3>4. m1[d + 2] = d + m[d + 1] /\ m1[d + 2] \in S \cup {e} /\ m1[m1[d + 2] + 3] = d
        <4>1. CASE d = last
          BY <4>1, <1>2 DEF Lengthened
        <4>2. CASE d # last
          <5>1. d + m[d + 1] # e
            <6>1. CASE d < last
              <7>1. d + m[d + 1] <= last
                BY <6>1, <2>2, Apart
              <7> QED BY <7>1, <3>1, <1>2, <1>1
            <6>2. CASE last < d
              <7>1. last + m[last + 1] <= d
                BY <6>2, <2>2, Apart
              <7>2. d + 4 <= e
                BY <2>2, <1>1
              <7> QED BY <7>1, <7>2, <3>1, <1>2, <1>1
            <6> QED BY <6>1, <6>2, <4>2, <3>1, <1>2
          <5>2. PICK t \in S : t = m[d + 2] /\ t = d + m[d + 1] /\ m[t + 3] = d
            BY <5>1, <3>1 DEF WordsOK
          <5>3. m1[d + 2] = t /\ m1[t + 3] = m[t + 3]
            BY <5>2, <4>2, <2>2, <1>3
          <5> QED BY <5>2, <5>3
        <4> QED BY <4>1, <4>2
      <3>5. d # BASE => m1[d + 3] \in S /\ m1[d + 3] + m1[m1[d + 3] + 1] = d
        BY <3>1, <3>2, <1>3 DEF WordsOK
      <3> QED BY <3>1, <3>2, <3>3, <3>4, <3>5 DEF WordsOK
    <2> QED BY <2>1, <2>2
  <1>5. ASSUME NEW w \in BASE .. (e + words - 1), m1[w] = USED PROVE w \in S \cup {e}
    <2>1. m1[e + 1] # USED /\ m1[e + 2] # USED /\ m1[e + 3] # USED /\ m1[last + 2] # USED
      <3>1. \A v \in Nat : v # USED
        BY DEF USED
      <3>2. words \in Nat /\ last \in Nat /\ e \in Nat
        BY <1>1, <1>2
      <3> QED BY <3>1, <3>2 DEF Lengthened
    <2>2. w \notin {e + 1, e + 2, e + 3, last + 2}
      BY <2>1, <1>5
    <2>3. w \notin (e + 4) .. (e + words - 1)
      BY <1>5 DEF USED, Lengthened
    <2>4. w = e \/ w \in BASE .. (e - 1)
      BY <2>2, <2>3, <1>1
    <2>5. CASE w \in BASE .. (e - 1)
      <3>1. m1[w] = m[w]
        BY <2>5, <2>2 DEF Lengthened
      <3> QED BY <3>1, <2>5, <1>5, <1>1 DEF Linked
    <2> QED BY <2>4, <2>5
  <1>6. Linked(m1, S \cup {e}, e + words)
    <2>1. PICK k : k = e + words
      OBVIOUS
    <2>2. k \in Nat /\ BASE \in S \cup {e} /\ m1 \in [BASE .. (k - 1) -> Int]
      BY <2>1, <1>1 DEF Lengthened
    <2>3. S \cup {e} \subseteq BASE .. (k - 4)
      <3>1. BASE .. (e - 4) \subseteq BASE .. (k - 4)
        BY <2>1, <1>1
      <3>2. e \in BASE .. (k - 4)
        BY <2>1, <1>1, <1>2
      <3> QED BY <3>1, <3>2, <1>1
    <2>4. /\ \A d \in S \cup {e} : WordsOK(m1, S \cup {e}, k, d)
          /\ \A w \in BASE .. (k - 1) : m1[w] = USED => w \in S \cup {e}
      <3>1. \A w \in BASE .. (e + words - 1) : m1[w] = USED => w \in S \cup {e}
        BY <1>5
      <3>2. e + words - 1 = k - 1
        BY <2>1, <1>1
      <3> QED BY <2>1, <3>1, <3>2, <1>4
    <2>5. Linked(m1, S \cup {e}, k)
      BY <2>2, <2>3, <2>4, LinkedIntro
    <2> QED BY <2>1, <2>5
  <1> QED BY <1>3, <1>6

-----------------------------------------------------------------------------
(* The clients' blocks.                                                    *)

UsedChunks(m, S) == {c \in S : m[c] = USED}

\* The blocks in l are the used chunks, each as long as asked for.
BlocksMatch(m, S, l) ==
    /\ l \subseteq [ptr : Nat, size : Sizes \ {0}]
    /\ {b.ptr - HEADER : b \in l} = UsedChunks(m, S)
    /\ \A b \in l : b.size <= m[b.ptr - HEADER + 1] - HEADER
    /\ \A a, b \in l : a.ptr = b.ptr => a = b

NoFreePair(m, S) ==
    \A c \in S : m[c] = FREE /\ m[c + 2] # 0 => m[m[c + 2]] = USED

GoodHeap(m, S, e, l) == Linked(m, S, e) /\ NoFreePair(m, S) /\ BlocksMatch(m, S, l)

\* A block of its own for one more used chunk.
LEMMA BlocksAdd ==
    ASSUME NEW m, NEW S, NEW l, BlocksMatch(m, S, l), NEW m1, NEW S1,
           NEW c \in Nat, NEW size \in Sizes \ {0}, c \notin UsedChunks(m, S),
           UsedChunks(m1, S1) = UsedChunks(m, S) \cup {c},
           \A d \in UsedChunks(m, S) : m1[d + 1] = m[d + 1],
           size <= m1[c + 1] - 4
    PROVE  BlocksMatch(m1, S1, l \cup {[ptr |-> c + HEADER, size |-> size]})
  <1> DEFINE new == [ptr |-> c + HEADER, size |-> size]
             l1 == l \cup {new}
  <1>1. new \in [ptr : Nat, size : Sizes \ {0}] /\ new.ptr = c + 4 /\ new.size = size /\ new.ptr - HEADER = c
    BY DEF HEADER
  <1> HIDE DEF new
  <1>2. l1 \subseteq [ptr : Nat, size : Sizes \ {0}]
    BY <1>1 DEF BlocksMatch
  <1>3. {b.ptr - HEADER : b \in l1} = UsedChunks(m1, S1)
    <2>1. {b.ptr - HEADER : b \in l1} = {b.ptr - HEADER : b \in l} \cup {new.ptr - HEADER}
      OBVIOUS
    <2> QED BY <2>1, <1>1 DEF BlocksMatch
  <1>4. ASSUME NEW b \in l PROVE b.ptr - HEADER \in UsedChunks(m, S) /\ b.ptr \in Nat
    BY DEF BlocksMatch
  <1>5. ASSUME NEW b \in l1 PROVE b.size <= m1[b.ptr - HEADER + 1] - HEADER
    <2>1. CASE b \in l
      BY <2>1, <1>4 DEF BlocksMatch
    <2>2. CASE b = new
      BY <2>2, <1>1 DEF HEADER
    <2> QED BY <2>1, <2>2
  <1>6. ASSUME NEW b \in l PROVE b.ptr # new.ptr
    BY <1>1, <1>4
  <1>7. ASSUME NEW a \in l1, NEW b \in l1, a.ptr = b.ptr PROVE a = b
    BY <1>6, <1>7 DEF BlocksMatch
  <1> QED BY <1>2, <1>3, <1>5, <1>7 DEF BlocksMatch, new

\* Without the block of a chunk that is used no more.
LEMMA BlocksDrop ==
    ASSUME NEW m, NEW S, NEW l, BlocksMatch(m, S, l), NEW m1, NEW S1,
           NEW c \in Nat,
           UsedChunks(m1, S1) = UsedChunks(m, S) \ {c},
           \A d \in UsedChunks(m1, S1) : m1[d + 1] = m[d + 1]
    PROVE  BlocksMatch(m1, S1, {b \in l : b.ptr # c + HEADER})
  <1> DEFINE l1 == {b \in l : b.ptr # c + HEADER}
  <1>1. \A b \in l : b.ptr \in Nat /\ b.ptr - HEADER \in UsedChunks(m, S)
    BY DEF BlocksMatch
  <1>2. \A b \in l : b.ptr # c + HEADER <=> b.ptr - HEADER # c
    BY <1>1 DEF HEADER
  <1>3. {b.ptr - HEADER : b \in l1} = UsedChunks(m1, S1)
    <2>1. ASSUME NEW b \in l1 PROVE b.ptr - HEADER \in UsedChunks(m1, S1)
      BY <1>1, <1>2
    <2>2. ASSUME NEW d \in UsedChunks(m1, S1) PROVE \E b \in l1 : b.ptr - HEADER = d
      <3>1. PICK b \in l : b.ptr - HEADER = d
        BY DEF BlocksMatch
      <3> QED BY <3>1, <1>2
    <2> QED BY <2>1, <2>2
  <1>4. ASSUME NEW b \in l1 PROVE b.size <= m1[b.ptr - HEADER + 1] - HEADER
    <2>1. b.ptr - HEADER \in UsedChunks(m1, S1) /\ b.size <= m[b.ptr - HEADER + 1] - HEADER
      BY <1>3 DEF BlocksMatch
    <2> QED BY <2>1
  <1> QED BY <1>3, <1>4 DEF BlocksMatch

-----------------------------------------------------------------------------
(* What kmalloc and kfree do to a sound heap.                              *)

\* Taking a free chunk that is large enough for a block, split or whole, keeps
\* the heap sound.
LEMMA GrantKeeps ==
    ASSUME NEW m, NEW S, NEW e, NEW l, GoodHeap(m, S, e, l), NEW c \in S, m[c] = FREE,
           NEW size \in Sizes, size # 0, m[c + 1] >= Required(size), NEW clear \in BOOLEAN
    PROVE  \E S1 : GoodHeap(Filled(TakeChunk(m, c, Required(size)), c + HEADER, size, clear),
                           S1, e, l \cup {[ptr |-> c + HEADER, size |-> size]})
  <1>1. PICK r, len : r = Required(size) /\ len = m[c + 1]
    OBVIOUS
  <1>2. size \in Nat \ {0} /\ r \in Nat /\ r >= size + 4 /\ r >= 4
    <2>1. size \in Nat \ {0}
      BY KmallocAssumption
    <2> QED BY <2>1, <1>1, RequiredCovers DEF HEADER
  <1>3. Linked(m, S, e) /\ NoFreePair(m, S) /\ BlocksMatch(m, S, l)
    BY DEF GoodHeap
  <1>4. c \in Nat /\ len \in Nat /\ len >= r /\ m[c + 2] \in Nat
    BY <1>1, <1>3, LinkedWords
  <1>5. PICK p, T : /\ p = IF len >= r + 8 THEN ksplit(m, c, r) ELSE m
                    /\ T = IF len >= r + 8 THEN S \cup {c + r} ELSE S
    OBVIOUS
  <1>6. /\ Linked(p, T, e) /\ c \in T /\ p[c] = FREE /\ p[c + 1] >= r
        /\ S \subseteq T /\ \A d \in T \ S : p[d] = FREE
        /\ \A d \in S : p[d] = m[d] /\ (d # c => p[d + 1] = m[d + 1] /\ p[d + 2] = m[d + 2])
        /\ \A d \in T \ {c} : p[d] = FREE /\ p[d + 2] # 0 => p[p[d + 2]] = USED \/ p[d + 2] = c
    <2>1. CASE len >= r + 8
      <3>1. Parted(m, p, S, e, c, r) /\ T = S \cup {c + r} /\ m[c + 1] >= r + 4
        <4>1. m[c + 1] >= r + 4
          BY <2>1, <1>1, <1>2, <1>4
        <4> QED BY <4>1, <2>1, <1>2, <1>3, <1>5, SplitParts
      <3>2. \A d \in S : p[d] = m[d]
        BY <3>1 DEF Parted
      <3>3. ASSUME NEW d \in T \ {c}, p[d] = FREE, p[d + 2] # 0
            PROVE  p[p[d + 2]] = USED
        <4>1. CASE d \in S
          <5>1. m[d] = FREE /\ m[d + 2] = p[d + 2]
            BY <3>1, <3>3, <4>1 DEF Parted
          <5>2. m[m[d + 2]] = USED
            BY <5>1, <4>1, <3>3, <1>3 DEF NoFreePair
          <5>3. m[d + 2] \in S
            BY <4>1, <5>1, <3>3, <1>3, LinkedWords
          <5> QED BY <5>1, <5>2, <5>3, <3>2
        <4>2. CASE d = c + r
          <5>1. p[d + 2] = m[c + 2]
            BY <4>2, <3>1 DEF Parted
          <5>2. m[m[c + 2]] = USED
            BY <5>1, <3>3, <1>3 DEF NoFreePair
          <5>3. m[c + 2] \in S
            BY <5>1, <3>3, <1>3, LinkedWords
          <5> QED BY <5>1, <5>2, <5>3, <3>2
        <4> QED BY <3>1, <4>1, <4>2
      <3> QED BY <3>1, <3>2, <3>3, <1>2 DEF Parted
    <2>2. CASE ~(len >= r + 8)
      <3>1. p = m /\ T = S
        BY <2>2, <1>5
      <3> QED BY <3>1, <1>3, <1>1, <1>4 DEF NoFreePair
    <2> QED BY <2>1, <2>2
  <1>7. PICK q : q = [p EXCEPT ![c] = USED]
    OBVIOUS
  <1>8. /\ Linked(q, T, e) /\ q[c] = USED
        /\ \A d \in T : (d # c => q[d] = p[d]) /\ q[d + 1] = p[d + 1] /\ q[d + 2] = p[d + 2]
    <2>1. PICK s : s = USED /\ Marked(p, q, c, s)
      BY <1>7 DEF Marked
    <2>2. /\ Linked(q, T, e) /\ q[c] = s
          /\ \A d \in T : /\ d # c => q[d] = p[d]
                          /\ q[d + 1] = p[d + 1] /\ q[d + 2] = p[d + 2] /\ q[d + 3] = p[d + 3]
      BY <2>1, <1>6, MarkLinked
    <2> QED BY <2>1, <2>2
  <1>9. TakeChunk(m, c, Required(size)) = q
    <2>1. SplitFrom(r) = r + 8
      BY <1>2 DEF SplitFrom, MIN_SPLIT, HEADER
    <2> QED BY <2>1, <1>1, <1>5, <1>7 DEF TakeChunk, length
  <1>10. PICK m1 : m1 = Filled(q, c + HEADER, size, clear)
    OBVIOUS
  <1>11. /\ Linked(m1, T, e)
         /\ \A d \in T : m1[d] = q[d] /\ m1[d + 1] = q[d + 1] /\ m1[d + 2] = q[d + 2]
    <2>1. size + 4 <= q[c + 1]
      <3>1. PICK k : k = p[c + 1] /\ k \in Nat /\ q[c + 1] = k
        BY <1>6, <1>8, LinkedWords
      <3> QED BY <3>1, <1>2, <1>6
    <2> QED BY <2>1, <1>2, <1>6, <1>8, <1>10, FillKeeps
  <1>12. NoFreePair(m1, T)
    <2> SUFFICES ASSUME NEW d \in T, m1[d] = FREE, m1[d + 2] # 0
                 PROVE  m1[m1[d + 2]] = USED
      BY DEF NoFreePair
    <2>1. d # c
      BY <1>6, <1>8, <1>11 DEF FREE, USED
    <2>2. p[d] = FREE /\ p[d + 2] = m1[d + 2] /\ p[d + 2] # 0
      BY <2>1, <1>8, <1>11
    <2>3. p[p[d + 2]] = USED \/ p[d + 2] = c
      BY <2>1, <2>2, <1>6
    <2>4. p[d + 2] \in T
      BY <2>2, <1>6, LinkedWords
    <2>5. PICK t \in T : t = p[d + 2]
      BY <2>4
    <2>6. m1[t] = USED
      BY <2>3, <2>5, <1>8, <1>11
    <2> QED BY <2>2, <2>5, <2>6
  <1>13. UsedChunks(m1, T) = UsedChunks(m, S) \cup {c}
    <2>1. \A d \in T : d # c => m1[d] = p[d]
      BY <1>8, <1>11
    <2>2. m1[c] = USED
      BY <1>6, <1>8, <1>11
    <2>3. \A d \in T : d # c => (m1[d] = USED <=> d \in S /\ m[d] = USED)
      BY <2>1, <1>6 DEF FREE, USED
    <2> QED BY <2>2, <2>3, <1>6 DEF UsedChunks
  <1>14. c \notin UsedChunks(m, S)
    BY DEF UsedChunks, FREE, USED
  <1>15. \A d \in UsedChunks(m, S) : m1[d + 1] = m[d + 1]
    BY <1>14, <1>6, <1>8, <1>11 DEF UsedChunks
  <1>16. size <= m1[c + 1] - 4
    <2>1. PICK k : k = p[c + 1] /\ k \in Nat /\ m1[c + 1] = k
      BY <1>6, <1>8, <1>11, LinkedWords
    <2> QED BY <2>1, <1>2, <1>6
  <1>17. BlocksMatch(m1, T, l \cup {[ptr |-> c + HEADER, size |-> size]})
    BY <1>3, <1>4, <1>13, <1>14, <1>15, <1>16, BlocksAdd
  <1> QED BY <1>9, <1>10, <1>11, <1>12, <1>17 DEF GoodHeap

\* Freed, for any memory.
FreedIn(m, c) ==
    LET m0 == [m EXCEPT ![c] = FREE]
        first == kmerge_next(m0, prev(m0, c))
    IN  IF first.faulted THEN first ELSE kmerge_next(first.mem, c)

\* Freeing a used chunk keeps the heap sound, unless both neighbours are free.
LEMMA FreeKeeps ==
    ASSUME NEW m, NEW S, NEW e, NEW l, GoodHeap(m, S, e, l), NEW c \in S, m[c] = USED,
           ~(/\ m[c + 3] # 0 /\ m[m[c + 3]] = FREE
             /\ m[c + 2] # 0 /\ m[m[c + 2]] = FREE),
           NEW l1, l1 = {b \in l : b.ptr # c + HEADER}
    PROVE  /\ ~FreedIn(m, c).faulted
           /\ \E S1 : GoodHeap(FreedIn(m, c).mem, S1, e, l1)
  <1>1. Linked(m, S, e) /\ NoFreePair(m, S) /\ BlocksMatch(m, S, l)
    BY DEF GoodHeap
  <1>2. BASE \in S /\ S \subseteq BASE .. (e - 4) /\ e \in Nat /\ DOMAIN m = BASE .. (e - 1)
        /\ BASE \in Nat \ {0}
    BY <1>1, KmallocAssumption DEF Linked, HEADER
  <1>3. PICK k : k = [m EXCEPT ![c] = FREE]
    OBVIOUS
  <1>4. /\ Linked(k, S, e) /\ k[c] = FREE
        /\ \A d \in S : /\ d # c => k[d] = m[d]
                        /\ k[d + 1] = m[d + 1] /\ k[d + 2] = m[d + 2] /\ k[d + 3] = m[d + 3]
    <2>1. PICK s : s = FREE /\ Marked(m, k, c, s)
      BY <1>3 DEF Marked
    <2>2. /\ Linked(k, S, e) /\ k[c] = s
          /\ \A d \in S : /\ d # c => k[d] = m[d]
                          /\ k[d + 1] = m[d + 1] /\ k[d + 2] = m[d + 2] /\ k[d + 3] = m[d + 3]
      BY <2>1, <1>1, MarkLinked
    <2> QED BY <2>1, <2>2
  <1>5. PICK p, n : p = k[c + 3] /\ n = k[c + 2] /\ p = m[c + 3] /\ n = m[c + 2]
    BY <1>4
  <1>6. /\ c \in Nat /\ c # 0 /\ k[c + 1] \in Nat /\ k[c + 1] >= 4
        /\ n = 0 \/ (n \in S /\ k[n + 3] = c /\ n = c + k[c + 1])
        /\ c = BASE => p = 0
        /\ c # BASE => p \in S /\ p + k[p + 1] = c
    <2>1. /\ c \in Nat /\ k[c + 1] \in Nat /\ k[c + 1] >= 4
          /\ c + k[c + 1] = e => k[c + 2] = 0
          /\ c + k[c + 1] # e => k[c + 2] = c + k[c + 1] /\ k[c + 2] \in S /\ k[k[c + 2] + 3] = c
          /\ c = BASE => k[c + 3] = 0
          /\ c # BASE => k[c + 3] \in S /\ k[c + 3] + k[k[c + 3] + 1] = c
      BY <1>4, LinkedWords
    <2>2. c # 0
      BY <1>2
    <2> QED BY <2>1, <2>2, <1>5
  <1>7. ASSUME NEW d \in S PROVE Readable(k, d) /\ d # NULL /\ Readable(m, d)
    <2>1. DOMAIN k = BASE .. (e - 1)
      BY <1>4 DEF Linked
    <2> QED BY <1>2, <2>1 DEF Readable, NULL
  <1>8. n # c /\ (p # 0 => p # c)
    <2>1. n # c
      BY <1>6
    <2>2. ASSUME p # 0 PROVE p # c
      <3>1. p \in S /\ p + k[p + 1] = c
        BY <2>2, <1>6
      <3>2. p \in Nat /\ k[p + 1] \in Nat /\ k[p + 1] >= 4
        BY <3>1, <1>4, LinkedWords
      <3> QED BY <3>1, <3>2, <1>6
    <2> QED BY <2>1, <2>2
  <1>9. p # 0 => p \in S /\ k[p + 2] = c
    <2> SUFFICES ASSUME p # 0 PROVE p \in S /\ k[p + 2] = c
      OBVIOUS
    <2>1. p \in S /\ p + k[p + 1] = c
      BY <1>6
    <2>2. p + k[p + 1] # e => k[p + 2] = p + k[p + 1]
      BY <2>1, <1>4, LinkedWords
    <2>3. c # e
      BY <1>2
    <2> QED BY <2>1, <2>2, <2>3
  <1>10. ASSUME NEW d \in S, d # c, k[d] = FREE, k[d + 2] # 0, k[d + 2] # c
         PROVE  k[d + 2] \in S /\ k[k[d + 2]] = USED
    <2>1. m[d] = FREE /\ m[d + 2] = k[d + 2]
      BY <1>4, <1>10
    <2>2. m[m[d + 2]] = USED
      BY <2>1, <1>10, <1>1 DEF NoFreePair
    <2>3. m[d + 2] \in S
      BY <2>1, <1>10, <1>1, LinkedWords
    <2> QED BY <2>1, <2>2, <2>3, <1>4, <1>10
  <1>11. CASE p # 0 /\ k[p] = FREE
    <2>1. n = 0 \/ (n \in S /\ k[n] = USED)
      <3> SUFFICES ASSUME n # 0 PROVE n \in S /\ k[n] = USED
        OBVIOUS
      <3>1. n \in S /\ k[n] = m[n]
        BY <1>4, <1>6, <1>8
      <3>2. m[p] = FREE
        BY <1>11, <1>8, <1>9, <1>4
      <3>3. m[n] # FREE /\ m[n] \in {FREE, USED}
        BY <1>11, <1>5, <3>1, <3>2, <1>1, LinkedWords
      <3> QED BY <3>1, <3>3
    <2>2. PICK j : j = kmerge_next(k, p).mem
      OBVIOUS
    <2>3. ~kmerge_next(k, p).faulted /\ Joined(k, j, S, e, p, c)
      <3>1. p \in S /\ c = next(k, p) /\ state(k, p) = FREE /\ state(k, c) = FREE
        BY <1>4, <1>9, <1>11 DEF next, state
      <3> QED BY <2>2, <3>1, <1>4, MergeJoins
    <2>4. /\ Linked(j, S \ {c}, e)
          /\ j[p + 2] = n /\ j[c + 2] = n
          /\ \A d \in S : j[d] = k[d]
          /\ \A d \in S \ {p} : j[d + 1] = k[d + 1] /\ j[d + 2] = k[d + 2]
      BY <2>3, <1>5, <1>8, <1>11 DEF Joined
    <2>5. kmerge_next(j, c) = Ok(j)
      <3>1. DOMAIN j = BASE .. (e - 1)
        BY <2>4 DEF Linked
      <3>2. Readable(j, c)
        BY <3>1, <1>2 DEF Readable
      <3>3. next(j, c) = NULL \/ (next(j, c) \in S \ {c} /\ state(j, next(j, c)) = USED)
        BY <2>1, <2>4, <1>8 DEF next, state, NULL
      <3> QED BY <2>4, <3>2, <3>3, MergeNothing
    <2>6. FreedIn(m, c) = Ok(j)
      BY <2>2, <2>3, <2>5, <1>3, <1>5 DEF FreedIn, prev
    <2>7. NoFreePair(j, S \ {c})
      <3> SUFFICES ASSUME NEW d \in S \ {c}, j[d] = FREE, j[d + 2] # 0
                   PROVE  j[j[d + 2]] = USED
        BY DEF NoFreePair
      <3>1. CASE d = p
        BY <3>1, <2>1, <2>4
      <3>2. CASE d # p
        <4>1. k[d] = FREE /\ k[d + 2] = j[d + 2]
          BY <3>2, <2>4
        <4>2. k[d + 2] # c
          <5>1. k[d + 2] # 0 => k[k[d + 2] + 3] = d
            BY <1>4, LinkedWords
          <5> QED BY <5>1, <4>1, <3>2, <1>5, <1>6
        <4>3. k[d + 2] \in S /\ k[k[d + 2]] = USED
          BY <4>1, <4>2, <1>10
        <4> QED BY <4>1, <4>3, <2>4
      <3> QED BY <3>1, <3>2
    <2>8. UsedChunks(j, S \ {c}) = UsedChunks(m, S) \ {c}
      BY <2>4, <1>4 DEF UsedChunks
    <2>9. \A d \in UsedChunks(j, S \ {c}) : j[d + 1] = m[d + 1]
      <3>1. \A d \in UsedChunks(j, S \ {c}) : d \in S /\ d # p
        BY <2>4, <1>11, <1>9 DEF UsedChunks, FREE, USED
      <3> QED BY <3>1, <2>4, <1>4
    <2>10. BlocksMatch(j, S \ {c}, {b \in l : b.ptr # c + HEADER})
      <3>1. PICK T : T = S \ {c}
        OBVIOUS
      <3>2. UsedChunks(j, T) = UsedChunks(m, S) \ {c} /\ \A d \in UsedChunks(j, T) : j[d + 1] = m[d + 1]
        BY <3>1, <2>8, <2>9
      <3>3. BlocksMatch(j, T, {b \in l : b.ptr # c + HEADER})
        BY <3>2, <1>1, <1>6, BlocksDrop
      <3> QED BY <3>1, <3>3
    <2>11. FreedIn(m, c).mem = j /\ ~FreedIn(m, c).faulted
      BY <2>6 DEF Ok
    <2> QED BY <2>4, <2>7, <2>10, <2>11 DEF GoodHeap
  <1>12. CASE ~(p # 0 /\ k[p] = FREE)
    <2>1. kmerge_next(k, p) = Ok(k)
      <3>1. CASE p = 0
        BY <3>1 DEF kmerge_next, NULL
      <3>2. CASE p # 0
        <4>1. p \in S /\ k[p] # FREE
          BY <3>2, <1>9, <1>12
        <4> QED BY <4>1, <1>7 DEF kmerge_next, state
      <3> QED BY <3>1, <3>2
    <2>2. FreedIn(m, c) = kmerge_next(k, c)
      <3>1. ~kmerge_next(k, p).faulted /\ kmerge_next(k, p).mem = k
        BY <2>1 DEF Ok
      <3> QED BY <3>1, <1>3, <1>5 DEF FreedIn, prev
    <2>3. CASE n # 0 /\ k[n] = FREE
      <3>1. PICK j : j = kmerge_next(k, c).mem
        OBVIOUS
      <3>2. ~kmerge_next(k, c).faulted /\ Joined(k, j, S, e, c, n)
        <4>1. n \in S /\ n = next(k, c) /\ state(k, c) = FREE /\ state(k, n) = FREE
          BY <1>4, <1>5, <1>6, <2>3 DEF next, state
        <4> QED BY <3>1, <4>1, <1>4, MergeJoins
      <3>3. /\ Linked(j, S \ {n}, e)
            /\ j[c + 2] = k[n + 2]
            /\ \A d \in S : j[d] = k[d]
            /\ \A d \in S \ {c} : j[d + 1] = k[d + 1] /\ j[d + 2] = k[d + 2]
        BY <3>2 DEF Joined
      <3>4. NoFreePair(j, S \ {n})
        <4> SUFFICES ASSUME NEW d \in S \ {n}, j[d] = FREE, j[d + 2] # 0
                     PROVE  j[j[d + 2]] = USED
          BY DEF NoFreePair
        <4>1. CASE d = c
          <5>1. k[n + 2] # 0 /\ n \in S /\ n # c
            BY <4>1, <3>3, <2>3, <1>6, <1>8
          <5>2. k[n + 2] # c
            <6>1. k[n + 2] = n + k[n + 1] /\ n \in Nat /\ k[n + 1] \in Nat
              BY <5>1, <1>4, LinkedWords
            <6> QED BY <6>1, <2>3, <1>6
          <5>3. k[n + 2] \in S /\ k[k[n + 2]] = USED
            BY <5>1, <5>2, <2>3, <1>10
          <5> QED BY <5>3, <4>1, <3>3
        <4>2. CASE d # c
          <5>1. k[d] = FREE /\ k[d + 2] = j[d + 2]
            BY <4>2, <3>3
          <5>2. k[d + 2] # c
            <6> SUFFICES ASSUME k[d + 2] = c PROVE FALSE
              OBVIOUS
            <6>1. k[k[d + 2] + 3] = d
              BY <5>1, <1>4, LinkedWords
            <6>2. d = p
              BY <6>1, <1>5
            <6> QED BY <6>2, <5>1, <1>12, <1>2
          <5>3. k[d + 2] \in S /\ k[k[d + 2]] = USED
            BY <5>1, <5>2, <4>2, <1>10
          <5> QED BY <5>1, <5>3, <3>3
        <4> QED BY <4>1, <4>2
      <3>5. UsedChunks(j, S \ {n}) = UsedChunks(m, S) \ {c}
        BY <3>3, <2>3, <1>4, <1>8 DEF UsedChunks, FREE, USED
      <3>6. \A d \in UsedChunks(j, S \ {n}) : j[d + 1] = m[d + 1]
        <4>1. \A d \in UsedChunks(j, S \ {n}) : d \in S /\ d # c
          BY <3>5 DEF UsedChunks
        <4> QED BY <4>1, <3>3, <1>4
      <3>7. BlocksMatch(j, S \ {n}, {b \in l : b.ptr # c + HEADER})
        <4>1. PICK T : T = S \ {n}
          OBVIOUS
        <4>2. UsedChunks(j, T) = UsedChunks(m, S) \ {c} /\ \A d \in UsedChunks(j, T) : j[d + 1] = m[d + 1]
          BY <4>1, <3>5, <3>6
        <4>3. BlocksMatch(j, T, {b \in l : b.ptr # c + HEADER})
          BY <4>2, <1>1, <1>6, BlocksDrop
        <4> QED BY <4>1, <4>3
      <3> QED BY <3>1, <3>2, <3>3, <3>4, <3>7, <2>2 DEF GoodHeap
    <2>4. CASE ~(n # 0 /\ k[n] = FREE)
      <3>1. n = 0 \/ (n \in S /\ k[n] = USED)
        BY <2>4, <1>4, <1>6, LinkedWords
      <3>2. kmerge_next(k, c) = Ok(k)
        <4>1. Readable(k, c) /\ (next(k, c) = NULL \/ (next(k, c) \in S /\ state(k, next(k, c)) = USED))
          BY <3>1, <1>5, <1>7 DEF next, state, NULL
        <4> QED BY <4>1, <1>4, MergeNothing
      <3>3. NoFreePair(k, S)
        <4> SUFFICES ASSUME NEW d \in S, k[d] = FREE, k[d + 2] # 0
                     PROVE  k[k[d + 2]] = USED
          BY DEF NoFreePair
        <4>1. CASE d = c
          BY <4>1, <3>1, <1>5
        <4>2. CASE d # c
          <5>1. k[d + 2] # c
            <6> SUFFICES ASSUME k[d + 2] = c PROVE FALSE
              OBVIOUS
            <6>1. k[k[d + 2] + 3] = d
              BY <1>4, LinkedWords
            <6>2. d = p
              BY <6>1, <1>5
            <6> QED BY <6>2, <1>12, <1>2
          <5> QED BY <5>1, <4>2, <1>10
        <4> QED BY <4>1, <4>2
      <3>4. UsedChunks(k, S) = UsedChunks(m, S) \ {c}
        BY <1>4 DEF UsedChunks, FREE, USED
      <3>5. \A d \in UsedChunks(k, S) : k[d + 1] = m[d + 1]
        BY <1>4 DEF UsedChunks
      <3>6. BlocksMatch(k, S, {b \in l : b.ptr # c + HEADER})
        BY <3>4, <3>5, <1>1, <1>6, BlocksDrop
      <3>7. FreedIn(m, c).mem = k /\ ~FreedIn(m, c).faulted
        BY <2>2, <3>2 DEF Ok
      <3> QED BY <3>3, <3>6, <3>7, <1>4 DEF GoodHeap
    <2> QED BY <2>3, <2>4
  <1> QED BY <1>11, <1>12

\* The chunk kmalloc takes is a free one that is large enough.
LEMMA FirstFitFits ==
    ASSUME NEW m, NEW S, NEW e, Linked(m, S, e), NEW r, NEW c \in FirstFit(m, BASE, r)
    PROVE  c \in S /\ m[c] = FREE /\ m[c + 1] >= r
  BY ListIsChunks DEF FirstFit, state, length

\* The clients' blocks lie within the heap.
LEMMA BlocksInside ==
    ASSUME NEW m, NEW S, NEW e, NEW l, GoodHeap(m, S, e, l)
    PROVE  l \subseteq [ptr : BASE .. (e - 1), size : Sizes]
  <1> SUFFICES ASSUME NEW b \in l PROVE b \in [ptr : BASE .. (e - 1), size : Sizes]
    OBVIOUS
  <1>1. Linked(m, S, e) /\ BlocksMatch(m, S, l)
    BY DEF GoodHeap
  <1>2. b \in [ptr : Nat, size : Sizes \ {0}] /\ b.ptr \in Nat /\ b.size \in Sizes \ {0}
    BY <1>1 DEF BlocksMatch
  <1>3. PICK c \in S : c = b.ptr - HEADER /\ b.size <= m[c + 1] - HEADER
    BY <1>1 DEF BlocksMatch, UsedChunks
  <1>4. c \in Nat /\ c >= BASE /\ BASE \in Nat /\ m[c + 1] \in Nat /\ c + m[c + 1] <= e /\ e \in Nat
    BY <1>1, LinkedWords
  <1>5. b.size \in Nat \ {0}
    BY <1>2, KmallocAssumption
  <1>6. b.ptr \in BASE .. (e - 1)
    BY <1>2, <1>3, <1>4, <1>5 DEF HEADER
  <1> QED BY <1>2, <1>6

\* kmalloc_grow's first pages: one free chunk.
LEMMA FirstGrowth ==
    ASSUME head = NULL, next_virt = BASE, DOMAIN mem = {}, NEW words \in Nat, words >= 4
    PROVE  \E S : GoodHeap(Appended(words), S, BASE + words, {})
  <1>1. BASE \in Nat \ {0}
    BY KmallocAssumption
  <1>2. PICK e : e = BASE + words
    OBVIOUS
  <1> DEFINE D == BASE .. (e - 1)
             k0 == [w \in D |-> 0]
             k1 == [k0 EXCEPT ![BASE] = FREE]
             k2 == [k1 EXCEPT ![BASE + 1] = words]
             k3 == [k2 EXCEPT ![BASE + 2] = 0]
             k4 == [k3 EXCEPT ![BASE + 3] = 0]
  <1>3. e \in Nat /\ e >= BASE + 4 /\ {BASE, BASE + 1, BASE + 2, BASE + 3} \subseteq D /\ e - BASE = words
    BY <1>1, <1>2
  <1>4. Extended(words) = k0
    <2>1. next_virt .. (next_virt + words - 1) = D
      BY <1>1, <1>2
    <2> QED BY <2>1 DEF Extended
  <1>5. Appended(words) = k4
    BY <1>4 DEF Appended, WriteHeader, NULL
  <1> HIDE DEF D
  <1>6. k0 \in [D -> Int] /\ \A u \in D : k0[u] = 0
    OBVIOUS
  <1> HIDE DEF k0
  <1>7. k1 \in [D -> Int] /\ k1[BASE] = FREE /\ \A u \in D : u # BASE => k1[u] = k0[u]
    BY <1>3, <1>6, PutWord DEF FREE
  <1> HIDE DEF k1
  <1>8. k2 \in [D -> Int] /\ k2[BASE + 1] = words /\ \A u \in D : u # BASE + 1 => k2[u] = k1[u]
    BY <1>3, <1>7, PutWord
  <1> HIDE DEF k2
  <1>9. k3 \in [D -> Int] /\ k3[BASE + 2] = 0 /\ \A u \in D : u # BASE + 2 => k3[u] = k2[u]
    BY <1>3, <1>8, PutWord
  <1> HIDE DEF k3
  <1>10. k4 \in [D -> Int] /\ k4[BASE + 3] = 0 /\ \A u \in D : u # BASE + 3 => k4[u] = k3[u]
    BY <1>3, <1>9, PutWord
  <1> HIDE DEF k4
  <1>11. BASE + 1 # BASE /\ BASE + 2 # BASE /\ BASE + 3 # BASE /\ BASE + 1 # BASE + 2
         /\ BASE + 1 # BASE + 3 /\ BASE + 2 # BASE + 3
    BY <1>1
  <1>12. k4[BASE] = FREE /\ k4[BASE + 1] = words /\ k4[BASE + 2] = 0 /\ k4[BASE + 3] = 0
    BY <1>3, <1>7, <1>8, <1>9, <1>10, <1>11
  <1>13. ASSUME NEW w \in D, w # BASE PROVE k4[w] >= 0
    <2>1. k4[w] = 0 \/ k4[w] = words
      <3>1. k1[w] = 0
        BY <1>13, <1>6, <1>7
      <3>2. k2[w] = 0 \/ k2[w] = words
        BY <3>1, <1>8
      <3>3. k3[w] = 0 \/ k3[w] = words
        BY <3>2, <1>9
      <3> QED BY <3>3, <1>10
    <2> QED BY <2>1
  <1>14. Linked(k4, {BASE}, e)
    BY <1>3, <1>10, <1>12, <1>13, FirstChunk DEF D
  <1>15. NoFreePair(k4, {BASE})
    BY <1>12 DEF NoFreePair
  <1>16. BlocksMatch(k4, {BASE}, {})
    <2>1. UsedChunks(k4, {BASE}) = {}
      BY <1>12 DEF UsedChunks, FREE, USED
    <2> QED BY <2>1 DEF BlocksMatch
  <1> QED BY <1>2, <1>5, <1>14, <1>15, <1>16 DEF GoodHeap

\* The words of the heap with the new chunk linked behind last, before
\* kmalloc_grow merges.
LEMMA GrowthWords ==
    ASSUME NEW m, NEW S, NEW e, Linked(m, S, e), NEW last \in S,
           NEW words \in Nat, words >= 4,
           NEW x, x = [w \in DOMAIN m \cup e .. (e + words - 1) |-> IF w \in DOMAIN m THEN m[w] ELSE 0],
           NEW g, g = [WriteHeader(x, e, FREE, words, NULL, last) EXCEPT ![last + 2] = e]
    PROVE  Lengthened(m, g, e, last, words)
  <1> DEFINE D == BASE .. (e + words - 1)
             k1 == [x EXCEPT ![e] = FREE]
             k2 == [k1 EXCEPT ![e + 1] = words]
             k3 == [k2 EXCEPT ![e + 2] = 0]
             k4 == [k3 EXCEPT ![e + 3] = last]
             k5 == [k4 EXCEPT ![last + 2] = e]
  <1>1. S \subseteq BASE .. (e - 4) /\ e \in Nat /\ DOMAIN m = BASE .. (e - 1)
        /\ m \in [BASE .. (e - 1) -> Int] /\ BASE \in Nat \ {0}
    BY KmallocAssumption DEF Linked, HEADER
  <1>2. last \in Nat /\ last >= BASE /\ last + 4 <= e
    BY <1>1
  <1>3. BASE .. (e - 1) \cup e .. (e + words - 1) = D
    BY <1>1, <1>2
  <1>4. x \in [D -> Int] /\ \A u \in D : x[u] = IF u \in BASE .. (e - 1) THEN m[u] ELSE 0
    <2>1. x = [w \in D |-> IF w \in BASE .. (e - 1) THEN m[w] ELSE 0]
      BY <1>1, <1>3
    <2> HIDE DEF D
    <2> QED BY <2>1, <1>1
  <1>5. {e, e + 1, e + 2, e + 3, last + 2} \subseteq D
    BY <1>1, <1>2
  <1>6. g = k5
    BY DEF WriteHeader, NULL
  <1> HIDE DEF D
  <1>7. k1 \in [D -> Int] /\ k1[e] = FREE /\ \A u \in D : u # e => k1[u] = x[u]
    BY <1>4, <1>5, PutWord DEF FREE
  <1> HIDE DEF k1
  <1>8. k2 \in [D -> Int] /\ k2[e + 1] = words /\ \A u \in D : u # e + 1 => k2[u] = k1[u]
    BY <1>5, <1>7, PutWord
  <1> HIDE DEF k2
  <1>9. k3 \in [D -> Int] /\ k3[e + 2] = 0 /\ \A u \in D : u # e + 2 => k3[u] = k2[u]
    BY <1>5, <1>8, PutWord
  <1> HIDE DEF k3
  <1>10. k4 \in [D -> Int] /\ k4[e + 3] = last /\ \A u \in D : u # e + 3 => k4[u] = k3[u]
    BY <1>2, <1>5, <1>9, PutWord
  <1> HIDE DEF k4
  <1>11. k5 \in [D -> Int] /\ k5[last + 2] = e /\ \A u \in D : u # last + 2 => k5[u] = k4[u]
    BY <1>1, <1>5, <1>10, PutWord
  <1> HIDE DEF k5
  <1>12. /\ e + 1 # e /\ e + 2 # e /\ e + 3 # e /\ e + 1 # e + 2 /\ e + 1 # e + 3 /\ e + 2 # e + 3
         /\ last + 2 # e /\ last + 2 # e + 1 /\ last + 2 # e + 2 /\ last + 2 # e + 3
    BY <1>1, <1>2
  <1>13. k5[e] = FREE /\ k5[e + 1] = words /\ k5[e + 2] = 0 /\ k5[e + 3] = last
    BY <1>5, <1>7, <1>8, <1>9, <1>10, <1>11, <1>12
  <1>14. ASSUME NEW w \in D, w \notin {e, e + 1, e + 2, e + 3, last + 2} PROVE k5[w] = x[w]
    <2>1. w # e /\ w # e + 1 /\ w # e + 2 /\ w # e + 3 /\ w # last + 2
      BY <1>14
    <2>2. k2[w] = x[w]
      BY <2>1, <1>7, <1>8
    <2>3. k4[w] = k2[w]
      BY <2>1, <1>9, <1>10
    <2> QED BY <2>1, <2>2, <2>3, <1>11
  <1>15. ASSUME NEW w \in BASE .. (e - 1), w # last + 2 PROVE k5[w] = m[w]
    <2>1. w \in D /\ w \notin {e, e + 1, e + 2, e + 3, last + 2}
      <3>1. w \in D
        BY <1>3
      <3>2. w \notin {e, e + 1, e + 2, e + 3, last + 2}
        BY <1>15, <1>1
      <3> QED BY <3>1, <3>2
    <2> QED BY <2>1, <1>14, <1>4
  <1>16. ASSUME NEW w \in (e + 4) .. (e + words - 1) PROVE k5[w] = 0
    <2>1. w \in D /\ w \notin {e, e + 1, e + 2, e + 3, last + 2} /\ w \notin BASE .. (e - 1)
      BY <1>1, <1>2 DEF D
    <2> QED BY <2>1, <1>14, <1>4
  <1> QED BY <1>6, <1>11, <1>13, <1>15, <1>16 DEF Lengthened, D

\* A new chunk behind a sound heap, merged with a free last chunk.
LEMMA GrowthKeeps ==
    ASSUME NEW m, NEW S, NEW e, NEW l, GoodHeap(m, S, e, l), NEW last \in S, m[last + 2] = 0,
           NEW words \in Nat, words >= 4, NEW g, Lengthened(m, g, e, last, words)
    PROVE  \E T : GoodHeap(kmerge_next(g, last).mem, T, e + words, l)
  <1>1. Linked(m, S, e) /\ NoFreePair(m, S) /\ BlocksMatch(m, S, l)
    BY DEF GoodHeap
  <1>2. BASE \in S /\ S \subseteq BASE .. (e - 4) /\ e \in Nat /\ DOMAIN m = BASE .. (e - 1)
        /\ BASE \in Nat \ {0}
    BY <1>1, KmallocAssumption DEF Linked, HEADER
  <1>6. /\ Linked(g, S \cup {e}, e + words)
        /\ \A d \in S : g[d] = m[d] /\ g[d + 1] = m[d + 1] /\ (d # last => g[d + 2] = m[d + 2])
    BY <1>1, AppendLinks
  <1>7. g[e] = FREE /\ g[e + 2] = 0 /\ g[last + 2] = e
    BY DEF Lengthened
  <1>9. ASSUME NEW d \in S, m[d] = FREE, m[d + 2] # 0
        PROVE  m[d + 2] \in S /\ m[m[d + 2]] = USED
    BY <1>1, <1>9, LinkedWords DEF NoFreePair
  <1>10. e \notin S /\ e # 0 /\ last # NULL
    BY <1>2 DEF NULL
  <1>11. CASE m[last] = FREE
    <2>1. PICK j, T, z : j = kmerge_next(g, last).mem /\ T = S \cup {e} /\ z = e + words
      OBVIOUS
    <2>2. Joined(g, j, T, z, last, e)
      <3>1. last \in T /\ e \in T /\ e = next(g, last) /\ state(g, last) = FREE /\ state(g, e) = FREE
        BY <2>1, <1>6, <1>7, <1>11 DEF next, state
      <3>2. Linked(g, T, z)
        BY <2>1, <1>6
      <3> QED BY <3>1, <3>2, <2>1, MergeJoins
    <2>3. T \ {e} = S
      BY <2>1, <1>10
    <2>4. /\ Linked(j, S, z) /\ j[last + 2] = 0
          /\ \A d \in S : j[d] = m[d] /\ (d # last => j[d + 1] = m[d + 1] /\ j[d + 2] = m[d + 2])
      BY <2>1, <2>2, <2>3, <1>6, <1>7 DEF Joined
    <2>5. NoFreePair(j, S)
      <3> SUFFICES ASSUME NEW d \in S, j[d] = FREE, j[d + 2] # 0
                   PROVE  j[j[d + 2]] = USED
        BY DEF NoFreePair
      <3>1. m[d] = FREE /\ j[d + 2] = m[d + 2]
        BY <2>4
      <3> QED BY <3>1, <2>4, <1>9
    <2>6. UsedChunks(j, S) = UsedChunks(m, S)
      BY <2>4 DEF UsedChunks
    <2>7. \A d \in UsedChunks(m, S) : j[d + 1] = m[d + 1]
      BY <2>4, <1>11 DEF UsedChunks, FREE, USED
    <2>8. BlocksMatch(j, S, l)
      <3>1. \A b \in l : b.ptr - HEADER \in UsedChunks(m, S)
        BY <1>1 DEF BlocksMatch
      <3> QED BY <3>1, <2>6, <2>7, <1>1 DEF BlocksMatch
    <2> QED BY <2>1, <2>4, <2>5, <2>8 DEF GoodHeap
  <1>12. CASE m[last] # FREE
    <2>1. kmerge_next(g, last).mem = g
      <3>1. DOMAIN g = BASE .. (e + words - 1)
        BY DEF Lengthened
      <3>2. Readable(g, last)
        BY <3>1, <1>2 DEF Readable
      <3>3. kmerge_next(g, last) = Ok(g)
        BY <3>2, <1>6, <1>10, <1>12 DEF kmerge_next, state
      <3> QED BY <3>3 DEF Ok
    <2>2. NoFreePair(g, S \cup {e})
      <3> SUFFICES ASSUME NEW d \in S \cup {e}, g[d] = FREE, g[d + 2] # 0
                   PROVE  g[g[d + 2]] = USED
        BY DEF NoFreePair
      <3>1. d \in S /\ d # last
        BY <1>6, <1>7, <1>12
      <3>2. m[d] = FREE /\ g[d + 2] = m[d + 2]
        BY <3>1, <1>6
      <3> QED BY <3>1, <3>2, <1>6, <1>9
    <2>3. UsedChunks(g, S \cup {e}) = UsedChunks(m, S)
      BY <1>6, <1>7 DEF UsedChunks, FREE, USED
    <2>4. BlocksMatch(g, S \cup {e}, l)
      <3>1. \A b \in l : b.ptr - HEADER \in UsedChunks(m, S) /\ b.ptr - HEADER \in S
        BY <1>1 DEF BlocksMatch, UsedChunks
      <3> QED BY <3>1, <2>3, <1>6, <1>1 DEF BlocksMatch
    <2> QED BY <2>1, <2>2, <2>4, <1>6 DEF GoodHeap
  <1> QED BY <1>11, <1>12

\* More pages behind a sound heap, merged with a free last chunk.
LEMMA LaterGrowth ==
    ASSUME head = BASE, NEW m, m = mem, NEW S, NEW e, e = next_virt, NEW l, GoodHeap(m, S, e, l),
           NEW words \in Nat, words >= 4
    PROVE  \E T : GoodHeap(Appended(words), T, e + words, l)
  <1>1. Linked(m, S, e) /\ NoFreePair(m, S) /\ BlocksMatch(m, S, l)
    BY DEF GoodHeap
  <1>2. BASE \in S /\ S \subseteq BASE .. (e - 4) /\ e \in Nat /\ DOMAIN m = BASE .. (e - 1)
        /\ BASE \in Nat \ {0}
    BY <1>1, KmallocAssumption DEF Linked, HEADER
  <1>3. PICK last \in S : last = LastChunk /\ m[last + 2] = 0
    <2>1. ChunkList(mem, head) = S
      BY <1>1, ListIsChunks
    <2>2. \E c \in S : next(mem, c) = NULL
      BY <1>1, LastExists
    <2> QED BY <2>1, <2>2 DEF LastChunk, next, NULL
  <1>4. PICK g : g = [WriteHeader(Extended(words), e, FREE, words, NULL, last) EXCEPT ![last + 2] = e]
    OBVIOUS
  <1>5. Lengthened(m, g, e, last, words)
    <2>1. PICK x : x = Extended(words)
      OBVIOUS
    <2>2. x = [w \in DOMAIN m \cup e .. (e + words - 1) |-> IF w \in DOMAIN m THEN m[w] ELSE 0]
      BY <2>1 DEF Extended
    <2>3. g = [WriteHeader(x, e, FREE, words, NULL, last) EXCEPT ![last + 2] = e]
      BY <2>1, <1>4
    <2> HIDE <1>4
    <2> QED BY <2>2, <2>3, <1>1, GrowthWords
  <1>6. \E T : GoodHeap(kmerge_next(g, last).mem, T, e + words, l)
    BY <1>3, <1>5, GrowthKeeps
  <1>7. Appended(words) = kmerge_next(g, last).mem
    BY <1>2, <1>3, <1>4 DEF Appended, NULL
  <1> QED BY <1>6, <1>7

-----------------------------------------------------------------------------
(* The inductive invariant.                                                *)

\* Before the first growth there is nothing; afterwards vallocs goes on where
\* the heap ends.
Grown ==
    IF head = NULL THEN next_virt = BASE /\ live = {} /\ ~strayed /\ heap_start = 0
    ELSE heap_start = BASE /\ heap_end = next_virt

\* Until a kfree strays, the heap is sound.
Sound ==
    ~strayed => ~faulted /\ (head # NULL => GoodHeap(mem, Chunks, next_virt, live))

KInv == TypeOK /\ Grown /\ Sound

\* The heap starts empty.
LEMMA InitKInv == Init => KInv
  <1> SUFFICES ASSUME Init PROVE KInv
    OBVIOUS
  <1> USE DEF Init
  <1>1. BASE \in Nat /\ MaxWords \in Nat /\ MaxBlocks \in Nat
    BY KmallocAssumption
  <1>2. DOMAIN mem = BASE .. (next_virt - 1)
    <2>1. BASE .. (BASE - 1) = {}
      BY <1>1
    <2> QED BY <2>1
  <1>3. mem \in [DOMAIN mem -> Int] /\ live \subseteq [ptr : DOMAIN mem, size : Sizes]
    OBVIOUS
  <1>4. next_virt \in BASE .. (BASE + MaxWords) /\ blocks \in 0 .. MaxBlocks /\ heap_end \in Nat
    BY <1>1
  <1>5. TypeOK
    BY <1>2, <1>3, <1>4 DEF TypeOK
  <1> QED BY <1>5 DEF KInv, Grown, Sound

\* No operation changes which words are mapped.
LEMMA DomainsKept ==
    ASSUME NEW m, NEW c, NEW size, NEW clear, NEW r
    PROVE  /\ DOMAIN kmerge_next(m, c).mem = DOMAIN m /\ kmerge_next(m, c).faulted \in BOOLEAN
           /\ DOMAIN Filled(TakeChunk(m, c, r), c + HEADER, size, clear) = DOMAIN m
  <1>1. DOMAIN kmerge_next(m, c).mem = DOMAIN m /\ kmerge_next(m, c).faulted \in BOOLEAN
    BY DEF kmerge_next, Ok, Wild
  <1>2. DOMAIN ksplit(m, c, r) = DOMAIN m
    BY DEF ksplit, WriteHeader
  <1>3. DOMAIN TakeChunk(m, c, r) = DOMAIN m
    BY <1>2 DEF TakeChunk
  <1>4. DOMAIN Filled(TakeChunk(m, c, r), c + HEADER, size, clear) = DOMAIN m
    BY <1>3 DEF Filled
  <1> QED BY <1>1, <1>4

\* What is needed to know that a step keeps the invariant.
LEMMA KInvAfter ==
    ASSUME head' = BASE, heap_start' = BASE, heap_end' = next_virt',
           DOMAIN mem' = BASE .. (next_virt' - 1), next_virt' \in BASE .. (BASE + MaxWords),
           faulted' \in BOOLEAN, strayed' \in BOOLEAN, blocks' \in 0 .. MaxBlocks,
           ~strayed' => ~faulted' /\ \E S : GoodHeap(mem', S, next_virt', live')
    PROVE  KInv'
  <1>1. BASE \in Nat \ {0} /\ next_virt' \in Nat
    BY KmallocAssumption
  <1>2. ~strayed' => GoodHeap(mem', Chunks', next_virt', live')
    <2> SUFFICES ASSUME ~strayed' PROVE GoodHeap(mem', Chunks', next_virt', live')
      OBVIOUS
    <2>1. PICK m, S, e, l : m = mem' /\ e = next_virt' /\ l = live' /\ GoodHeap(m, S, e, l)
      OBVIOUS
    <2>2. ChunkList(m, BASE) = S
      BY <2>1, ListIsChunks DEF GoodHeap
    <2> QED BY <2>1, <2>2 DEF Chunks
  <1>3. ~strayed' => mem' \in [DOMAIN mem' -> Int] /\ live' \subseteq [ptr : DOMAIN mem', size : Sizes]
    <2> SUFFICES ASSUME ~strayed'
                 PROVE  mem' \in [DOMAIN mem' -> Int] /\ live' \subseteq [ptr : DOMAIN mem', size : Sizes]
      OBVIOUS
    <2>1. PICK m, S, e, l : m = mem' /\ e = next_virt' /\ l = live' /\ GoodHeap(m, S, e, l)
      OBVIOUS
    <2>2. m \in [DOMAIN m -> Int] /\ DOMAIN m = BASE .. (e - 1)
      BY <2>1 DEF GoodHeap, Linked
    <2>3. l \subseteq [ptr : BASE .. (e - 1), size : Sizes]
      BY <2>1, BlocksInside
    <2> QED BY <2>1, <2>2, <2>3
  <1>4. TypeOK'
    BY <1>1, <1>3 DEF TypeOK
  <1>5. Grown'
    BY <1>1 DEF Grown, NULL
  <1> QED BY <1>2, <1>4, <1>5 DEF KInv, Sound

\* Before the first growth the list is empty.
LEMMA NoChunksYet ==
    ASSUME head = NULL, DOMAIN mem = {}, NEW r
    PROVE  ChunkList(mem, head) = {} /\ FirstFit(mem, head, r) = {}
  <1>1. Room(mem) = 0
    <2>1. Cardinality(DOMAIN mem) = 0
      BY FS_EmptySet
    <2> QED BY <2>1 DEF Room, HEADER
  <1> DEFINE Rec(f) == [n \in 0 .. Room(mem) |->
                           IF n = 0 THEN head
                           ELSE IF f[n - 1] = NULL THEN NULL ELSE next(mem, f[n - 1])]
             g == [n \in 0 .. 0 |-> NULL]
  <1>2. g = Rec(g)
    BY <1>1
  <1>3. NthChunk(mem, head) = CHOOSE f : f = Rec(f)
    BY DEF NthChunk
  <1>4. NthChunk(mem, head) = Rec(NthChunk(mem, head))
    <2> HIDE DEF Rec, g
    <2> QED BY <1>2, <1>3
  <1>5. NthChunk(mem, head)[0] = NULL
    BY <1>4, <1>1
  <1>6. ChunkList(mem, head) = {}
    BY <1>1, <1>5 DEF ChunkList
  <1> QED BY <1>6 DEF FirstFit

\* kmalloc with a chunk that fits.
LEMMA KmallocKeeps ==
    ASSUME KInv, NEW size \in Sizes, NEW clear \in BOOLEAN, Kmalloc(size, clear)
    PROVE  KInv' /\ (~strayed => live' # live)
  <1> USE DEF KInv
  <1>1. head = BASE /\ BASE # NULL
    <2>1. head # NULL
      <3> SUFFICES ASSUME head = NULL PROVE FALSE
        OBVIOUS
      <3>1. DOMAIN mem = {}
        BY KmallocAssumption DEF TypeOK, Grown
      <3> QED BY <3>1, NoChunksYet DEF Kmalloc
    <2> QED BY <2>1 DEF TypeOK
  <1>2. PICK c \in FirstFit(mem, head, Required(size)) : Grant(mem, c, size, clear)
    BY DEF Kmalloc
  <1>3. PICK m, e, l : m = mem /\ e = next_virt /\ l = live
    OBVIOUS
  <1>4. PICK m1, l1 : /\ m1 = Filled(TakeChunk(m, c, Required(size)), c + HEADER, size, clear)
                      /\ l1 = l \cup {[ptr |-> c + HEADER, size |-> size]}
    OBVIOUS
  <1>5. mem' = m1 /\ live' = l1 /\ blocks' = blocks + 1 /\ blocks < MaxBlocks
    BY <1>2, <1>3, <1>4 DEF Grant
  <1>6. UNCHANGED <<next_virt, head, heap_start, heap_end, faulted, strayed>> /\ size # 0
    BY DEF Kmalloc
  <1>7. DOMAIN mem' = BASE .. (next_virt' - 1)
    <2>1. DOMAIN m1 = DOMAIN m
      BY <1>4, DomainsKept
    <2> QED BY <2>1, <1>3, <1>5, <1>6 DEF TypeOK
  <1>8. ASSUME ~strayed
        PROVE  (\E S : GoodHeap(m1, S, e, l1)) /\ l1 # l
    <2>1. PICK S : GoodHeap(m, S, e, l)
      BY <1>1, <1>3, <1>8 DEF Sound
    <2>2. Linked(m, S, e)
      BY <2>1 DEF GoodHeap
    <2>3. c \in FirstFit(m, BASE, Required(size))
      BY <1>1, <1>2, <1>3
    <2>4. c \in S /\ m[c] = FREE /\ m[c + 1] >= Required(size)
      BY <2>2, <2>3, FirstFitFits
    <2>5. \E S1 : GoodHeap(m1, S1, e, l1)
      BY <2>1, <2>4, <1>4, <1>6, GrantKeeps
    <2>6. l1 # l
      <3> SUFFICES ASSUME [ptr |-> c + HEADER, size |-> size] \in l PROVE FALSE
        BY <1>4
      <3>1. (c + HEADER) - HEADER \in UsedChunks(m, S)
        BY <2>1 DEF GoodHeap, BlocksMatch
      <3>2. c \in Nat
        BY <2>2, <2>4, LinkedWords
      <3> QED BY <3>1, <3>2, <2>4 DEF UsedChunks, FREE, USED, HEADER
    <2> QED BY <2>5, <2>6
  <1>9. KInv'
    <2>1. head' = BASE /\ heap_start' = BASE /\ heap_end' = next_virt' /\ blocks' \in 0 .. MaxBlocks
      BY <1>1, <1>5, <1>6, KmallocAssumption DEF Grown, TypeOK
    <2>2. next_virt' \in BASE .. (BASE + MaxWords) /\ faulted' \in BOOLEAN /\ strayed' \in BOOLEAN
      BY <1>6 DEF TypeOK
    <2>3. ~strayed' => ~faulted' /\ \E S : GoodHeap(mem', S, next_virt', live')
      BY <1>3, <1>5, <1>6, <1>8 DEF Sound
    <2> QED BY <2>1, <2>2, <2>3, <1>7, KInvAfter
  <1> QED BY <1>3, <1>5, <1>8, <1>9

\* kmalloc_grow writes to the old words and the new ones, and nowhere else.
LEMMA AppendedDomain ==
    ASSUME TypeOK, NEW words \in Nat
    PROVE  DOMAIN Appended(words) = BASE .. (next_virt + words - 1)
  <1>1. BASE \in Nat /\ next_virt \in Nat /\ BASE <= next_virt
    BY KmallocAssumption DEF TypeOK
  <1>2. DOMAIN Extended(words) = BASE .. (next_virt + words - 1)
    <2>1. DOMAIN Extended(words) = BASE .. (next_virt - 1) \cup next_virt .. (next_virt + words - 1)
      BY DEF TypeOK, Extended
    <2>2. BASE .. (next_virt - 1) \cup next_virt .. (next_virt + words - 1)
             = BASE .. (next_virt + words - 1)
      BY <1>1
    <2> QED BY <2>1, <2>2
  <1>3. CASE head = NULL
    BY <1>2, <1>3 DEF Appended, WriteHeader
  <1>4. CASE head # NULL
    <2>1. PICK last, x : last = LastChunk /\ x = Extended(words)
      OBVIOUS
    <2>2. PICK g : g = [WriteHeader(x, next_virt, FREE, words, NULL, last) EXCEPT ![last + 2] = next_virt]
      OBVIOUS
    <2>3. DOMAIN g = DOMAIN x
      BY <2>2 DEF WriteHeader
    <2>4. Appended(words) = kmerge_next(g, last).mem
      BY <1>4, <2>1, <2>2 DEF Appended
    <2>5. DOMAIN kmerge_next(g, last).mem = DOMAIN g
      BY DomainsKept
    <2> QED BY <2>1, <2>3, <2>4, <2>5, <1>2
  <1> QED BY <1>3, <1>4

\* kmalloc that has to grow the heap: vallocs always goes on where it ends.
LEMMA KmallocGrowKeeps ==
    ASSUME KInv, NEW size \in Sizes, NEW clear \in BOOLEAN, KmallocGrow(size, clear)
    PROVE  KInv' /\ (~strayed => live' # live)
  <1> USE DEF KInv
  <1>1. BASE \in Nat \ {0} /\ next_virt \in Nat /\ next_virt >= BASE /\ size \in Nat \ {0}
        /\ MaxWords \in Nat
    BY KmallocAssumption DEF TypeOK, KmallocGrow
  <1>2. PICK words : words = GrowWords(size)
    OBVIOUS
  <1>3. words \in Nat /\ words >= 4
    BY <1>1, <1>2, GrowCovers, RequiredCovers DEF HEADER
  <1>4. ~(head # NULL /\ next_virt # heap_end)
    BY DEF Grown
  <1>5. PICK m, e, l : m = Appended(words) /\ e = next_virt + words /\ l = live
    OBVIOUS
  <1>6. HeadAfter = BASE
    BY <1>1 DEF HeadAfter, Grown, TypeOK
  <1>7. /\ head' = BASE /\ heap_start' = BASE /\ heap_end' = e /\ next_virt' = e
        /\ e <= BASE + MaxWords /\ UNCHANGED <<faulted, strayed>>
    BY <1>2, <1>4, <1>5, <1>6 DEF KmallocGrow, HeapEnd, Grown
  <1>8. PICK c \in FirstFit(m, BASE, Required(size)) : Grant(m, c, size, clear)
    BY <1>2, <1>4, <1>5, <1>6 DEF KmallocGrow
  <1>9. PICK m1, l1 : /\ m1 = Filled(TakeChunk(m, c, Required(size)), c + HEADER, size, clear)
                      /\ l1 = l \cup {[ptr |-> c + HEADER, size |-> size]}
    OBVIOUS
  <1>10. mem' = m1 /\ live' = l1 /\ blocks' = blocks + 1 /\ blocks < MaxBlocks
    BY <1>5, <1>8, <1>9 DEF Grant
  <1>11. DOMAIN mem' = BASE .. (next_virt' - 1)
    <2>1. DOMAIN m1 = DOMAIN m
      BY <1>9, DomainsKept
    <2>2. DOMAIN m = BASE .. (next_virt + words - 1)
      BY <1>3, <1>5, AppendedDomain
    <2>3. DOMAIN m = BASE .. (e - 1)
      BY <2>2, <1>1, <1>3, <1>5
    <2>4. DOMAIN mem' = DOMAIN m
      BY <2>1, <1>10
    <2> QED BY <2>3, <2>4, <1>7
  <1>12. ASSUME ~strayed
         PROVE  (\E S : GoodHeap(m1, S, e, l1)) /\ l1 # l
    <2>1. PICK S : GoodHeap(m, S, e, l)
      <3>1. CASE head = NULL
        <4>1. next_virt = BASE /\ live = {}
          BY <3>1 DEF Grown
        <4>2. DOMAIN mem = {}
          BY <4>1, <1>1 DEF TypeOK
        <4>3. \E S : GoodHeap(Appended(words), S, BASE + words, {})
          BY <3>1, <4>1, <4>2, <1>3, FirstGrowth
        <4> QED BY <4>1, <4>3, <1>5
      <3>2. CASE head # NULL
        <4>1. PICK m0, S0, e0 : m0 = mem /\ e0 = next_virt /\ GoodHeap(m0, S0, e0, l)
          BY <3>2, <1>5, <1>12 DEF Sound
        <4>2. head = BASE
          BY <3>2 DEF TypeOK
        <4>3. \E S : GoodHeap(Appended(words), S, e0 + words, l)
          BY <4>1, <4>2, <1>3, LaterGrowth
        <4> QED BY <4>1, <4>3, <1>5
      <3> QED BY <3>1, <3>2
    <2>2. Linked(m, S, e)
      BY <2>1 DEF GoodHeap
    <2>4. c \in S /\ m[c] = FREE /\ m[c + 1] >= Required(size)
      BY <2>2, FirstFitFits
    <2>5. \E S1 : GoodHeap(m1, S1, e, l1)
      BY <2>1, <2>4, <1>1, <1>9, GrantKeeps
    <2>6. l1 # l
      <3> SUFFICES ASSUME [ptr |-> c + HEADER, size |-> size] \in l PROVE FALSE
        BY <1>9
      <3>1. (c + HEADER) - HEADER \in UsedChunks(m, S)
        BY <2>1 DEF GoodHeap, BlocksMatch
      <3>2. c \in Nat
        BY <2>2, <2>4, LinkedWords
      <3> QED BY <3>1, <3>2, <2>4 DEF UsedChunks, FREE, USED, HEADER
    <2> QED BY <2>5, <2>6
  <1>13. KInv'
    <2>1. blocks' \in 0 .. MaxBlocks /\ faulted' \in BOOLEAN /\ strayed' \in BOOLEAN
      BY <1>7, <1>10, KmallocAssumption DEF TypeOK
    <2>2. next_virt' \in BASE .. (BASE + MaxWords)
      BY <1>1, <1>3, <1>5, <1>7
    <2>3. ~strayed' => ~faulted' /\ \E S : GoodHeap(mem', S, next_virt', live')
      BY <1>7, <1>10, <1>12 DEF Sound
    <2> QED BY <2>1, <2>2, <2>3, <1>7, <1>11, KInvAfter
  <1> QED BY <1>5, <1>10, <1>12, <1>13

\* kfree, of a block or of a pointer that was freed before.
LEMMA KfreeKeeps ==
    ASSUME KInv, NEW ptr \in Pointers, Kfree(ptr)
    PROVE  KInv' /\ (~strayed /\ live' = live => mem' = mem)
  <1> USE DEF KInv
  <1>1. PICK m, e, l, c : m = mem /\ e = next_virt /\ l = live /\ c = ptr - HEADER
    OBVIOUS
  <1>2. BASE \in Nat \ {0} /\ e \in Nat /\ DOMAIN m = BASE .. (e - 1)
    BY <1>1, KmallocAssumption DEF TypeOK
  <1>3. ptr \in DOMAIN m /\ ptr >= BASE + 4 /\ ptr \in Nat
    BY <1>1, <1>2 DEF Pointers, HEADER
  <1>4. c \in DOMAIN m /\ c + HEADER = ptr
    BY <1>1, <1>2, <1>3 DEF HEADER
  <1>5. head = BASE /\ BASE # NULL
    <2>1. e # BASE
      BY <1>2, <1>3
    <2> QED BY <2>1, <1>1, <1>2 DEF Grown, TypeOK, NULL
  <1>6. PICK l1 : l1 = {b \in l : b.ptr # c + HEADER}
    OBVIOUS
  <1>7. live' = l1 /\ UNCHANGED <<next_virt, head, heap_start, heap_end, blocks>>
    BY <1>1, <1>4, <1>6 DEF Kfree
  <1>8. Freed(c) = FreedIn(m, c)
    BY <1>1 DEF Freed, FreedIn
  <1>9. IF m[c] = USED THEN mem' = FreedIn(m, c).mem /\ faulted' = FreedIn(m, c).faulted
        ELSE UNCHANGED <<mem, faulted>>
    BY <1>1, <1>8 DEF Kfree, CanFree, state
  <1>10. strayed' = (strayed \/ (m[c] = USED /\ BothNeighboursFree(c)))
    BY <1>1 DEF Kfree, CanFree, state
  <1>11. DOMAIN FreedIn(m, c).mem = DOMAIN m /\ FreedIn(m, c).faulted \in BOOLEAN
    <2>1. PICK m0 : m0 = [m EXCEPT ![c] = FREE]
      OBVIOUS
    <2>2. PICK p : p = prev(m0, c)
      OBVIOUS
    <2>3. PICK first : first = kmerge_next(m0, p)
      OBVIOUS
    <2>4. FreedIn(m, c) = IF first.faulted THEN first ELSE kmerge_next(first.mem, c)
      BY <2>1, <2>2, <2>3 DEF FreedIn
    <2>5. DOMAIN m0 = DOMAIN m
      BY <2>1
    <2>6. DOMAIN first.mem = DOMAIN m0 /\ first.faulted \in BOOLEAN
      BY <2>3, DomainsKept
    <2>7. DOMAIN kmerge_next(first.mem, c).mem = DOMAIN first.mem
          /\ kmerge_next(first.mem, c).faulted \in BOOLEAN
      BY DomainsKept
    <2> QED BY <2>4, <2>5, <2>6, <2>7
  <1>12. PICK k : k = mem'
    OBVIOUS
  <1>13. DOMAIN k = DOMAIN m /\ faulted' \in BOOLEAN
    BY <1>1, <1>9, <1>11, <1>12 DEF TypeOK
  <1>14. ASSUME ~strayed
         PROVE  /\ ~strayed' => ~faulted' /\ \E S : GoodHeap(k, S, e, l1)
                /\ l1 = l => k = m
    <2>1. PICK S : GoodHeap(m, S, e, l)
      BY <1>1, <1>5, <1>14 DEF Sound
    <2>2. Linked(m, S, e) /\ BlocksMatch(m, S, l)
      BY <2>1 DEF GoodHeap
    <2>3. CASE m[c] = USED
      <3>1. c \in S
        BY <2>2, <2>3, <1>4 DEF Linked
      <3>2. ASSUME ~strayed' PROVE ~faulted' /\ \E S1 : GoodHeap(k, S1, e, l1)
        <4>1. ~BothNeighboursFree(c)
          BY <3>2, <2>3, <1>10
        <4>2. ~(/\ m[c + 3] # 0 /\ m[m[c + 3]] = FREE
                /\ m[c + 2] # 0 /\ m[m[c + 2]] = FREE)
          <5> SUFFICES ASSUME m[c + 3] # 0, m[m[c + 3]] = FREE, m[c + 2] # 0, m[m[c + 2]] = FREE
                       PROVE  FALSE
            OBVIOUS
          <5>1. m[c + 3] \in S /\ m[c + 2] \in S
            BY <3>1, <2>2, LinkedWords
          <5>2. \A d \in S : Readable(m, d)
            BY <2>2, <1>2 DEF Linked, Readable, HEADER
          <5> QED BY <4>1, <5>1, <5>2, <1>1 DEF BothNeighboursFree, prev, next, state
        <4>3. ~FreedIn(m, c).faulted /\ \E S1 : GoodHeap(FreedIn(m, c).mem, S1, e, l1)
          BY <4>2, <3>1, <2>1, <2>3, <1>6, FreeKeeps
        <4> QED BY <4>3, <2>3, <1>9, <1>12
      <3>3. l1 # l
        <4>1. c \in UsedChunks(m, S)
          BY <3>1, <2>3 DEF UsedChunks
        <4>2. PICK b \in l : b.ptr - HEADER = c
          BY <4>1, <2>2 DEF BlocksMatch
        <4>3. b.ptr \in Nat
          BY <2>2 DEF BlocksMatch
        <4>4. b.ptr = c + HEADER
          BY <4>2, <4>3, <1>2, <1>4 DEF HEADER
        <4>5. b \notin l1
          BY <4>4, <1>6
        <4> QED BY <4>5
      <3> QED BY <3>2, <3>3
    <2>4. CASE m[c] # USED
      <3>1. k = m /\ faulted' = faulted
        BY <2>4, <1>1, <1>9, <1>12
      <3>2. \A b \in l : b.ptr # c + HEADER
        <4> SUFFICES ASSUME NEW b \in l, b.ptr = c + HEADER PROVE FALSE
          OBVIOUS
        <4>1. b.ptr - HEADER \in UsedChunks(m, S)
          BY <2>2 DEF BlocksMatch
        <4>2. b.ptr - HEADER = c
          BY <1>2, <1>4 DEF HEADER
        <4> QED BY <4>1, <4>2, <2>4 DEF UsedChunks
      <3>3. l1 = l
        BY <3>2, <1>6
      <3> QED BY <3>1, <3>3, <2>1, <1>14 DEF Sound
    <2> QED BY <2>3, <2>4
  <1>15. KInv'
    <2>1. head' = BASE /\ heap_start' = BASE /\ heap_end' = next_virt' /\ blocks' \in 0 .. MaxBlocks
      BY <1>5, <1>7 DEF Grown, TypeOK
    <2>2. /\ next_virt' \in BASE .. (BASE + MaxWords) /\ strayed' \in BOOLEAN
          /\ DOMAIN mem' = BASE .. (next_virt' - 1)
      BY <1>1, <1>2, <1>7, <1>10, <1>12, <1>13 DEF TypeOK
    <2>3. ~strayed' => ~faulted' /\ \E S : GoodHeap(mem', S, next_virt', live')
      BY <1>1, <1>7, <1>10, <1>12, <1>14
    <2> QED BY <2>1, <2>2, <2>3, <1>13, KInvAfter
  <1> QED BY <1>1, <1>7, <1>12, <1>14, <1>15

\* A step that changes nothing.
LEMMA StutterKeeps ==
    ASSUME KInv, UNCHANGED vars
    PROVE  KInv'
  <1> USE DEF vars
  <1>1. TypeOK'
    BY DEF KInv, TypeOK
  <1>2. Grown'
    BY DEF KInv, Grown
  <1>3. Sound'
    BY DEF KInv, Sound, Chunks
  <1> QED BY <1>1, <1>2, <1>3 DEF KInv

-----------------------------------------------------------------------------
(* The theorems.                                                           *)

\* The heap stays sound under every operation, for every page size, growth
\* step and set of sizes, until a kfree strays.
THEOREM KmallocInvariant == Spec => []KInv
  <1>1. KInv /\ [Next]_vars => KInv'
    <2> SUFFICES ASSUME KInv, [Next]_vars PROVE KInv'
      OBVIOUS
    <2>1. ASSUME NEW size \in Sizes, NEW clear \in BOOLEAN, Kmalloc(size, clear) PROVE KInv'
      BY <2>1, KmallocKeeps
    <2>2. ASSUME NEW size \in Sizes, NEW clear \in BOOLEAN, KmallocGrow(size, clear) PROVE KInv'
      BY <2>2, KmallocGrowKeeps
    <2>3. ASSUME NEW size \in Sizes, KmallocFails(size) PROVE KInv'
      BY <2>3, StutterKeeps DEF KmallocFails
    <2>4. ASSUME NEW ptr \in Pointers, Kfree(ptr) PROVE KInv'
      BY <2>4, KfreeKeeps
    <2>5. ASSUME Crashed \/ UNCHANGED vars PROVE KInv'
      BY <2>5, StutterKeeps DEF Crashed
    <2> QED BY <2>1, <2>2, <2>3, <2>4, <2>5 DEF Next
  <1> QED BY <1>1, InitKInv, PTL DEF Spec

\* The words mapped, the heap's bounds and, until a kfree strays, the words
\* and the blocks are what TypeOK says.
THEOREM KmallocTypeAlwaysOK == Spec => []TypeOK
  <1>1. KInv => TypeOK
    BY DEF KInv
  <1> QED BY <1>1, KmallocInvariant, PTL

\* vallocs always goes on where the heap ends; and however kmalloc splits and
\* grows and kfree merges, the chunks tile the heap, until a kfree strays.
THEOREM HeapAlwaysTiled == Spec => []HeapTiled
  <1>1. KInv => HeapTiled
    <2> SUFFICES ASSUME KInv, head # NULL
                 PROVE  /\ next_virt = heap_end
                        /\ ~strayed =>
                             /\ ~faulted /\ head = heap_start /\ prev(mem, head) = NULL
                             /\ \A c \in Chunks :
                                  /\ state(mem, c) \in {FREE, USED} /\ length(mem, c) >= HEADER
                                  /\ IF next(mem, c) = NULL THEN c + length(mem, c) = heap_end
                                     ELSE /\ c + length(mem, c) = next(mem, c) /\ prev(mem, next(mem, c)) = c
                                          /\ USED \in {state(mem, c), state(mem, next(mem, c))}
                             /\ \E c \in Chunks : next(mem, c) = NULL
      BY DEF HeapTiled
    <2>1. next_virt = heap_end /\ heap_start = BASE /\ head = BASE
      BY DEF KInv, Grown, TypeOK
    <2> SUFFICES ASSUME ~strayed
                 PROVE  /\ ~faulted /\ head = heap_start /\ prev(mem, head) = NULL
                        /\ \A c \in Chunks :
                             /\ state(mem, c) \in {FREE, USED} /\ length(mem, c) >= HEADER
                             /\ IF next(mem, c) = NULL THEN c + length(mem, c) = heap_end
                                ELSE /\ c + length(mem, c) = next(mem, c) /\ prev(mem, next(mem, c)) = c
                                     /\ USED \in {state(mem, c), state(mem, next(mem, c))}
                        /\ \E c \in Chunks : next(mem, c) = NULL
      BY <2>1
    <2>2. PICK m, S, e : m = mem /\ S = Chunks /\ e = heap_end /\ GoodHeap(m, S, e, live)
      BY <2>1 DEF KInv, Sound
    <2>3. Linked(m, S, e) /\ NoFreePair(m, S)
      BY <2>2 DEF GoodHeap
    <2>4. ~faulted
      BY DEF KInv, Sound
    <2>5. prev(m, BASE) = NULL
      <3>1. BASE \in S
        BY <2>3 DEF Linked
      <3>2. m[BASE + 3] = 0
        BY <3>1, <2>3, LinkedWords
      <3> QED BY <3>2 DEF prev, NULL
    <2>6. \E c \in S : next(m, c) = NULL
      BY <2>3, LastExists
    <2>7. ASSUME NEW c \in S
          PROVE  /\ state(m, c) \in {FREE, USED} /\ length(m, c) >= HEADER
                 /\ IF next(m, c) = NULL THEN c + length(m, c) = e
                    ELSE /\ c + length(m, c) = next(m, c) /\ prev(m, next(m, c)) = c
                         /\ USED \in {state(m, c), state(m, next(m, c))}
      <3>1. /\ m[c] \in {FREE, USED} /\ m[c + 1] >= 4
            /\ m[c + 2] = 0 => c + m[c + 1] = e
            /\ m[c + 2] # 0 => c + m[c + 1] = m[c + 2] /\ m[m[c + 2] + 3] = c
        BY <2>3, LinkedWords
      <3>2. m[c + 2] # 0 => m[c] = USED \/ m[m[c + 2]] = USED
        BY <3>1, <2>3 DEF NoFreePair
      <3> QED BY <3>1, <3>2 DEF state, length, next, prev, HEADER, NULL
    <2> QED BY <2>1, <2>2, <2>4, <2>5, <2>6, <2>7
  <1> QED BY <1>1, KmallocInvariant, PTL

\* Each block a client has is a used chunk of its own, large enough for it,
\* and every used chunk is some client's block, until a kfree strays.
THEOREM BlocksAlwaysUsedChunks == Spec => []BlocksAreUsedChunks
  <1>1. KInv => BlocksAreUsedChunks
    <2> SUFFICES ASSUME KInv, ~strayed
                 PROVE  /\ {b.ptr - HEADER : b \in live} = {c \in Chunks : state(mem, c) = USED}
                        /\ \A b \in live : b.size <= length(mem, b.ptr - HEADER) - HEADER
                        /\ \A a, b \in live : a.ptr = b.ptr => a = b
      BY DEF BlocksAreUsedChunks
    <2>1. CASE head = NULL
      <3>1. live = {} /\ next_virt = BASE
        BY <2>1 DEF KInv, Grown
      <3>2. DOMAIN mem = {}
        BY <3>1, KmallocAssumption DEF KInv, TypeOK
      <3>3. Chunks = {}
        BY <2>1, <3>2, NoChunksYet DEF Chunks
      <3> QED BY <3>1, <3>3
    <2>2. CASE head # NULL
      <3>1. BlocksMatch(mem, Chunks, live)
        BY <2>2 DEF KInv, Sound, GoodHeap
      <3> QED BY <3>1 DEF BlocksMatch, UsedChunks, state, length
    <2> QED BY <2>1, <2>2
  <1> QED BY <1>1, KmallocInvariant, PTL

\* Until a kfree strays, a call that hands out no block and takes none back
\* writes no word of the heap: a second kfree of a pointer is recognised.
THEOREM StaleFreesAlwaysHarmless == Spec => StaleFreeHarmless
  <1>1. KInv /\ [Next]_vars => [~strayed /\ live' = live => mem' = mem]_vars
    <2> SUFFICES ASSUME KInv, Next, ~strayed, live' = live PROVE mem' = mem
      BY DEF vars
    <2>1. ASSUME NEW size \in Sizes, NEW clear \in BOOLEAN, Kmalloc(size, clear) PROVE mem' = mem
      BY <2>1, KmallocKeeps
    <2>2. ASSUME NEW size \in Sizes, NEW clear \in BOOLEAN, KmallocGrow(size, clear) PROVE mem' = mem
      BY <2>2, KmallocGrowKeeps
    <2>3. ASSUME NEW size \in Sizes, KmallocFails(size) PROVE mem' = mem
      BY <2>3 DEF KmallocFails, vars
    <2>4. ASSUME NEW ptr \in Pointers, Kfree(ptr) PROVE mem' = mem
      BY <2>4, KfreeKeeps
    <2>5. ASSUME Crashed PROVE mem' = mem
      BY <2>5 DEF Crashed, vars
    <2> QED BY <2>1, <2>2, <2>3, <2>4, <2>5 DEF Next
  <1> QED BY <1>1, KmallocInvariant, PTL DEF Spec, StaleFreeHarmless

=============================================================================

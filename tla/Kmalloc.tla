------------------------------ MODULE Kmalloc ------------------------------
(***************************************************************************)
(* The kernel heap: kernel/lib/kmalloc.c, on memory it gets from vallocs.  *)
(*                                                                         *)
(* Memory is a function from word addresses to words.  A chunk header is   *)
(* the four words state, length, next, prev; lengths are in words and      *)
(* include the header.  Headers sit in the same memory as the blocks       *)
(* clients write to, so stale headers and stale pointers keep whatever     *)
(* value the code left in them.  kmalloc, kcalloc and kfree run to         *)
(* completion: nothing preempts them.                                      *)
(***************************************************************************)
EXTENDS Integers, FiniteSets

CONSTANTS
    BASE,       \* word address of KHEAP_BASE
    PAGE,       \* words in a page
    GROW_MIN,   \* words kmalloc_grow asks for at least (16 pages)
    Sizes,      \* block sizes, in words, that clients ask for
    MaxWords,   \* bound: words vallocs can provide before it fails
    MaxBlocks   \* bound: blocks handed out in a behaviour

HEADER == 4      \* sizeof(kmalloc_chunk_t)
ALIGNMENT == 2   \* KMALLOC_ALIGNMENT, 16 bytes
MIN_SPLIT == 4   \* KMALLOC_MIN_SPLIT, 32 bytes

NULL == 0
FREE == -1       \* KMALLOC_STATE_FREE
USED == -2       \* KMALLOC_STATE_USED

ASSUME KmallocAssumption ==
    /\ BASE \in Nat \ {0} /\ PAGE \in Nat \ {0} /\ GROW_MIN \in Nat /\ MaxWords \in Nat
    /\ MaxBlocks \in Nat
    /\ Sizes \subseteq Nat

VARIABLES
    mem,         \* the words of the heap pages vallocs has mapped
    next_virt,   \* vallocs: where the next range starts
    head, heap_start, heap_end,
    faulted,     \* the allocator followed a word that is no chunk address
    strayed,     \* ghost: a kfree went on merging from a header it had absorbed
    live,        \* ghost: [ptr, size] of blocks handed out and not freed
    blocks       \* ghost: blocks handed out so far

vars == <<mem, next_virt, head, heap_start, heap_end, faulted, strayed, live, blocks>>

-----------------------------------------------------------------------------
(* Chunk headers.                                                          *)

align_up(value, alignment) == ((value + alignment - 1) \div alignment) * alignment

state(m, c) == m[c]
length(m, c) == m[c + 1]
next(m, c) == m[c + 2]
prev(m, c) == m[c + 3]

\* a header can be read at c without a page fault
Readable(m, c) == {c, c + 1, c + 2, c + 3} \subseteq DOMAIN m

\* there is room for one chunk per HEADER words
Room(m) == Cardinality(DOMAIN m) \div HEADER

\* the n-th chunk from h on, NULL behind the last
NthChunk(m, h) ==
    LET nth[n \in 0 .. Room(m)] ==
            IF n = 0 THEN h
            ELSE IF nth[n - 1] = NULL THEN NULL ELSE next(m, nth[n - 1])
    IN  nth

ChunkList(m, h) == {NthChunk(m, h)[n] : n \in 0 .. Room(m)} \ {NULL}

\* the memory after a step, or the fault that ended it
Ok(m) == [mem |-> m, faulted |-> FALSE]
Wild(m) == [mem |-> m, faulted |-> TRUE]

kmerge_next(m, c) ==
    IF c = NULL THEN Ok(m)
    ELSE IF ~Readable(m, c) THEN Wild(m)
    ELSE LET n == next(m, c)
             merged == [m EXCEPT ![c + 1] = @ + length(m, n), ![c + 2] = next(m, n)]
             after == next(m, n)
         IN  IF state(m, c) # FREE \/ n = NULL THEN Ok(m)
             ELSE IF ~Readable(m, n) THEN Wild(m)
             ELSE IF state(m, n) # FREE THEN Ok(m)
             ELSE IF after = NULL THEN Ok(merged)
             ELSE IF Readable(m, after) THEN Ok([merged EXCEPT ![after + 3] = c])
             ELSE Wild(merged)

WriteHeader(m, c, s, len, nx, pv) ==
    [m EXCEPT ![c] = s, ![c + 1] = len, ![c + 2] = nx, ![c + 3] = pv]

\* mutant: the remainder keeps the length of the whole chunk
ksplit_whole(m, c, len) ==
    LET new == c + len
        n == next(m, c)
        split == WriteHeader(m, new, FREE, length(m, c), n, c)
        linked == IF n = NULL THEN split ELSE [split EXCEPT ![n + 3] = new]
    IN  [linked EXCEPT ![c + 2] = new, ![c + 1] = len]

ksplit(m, c, len) ==
    LET new == c + len
        n == next(m, c)
        split == WriteHeader(m, new, FREE, length(m, c) - len, n, c)
        linked == IF n = NULL THEN split ELSE [split EXCEPT ![n + 3] = new]
    IN  [linked EXCEPT ![c + 2] = new, ![c + 1] = len]

-----------------------------------------------------------------------------
(* kmalloc.                                                                *)

Required(size) == align_up(size, ALIGNMENT) + HEADER

\* mutant: free chunks one header short pass
FirstFit_short(m, h, required) ==
    LET fitting == {c \in ChunkList(m, h) : state(m, c) = FREE /\ length(m, c) >= required - HEADER}
    IN  {c \in fitting : \A d \in fitting : c <= d}

\* the first free chunk that is large enough, if any; the list is in address
\* order
FirstFit(m, h, required) ==
    LET fitting == {c \in ChunkList(m, h) : state(m, c) = FREE /\ length(m, c) >= required}
    IN  {c \in fitting : \A d \in fitting : c <= d}

\* the chunk length from which kmalloc splits
SplitFrom(required) == required + HEADER + MIN_SPLIT

\* take chunk c for a block: split, mark, return the memory after the header
TakeChunk(m, c, required) ==
    LET parted == IF length(m, c) >= SplitFrom(required) THEN ksplit(m, c, required) ELSE m
    IN  [parted EXCEPT ![c] = USED]

Payload(ptr, size) == ptr .. (ptr + size - 1)

\* kcalloc clears the block it returns, kmalloc leaves what was there; a
\* client that writes its own data is like kcalloc, for no data is a state
Filled(m, ptr, size, clear) ==
    [w \in DOMAIN m |-> IF clear /\ w \in Payload(ptr, size) THEN 0 ELSE m[w]]

Grant(m, c, size, clear) ==
    /\ blocks < MaxBlocks
    /\ blocks' = blocks + 1
    /\ mem' = Filled(TakeChunk(m, c, Required(size)), c + HEADER, size, clear)
    /\ live' = live \cup {[ptr |-> c + HEADER, size |-> size]}

\* kmalloc finds a chunk; size 0 returns NULL before anything happens
Kmalloc(size, clear) ==
    /\ ~faulted /\ size # 0
    /\ \E c \in FirstFit(mem, head, Required(size)) : Grant(mem, c, size, clear)
    /\ UNCHANGED <<next_virt, head, heap_start, heap_end, faulted, strayed>>

\* kmalloc_grow's request, in whole pages
GrowWords(size) ==
    align_up(IF Required(size) < GROW_MIN THEN GROW_MIN ELSE Required(size), PAGE)

\* the heap with words more words at next_virt, cleared by vallocs(true, ...)
Extended(words) ==
    [w \in DOMAIN mem \cup next_virt .. (next_virt + words - 1) |->
        IF w \in DOMAIN mem THEN mem[w] ELSE 0]

LastChunk == CHOOSE c \in ChunkList(mem, head) : next(mem, c) = NULL

\* a free chunk of the new words behind the last chunk, merged with it if free
Appended(words) ==
    IF head = NULL
    THEN WriteHeader(Extended(words), next_virt, FREE, words, NULL, NULL)
    ELSE LET new == WriteHeader(Extended(words), next_virt, FREE, words, NULL, LastChunk)
         IN  kmerge_next([new EXCEPT ![LastChunk + 2] = next_virt], LastChunk).mem

\* mutant: the first growth does not record where the heap ends
HeapEnd_stale(words) == IF head = NULL THEN next_virt ELSE heap_end + words

HeapEnd(words) == IF head = NULL THEN next_virt + words ELSE heap_end + words

\* mutant: head moves to the new pages at every growth
HeadAfter_new == next_virt

HeadAfter == IF head = NULL THEN next_virt ELSE head

\* no chunk fits, vallocs has the pages.  A range that does not start at
\* heap_end is given back to vfrees and kmalloc returns NULL.
KmallocGrow(size, clear) ==
    LET words == GrowWords(size)
    IN  /\ ~faulted /\ size # 0
        /\ FirstFit(mem, head, Required(size)) = {}
        /\ next_virt + words <= BASE + MaxWords
        /\ next_virt' = next_virt + words
        /\ IF head # NULL /\ next_virt # heap_end
           THEN UNCHANGED <<mem, head, heap_start, heap_end, live, blocks>>
           ELSE /\ \E c \in FirstFit(Appended(words), HeadAfter, Required(size)) :
                     Grant(Appended(words), c, size, clear)
                /\ head' = HeadAfter
                /\ heap_start' = IF head = NULL THEN next_virt ELSE heap_start
                /\ heap_end' = HeapEnd(words)
        /\ UNCHANGED <<faulted, strayed>>

\* no chunk fits and vallocs is out of frames: kmalloc returns NULL
KmallocFails(size) ==
    /\ ~faulted /\ size # 0
    /\ FirstFit(mem, head, Required(size)) = {}
    /\ UNCHANGED vars

-----------------------------------------------------------------------------
(* kfree.                                                                  *)

\* mutant: the test accepts any chunk, also a free one
CanFree_chunk(c) == state(mem, c) \in {USED, FREE}

CanFree(c) == state(mem, c) = USED

\* merge with the previous chunk, then with the next one
Freed(c) ==
    LET m == [mem EXCEPT ![c] = FREE]
        first == kmerge_next(m, prev(m, c))
    IN  IF first.faulted THEN first ELSE kmerge_next(first.mem, c)

\* kfree(c) with both neighbours free: the first merge absorbs c, the second
\* one goes on from c's header, which no longer is a chunk's
BothNeighboursFree(c) ==
    \A n \in {prev(mem, c), next(mem, c)} : Readable(mem, n) /\ state(mem, n) = FREE

\* where a block may begin or may once have begun
Pointers == {w \in DOMAIN mem : (w - BASE) % ALIGNMENT = 0 /\ w >= BASE + HEADER}

\* kfree of a block, or once more of a pointer that was freed before
Kfree(ptr) ==
    /\ ~faulted
    /\ IF CanFree(ptr - HEADER)
       THEN mem' = Freed(ptr - HEADER).mem /\ faulted' = Freed(ptr - HEADER).faulted
       ELSE UNCHANGED <<mem, faulted>>   \* "invalid free"
    /\ strayed' = (strayed \/ (CanFree(ptr - HEADER) /\ BothNeighboursFree(ptr - HEADER)))
    /\ live' = {b \in live : b.ptr # ptr}
    /\ UNCHANGED <<next_virt, head, heap_start, heap_end, blocks>>

\* the page fault of a wild access ends in an exception handler that halts
Crashed == faulted /\ UNCHANGED vars

Init ==
    /\ mem = [w \in {} |-> 0]
    /\ next_virt = BASE
    /\ head = NULL /\ heap_start = 0 /\ heap_end = 0
    /\ faulted = FALSE /\ strayed = FALSE
    /\ live = {} /\ blocks = 0

Next ==
    \/ \E size \in Sizes, clear \in BOOLEAN : Kmalloc(size, clear)
    \/ \E size \in Sizes, clear \in BOOLEAN : KmallocGrow(size, clear)
    \/ \E size \in Sizes : KmallocFails(size)
    \/ \E ptr \in Pointers : Kfree(ptr)
    \/ Crashed

Spec == Init /\ [][Next]_vars

-----------------------------------------------------------------------------
(* Properties.                                                             *)

Chunks == ChunkList(mem, head)

\* The heap is a run of words from BASE; until a kfree goes on merging from a
\* header it has absorbed, they are numbers and the blocks lie within them.
TypeOK ==
    /\ DOMAIN mem = BASE .. (next_virt - 1) /\ next_virt \in BASE .. (BASE + MaxWords)
    /\ head \in {NULL, BASE} /\ heap_start \in {0, BASE} /\ heap_end \in Nat
    /\ faulted \in BOOLEAN /\ strayed \in BOOLEAN /\ blocks \in 0 .. MaxBlocks
    /\ ~strayed => /\ mem \in [DOMAIN mem -> Int]
                   /\ live \subseteq [ptr : DOMAIN mem, size : Sizes]

\* "The VMM must give us the page range directly after the current heap"
\* (kmalloc.c:96): it always does, so growth never fails for that.  And until a
\* kfree goes on merging from a header it has absorbed, nothing faults and the
\* chunks from head on tile the heap, after any sequence of splits, merges and
\* growths: each next pointer is the end of its chunk, each prev pointer leads
\* back, the last chunk ends at heap_end, each chunk is free or used, and no
\* two neighbours are both free.
HeapTiled ==
    head # NULL =>
        /\ next_virt = heap_end
        /\ ~strayed =>
             /\ ~faulted /\ head = heap_start /\ prev(mem, head) = NULL
             /\ \A c \in Chunks :
                  /\ state(mem, c) \in {FREE, USED} /\ length(mem, c) >= HEADER
                  /\ IF next(mem, c) = NULL THEN c + length(mem, c) = heap_end
                     ELSE /\ c + length(mem, c) = next(mem, c) /\ prev(mem, next(mem, c)) = c
                          /\ USED \in {state(mem, c), state(mem, next(mem, c))}
             /\ \E c \in Chunks : next(mem, c) = NULL

\* Until then the blocks clients have are exactly the used chunks, one block
\* per chunk, and each is as long as the client asked for: none overlap.
BlocksAreUsedChunks ==
    ~strayed =>
        /\ {b.ptr - HEADER : b \in live} = {c \in Chunks : state(mem, c) = USED}
        /\ \A b \in live : b.size <= length(mem, b.ptr - HEADER) - HEADER
        /\ \A a, b \in live : a.ptr = b.ptr => a = b

\* Until then a call that neither hands out a block nor takes one back leaves
\* every word of the heap alone: a second kfree of a pointer is recognised.
StaleFreeHarmless == [][~strayed /\ live' = live => mem' = mem]_vars

\* A chunk's length "Includes this header" (kmalloc.c:14): the next chunk is
\* that many words further on, whatever the calls so far.
LengthReachesNext ==
    \A c \in Chunks : next(mem, c) # NULL => c + length(mem, c) = next(mem, c)

=============================================================================

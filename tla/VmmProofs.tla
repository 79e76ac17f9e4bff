----------------------------- MODULE VmmProofs -----------------------------
(***************************************************************************)
(* Proofs about Vmm, for every fan-out of the page tables, memory map and  *)
(* placement of heap and window that VmmAssumption allows.                 *)
(***************************************************************************)
EXTENDS Vmm, PmmProofs

VirtualPages == 0 .. (VSPACE - 1)

-----------------------------------------------------------------------------
(* Page numbers in base FANOUT.                                            *)

\* A quotient and a remainder are determined by their bounds.
LEMMA DivModUnique ==
    ASSUME NEW q \in Nat, NEW r \in Nat, NEW d \in Nat \ {0}, r < d
    PROVE  (d * q + r) \div d = q /\ (d * q + r) % d = r
  <1> DEFINE n == d * q + r
             p == n \div d
             s == n % d
  <1>1. n \in Nat
    OBVIOUS
  <1>2. p \in Nat /\ s \in Nat /\ s < d /\ n = d * p + s
    BY <1>1
  <1>3. d * (p - q) = r - s
    BY <1>2
  <1> HIDE DEF n, p, s
  <1>4. ASSUME p - q >= 1 PROVE FALSE
    <2>1. d * (p - q) >= d
      BY <1>2, <1>4
    <2> QED BY <1>2, <1>3, <2>1
  <1>5. ASSUME p - q <= -1 PROVE FALSE
    <2>1. d * (p - q) <= -d
      BY <1>2, <1>5
    <2> QED BY <1>2, <1>3, <2>1
  <1>6. p = q
    BY <1>2, <1>4, <1>5
  <1>7. s = r
    BY <1>2, <1>3, <1>6
  <1> QED BY <1>6, <1>7 DEF n, p, s

\* Division with remainder.
LEMMA DivMod ==
    ASSUME NEW n \in Nat, NEW d \in Nat \ {0}
    PROVE  n \div d \in Nat /\ n % d \in 0 .. (d - 1) /\ n = d * (n \div d) + (n % d)
  OBVIOUS

\* Dividing by c and then by d is dividing by their product.
LEMMA DivDiv ==
    ASSUME NEW n \in Nat, NEW c \in Nat \ {0}, NEW d \in Nat \ {0}
    PROVE  (n \div c) \div d = n \div (c * d)
  <1> DEFINE q == n \div c
             r == n % c
             p == q \div d
             s == q % d
  <1>1. q \in Nat /\ r \in 0 .. (c - 1) /\ n = c * q + r
    BY DivMod
  <1>2. p \in Nat /\ s \in 0 .. (d - 1) /\ q = d * p + s
    BY <1>1, DivMod
  <1> HIDE DEF q, r, p, s
  <1>3. c * s + r \in Nat /\ c * s + r < c * d /\ c * d \in Nat \ {0}
    <2>1. c * s <= c * (d - 1)
      BY <1>2
    <2>2. c * (d - 1) = c * d - c
      OBVIOUS
    <2> QED BY <1>1, <1>2, <2>1, <2>2
  <1>4. n = (c * d) * p + (c * s + r)
    BY <1>1, <1>2
  <1>5. n \div (c * d) = p
    BY <1>2, <1>3, <1>4, DivModUnique
  <1> QED BY <1>5 DEF p, q

\* The indices of a walk are entries of a table.
LEMMA IndexType ==
    ASSUME NEW v \in Nat, NEW level \in 0 .. 3
    PROVE  Index(v, level) \in Entries
  <1> DEFINE F == FANOUT
             At(shift) == (v \div shift) % F
  <1>1. F \in Nat \ {0} /\ F * F \in Nat \ {0} /\ F * F * F \in Nat \ {0}
    BY VmmAssumption
  <1>2. ASSUME NEW shift \in Nat \ {0} PROVE At(shift) \in Entries
    BY <1>1, <1>2, DivMod DEF Entries
  <1>3. Index(v, level) \in {At(1), At(F), At(F * F), At(F * F * F)}
    BY DEF Index
  <1> HIDE DEF At, F
  <1> QED BY <1>1, <1>2, <1>3

\* The indices of a virtual page, from the quotients by powers of FANOUT.
LEMMA IndexChain ==
    ASSUME NEW v \in VirtualPages
    PROVE  \E a, b, c \in Nat :
              /\ v = FANOUT * a + Index(v, 0)
              /\ a = FANOUT * b + Index(v, 1)
              /\ b = FANOUT * c + Index(v, 2)
              /\ c = Index(v, 3)
  <1> DEFINE F == FANOUT
             a == v \div F
             b == v \div (F * F)
             c == v \div (F * F * F)
  <1>1. F \in Nat \ {0} /\ F * F \in Nat \ {0} /\ F * F * F \in Nat \ {0}
    BY VmmAssumption
  <1>2. v \in Nat /\ v < F * F * F * F
    BY <1>1 DEF VirtualPages, VSPACE
  <1>3. a \in Nat /\ b \in Nat /\ c \in Nat
    BY <1>1, <1>2, DivMod
  <1>4. a \div F = b /\ b \div F = c
    BY <1>1, <1>2, DivDiv
  <1>5. c < F
    <2>1. (F * F * F) * c <= v
      BY <1>1, <1>2, DivBounds
    <2>2. ASSUME c >= F PROVE FALSE
      <3>1. (F * F * F) * c >= (F * F * F) * F
        BY <1>1, <1>3, <2>2
      <3> QED BY <1>1, <1>2, <2>1, <3>1
    <2> QED BY <1>1, <1>3, <2>2
  <1>6. c % F = c
    BY <1>1, <1>3, <1>5
  <1>7. v \div 1 = v
    BY <1>2
  <1>8. /\ Index(v, 0) = v % F
        /\ Index(v, 1) = a % F
        /\ Index(v, 2) = b % F
        /\ Index(v, 3) = c
    BY <1>6, <1>7 DEF Index
  <1>9. v = F * a + (v % F) /\ a = F * b + (a % F) /\ b = F * c + (b % F)
    BY <1>1, <1>2, <1>3, <1>4, DivMod
  <1> HIDE DEF a, b, c
  <1> QED BY <1>3, <1>8, <1>9

\* Two virtual pages with the same four indices are the same page.
LEMMA IndicesDetermine ==
    ASSUME NEW v \in VirtualPages, NEW w \in VirtualPages,
           Index(v, 0) = Index(w, 0), Index(v, 1) = Index(w, 1),
           Index(v, 2) = Index(w, 2), Index(v, 3) = Index(w, 3)
    PROVE  v = w
  <1>1. PICK a, b, c \in Nat : /\ v = FANOUT * a + Index(v, 0)
                               /\ a = FANOUT * b + Index(v, 1)
                               /\ b = FANOUT * c + Index(v, 2)
                               /\ c = Index(v, 3)
    BY IndexChain
  <1>2. PICK d, e, f \in Nat : /\ w = FANOUT * d + Index(w, 0)
                               /\ d = FANOUT * e + Index(w, 1)
                               /\ e = FANOUT * f + Index(w, 2)
                               /\ f = Index(w, 3)
    BY IndexChain
  <1> QED BY <1>1, <1>2

\* A page whose upper indices are 0 is one of the first FANOUT pages.
LEMMA FirstPages ==
    ASSUME NEW v \in VirtualPages,
           Index(v, 1) = 0, Index(v, 2) = 0, Index(v, 3) = 0
    PROVE  v < FANOUT /\ Index(v, 0) = v
  <1>1. FANOUT \in Nat /\ FANOUT * 0 = 0
    BY VmmAssumption
  <1>2. PICK a, b, c \in Nat : /\ v = FANOUT * a + Index(v, 0)
                               /\ a = FANOUT * b + Index(v, 1)
                               /\ b = FANOUT * c + Index(v, 2)
                               /\ c = Index(v, 3)
    BY IndexChain
  <1>3. Index(v, 0) \in 0 .. (FANOUT - 1)
    BY IndexType DEF VirtualPages, Entries
  <1>4. b = 0
    BY <1>1, <1>2
  <1>5. a = 0
    BY <1>1, <1>2, <1>4
  <1>6. v = Index(v, 0)
    BY <1>1, <1>2, <1>3, <1>5
  <1> QED BY <1>1, <1>3, <1>6

-----------------------------------------------------------------------------
(* The inductive invariant.                                                *)

\* The page tables form a tree: a present entry on the way to a PTE names a
\* page table other than the root, no table serves at two levels, and two
\* pages that share a table share the way to it.
Tree ==
    /\ \A v \in VirtualPages :
          /\ Pdpt(v) # NONE => Pdpt(v) \in TableFrames \ {pml4}
          /\ Pd(v) # NONE => Pd(v) \in TableFrames \ {pml4}
          /\ Pt(v) # NONE => Pt(v) \in TableFrames \ {pml4}
    /\ \A v, w \in VirtualPages :
          /\ Pdpt(v) # NONE => Pdpt(v) \notin {Pd(w), Pt(w)}
          /\ Pd(v) # NONE => Pd(v) # Pt(w)
          /\ Pdpt(v) # NONE /\ Pdpt(v) = Pdpt(w) => Index(v, 3) = Index(w, 3)
          /\ Pd(v) # NONE /\ Pd(v) = Pd(w) => Pdpt(v) = Pdpt(w) /\ Index(v, 2) = Index(w, 2)
          /\ Pt(v) # NONE /\ Pt(v) = Pt(w) => Pd(v) = Pd(w) /\ Index(v, 1) = Index(w, 1)

\* What each stage of init_vmm has built.
Stages ==
    /\ pc = "boot" => roots = <<>>
    /\ pc \in {"boot", "roots"} => DOMAIN table = {} /\ live = {} /\ granted = {}
    /\ pc = "roots" => /\ Len(roots) <= 4
                       /\ \A j, k \in DOMAIN roots :
                             roots[j] # 0 /\ roots[j] = roots[k] => j = k
    /\ pc \notin {"boot", "roots", "panic"} => pml4 \in TableFrames
    /\ panicked => pc = "panic" \/ (pc = "roots" /\ roots = <<>>)
    /\ max_pages <= KHEAP_BASE

\* A range of init_vmm stays clear of the heap, the window onto physical
\* memory even when it wraps around.
AwayFromHeap(r) ==
    \/ r.pages = 0
    \/ r.virt + r.pages <= KHEAP_BASE
    \/ r.virt >= PASSTHRU_BASE /\ r.virt + r.pages <= VSPACE + KHEAP_BASE

\* What is left to map: boot ranges outside the heap, or the next page of
\* the current vallocs to a frame nobody else has.
Todo ==
    /\ pc = "map_boot" => \A k \in DOMAIN todo : AwayFromHeap(todo[k])
    /\ pc = "map_heap" =>
          /\ call.i < call.count
          /\ todo = <<[phys |-> Head(todo).phys, virt |-> call.start + call.i, pages |-> 1]>>
          /\ Head(todo).phys \in held \ (TableFrames \cup HeapFrames)

\* The range of the current call lies in the heap; vallocs works at the heap
\* pointer and has mapped the pages before its loop counter.
Call ==
    /\ pc \in {"vallocs", "map_heap"} =>
          /\ call.start = next_virt /\ call.start + call.count <= PASSTHRU_BASE
          /\ \A v \in call.start .. (call.start + call.i - 1) : Translate(v) # NONE
    /\ pc = "vfrees" => KHEAP_BASE <= call.start /\ call.start + call.count <= PASSTHRU_BASE

\* The heap pages that may be mapped: those below the heap pointer, and those
\* of the vallocs call at work or of the vfrees call that undoes it.
MayBeMapped(v) ==
    CASE pc \in {"vallocs", "map_heap"} -> v < call.start + call.i
      [] pc = "vfrees" -> \/ v < next_virt
                          \/ call.start + call.i <= v /\ v < call.start + call.count
      [] pc = "ready" -> v < next_virt
      [] pc = "panic" -> TRUE
      [] OTHER -> FALSE

\* Mapped heap pages have a frame of their own that is no page table.
Heap ==
    /\ \A v \in HeapPages : Translate(v) # NONE => Translate(v) \notin TableFrames
    /\ \A v \in HeapPages : Translate(v) # NONE => MayBeMapped(v)
    /\ \A v, w \in HeapPages : Translate(v) # NONE /\ Translate(v) = Translate(w) => v = w
    /\ \A v \in live : Translate(v) # NONE

\* The ranges vallocs returned lie below the heap pointer.
Granted ==
    \A r \in granted : /\ r \in [start : Nat, count : Nat]
                       /\ KHEAP_BASE <= r.start /\ r.start + r.count <= next_virt

VInv ==
    /\ IInv
    /\ VmmTypeOK
    /\ Tree
    /\ Stages
    /\ FramesAccounted
    /\ Todo
    /\ Call
    /\ Heap
    /\ Granted

-----------------------------------------------------------------------------
(* What a write to a page table does to the walks.                         *)

Table == [Entries -> Nat \cup {NONE}]

\* Writing a PTE changes the translation of its page and of no other page.
LEMMA PteWrite ==
    ASSUME VmmTypeOK, Tree, roots' = roots,
           NEW v \in VirtualPages, NEW x \in Nat \cup {NONE}, Pt(v) # NONE,
           table' = [table EXCEPT ![Pt(v)][Index(v, 0)] = x]
    PROVE  /\ TableFrames' = TableFrames
           /\ \A f \in TableFrames : table'[f] \in Table
           /\ pml4' = pml4
           /\ \A w \in VirtualPages : Translate(w)' = IF w = v THEN x ELSE Translate(w)
           /\ Tree'
  <1> DEFINE T == Pt(v)
             e == Index(v, 0)
  <1>1. T \in DOMAIN table /\ T # pml4
    BY DEF Tree, TableFrames
  <1>2. e \in Entries
    BY IndexType DEF VirtualPages
  <1>3. NONE \notin DOMAIN table
    BY DEF VmmTypeOK, NONE
  <1>4. /\ DOMAIN table' = DOMAIN table
        /\ \A f \in DOMAIN table \ {T} : table'[f] = table[f]
        /\ table'[T] = [table[T] EXCEPT ![e] = x]
    BY <1>1
  <1>5. table[T] \in Table /\ table'[T] \in Table
    BY <1>1, <1>2, <1>4 DEF VmmTypeOK, Table
  <1>6. \A f \in DOMAIN table : table'[f] \in Table
    BY <1>4, <1>5 DEF VmmTypeOK, Table
  <1>7. pml4' = pml4
    BY DEF pml4
  <1>8. \A w \in VirtualPages : Index(w, 0) \in Entries
    BY IndexType DEF VirtualPages
  <1>9. \A w \in VirtualPages : Pdpt(w) # T /\ Pd(w) # T
    BY DEF Tree
  <1> HIDE DEF T
  <1>10. ASSUME NEW w \in VirtualPages PROVE Pdpt(w)' = Pdpt(w)
    BY <1>1, <1>4, <1>7 DEF Pdpt, Entry
  <1>11. ASSUME NEW w \in VirtualPages PROVE Pd(w)' = Pd(w)
    BY <1>3, <1>4, <1>9, <1>10 DEF Pd, Entry
  <1>12. ASSUME NEW w \in VirtualPages PROVE Pt(w)' = Pt(w)
    BY <1>3, <1>4, <1>9, <1>11 DEF Pt, Entry
  <1>13. ASSUME NEW w \in VirtualPages, w # v
         PROVE  Pt(w) # T \/ Index(w, 0) # e
    <2> SUFFICES ASSUME Pt(w) = T, Index(w, 0) = e PROVE FALSE
      OBVIOUS
    <2>1. Pd(w) = Pd(v) /\ Index(w, 1) = Index(v, 1) /\ Pd(v) # NONE
      BY <1>3 DEF T, Tree, Pt, Entry
    <2>2. Pdpt(w) = Pdpt(v) /\ Index(w, 2) = Index(v, 2) /\ Pdpt(v) # NONE
      BY <1>3, <2>1 DEF Tree, Pd, Entry
    <2>3. Index(w, 3) = Index(v, 3)
      BY <2>2 DEF Tree
    <2> QED BY <1>13, <2>1, <2>2, <2>3, IndicesDetermine
  <1>14. ASSUME NEW w \in VirtualPages
         PROVE  Translate(w)' = IF w = v THEN x ELSE Translate(w)
    <2>1. Pt(w)' = Pt(w)
      BY <1>12
    <2>2. CASE w = v
      BY <1>1, <1>2, <1>4, <1>5, <2>1, <2>2 DEF Translate, Entry, T, Table
    <2>3. CASE w # v
      BY <1>1, <1>4, <1>5, <1>8, <1>13, <2>1, <2>3 DEF Translate, Entry, Table
    <2> QED BY <2>2, <2>3
  <1>7a. Tree'
    BY <1>4, <1>7, <1>10, <1>11, <1>12 DEF Tree, TableFrames
  <1> QED BY <1>4, <1>6, <1>7, <1>14, <1>7a DEF TableFrames

\* A zeroed table n, linked at v's index in table t of the given level.
Linked(v, n, t, level) ==
    table' = [f \in TableFrames \cup {n} |->
                CASE f = n -> ZeroTable
                  [] f = t -> [table[f] EXCEPT ![Index(v, level)] = n]
                  [] OTHER -> table[f]]

\* The entries after a new table is linked.
LEMMA LinkedEntries ==
    ASSUME VmmTypeOK, roots' = roots,
           NEW v \in VirtualPages, NEW n \in Nat \ TableFrames,
           NEW t \in TableFrames, NEW level \in 1 .. 3,
           Linked(v, n, t, level)
    PROVE  /\ TableFrames' = TableFrames \cup {n}
           /\ \A f \in TableFrames' : table'[f] \in Table
           /\ pml4' = pml4
           /\ NONE \notin TableFrames \cup {n}
           /\ \A w \in VirtualPages, l \in 0 .. 3 :
                 /\ Entry(n, w, l)' = NONE
                 /\ Entry(t, w, l)' = IF Index(w, l) = Index(v, level) THEN n ELSE Entry(t, w, l)
                 /\ \A f \in TableFrames \ {t} : Entry(f, w, l)' = Entry(f, w, l)
  <1> USE DEF TableFrames
  <1>1. Index(v, level) \in Entries
    BY IndexType DEF VirtualPages
  <1>2. \A w \in VirtualPages, l \in 0 .. 3 : Index(w, l) \in Entries
    BY IndexType DEF VirtualPages
  <1>3. DOMAIN table' = DOMAIN table \cup {n}
    BY DEF Linked
  <1>4. NONE \notin DOMAIN table \cup {n}
    BY DEF VmmTypeOK, NONE
  <1>5. /\ table'[n] = ZeroTable
        /\ table'[t] = [table[t] EXCEPT ![Index(v, level)] = n]
        /\ \A f \in DOMAIN table \ {t} : table'[f] = table[f]
    BY DEF Linked
  <1>6. table[t] \in Table
    BY DEF VmmTypeOK, Table
  <1>7. ZeroTable \in Table /\ table'[t] \in Table
    BY <1>1, <1>5, <1>6 DEF ZeroTable, Table
  <1>8. \A f \in TableFrames' : table'[f] \in Table
    BY <1>3, <1>5, <1>7 DEF VmmTypeOK, Table
  <1>9. pml4' = pml4
    BY DEF pml4
  <1>10. ASSUME NEW w \in VirtualPages, NEW l \in 0 .. 3
         PROVE  /\ Entry(n, w, l)' = NONE
                /\ Entry(t, w, l)' = IF Index(w, l) = Index(v, level) THEN n ELSE Entry(t, w, l)
                /\ \A f \in TableFrames \ {t} : Entry(f, w, l)' = Entry(f, w, l)
    <2>1. Index(w, l) \in Entries
      BY <1>2
    <2>2. Entry(n, w, l)' = NONE
      BY <1>3, <1>5, <2>1 DEF Entry, ZeroTable
    <2>3. Entry(t, w, l)' = IF Index(w, l) = Index(v, level) THEN n ELSE Entry(t, w, l)
      BY <1>1, <1>3, <1>5, <1>6, <2>1 DEF Entry, Table
    <2>4. \A f \in TableFrames \ {t} : Entry(f, w, l)' = Entry(f, w, l)
      BY <1>3, <1>5 DEF Entry
    <2> QED BY <2>2, <2>3, <2>4
  <1> QED BY <1>3, <1>4, <1>8, <1>9, <1>10

\* A new table below the root: every walk still ends where it did.
LEMMA LinkPdpt ==
    ASSUME VmmTypeOK, Tree, roots' = roots, pml4 \in TableFrames,
           NEW v \in VirtualPages, NEW n \in Nat \ TableFrames,
           Pdpt(v) = NONE,
           NEW t \in TableFrames, t = pml4, Linked(v, n, t, 3)
    PROVE  (\A w \in VirtualPages : Translate(w)' = Translate(w)) /\ Tree'
  <1>1. /\ TableFrames' = TableFrames \cup {n}
        /\ pml4' = pml4
        /\ NONE \notin TableFrames \cup {n}
        /\ \A w \in VirtualPages, l \in 0 .. 3 :
              /\ Entry(n, w, l)' = NONE
              /\ Entry(t, w, l)' = IF Index(w, l) = Index(v, 3) THEN n ELSE Entry(t, w, l)
              /\ \A f \in TableFrames \ {t} : Entry(f, w, l)' = Entry(f, w, l)
    BY LinkedEntries
  <1>2. ASSUME NEW w \in VirtualPages
        PROVE  /\ Pdpt(w)' = IF Index(w, 3) = Index(v, 3) THEN n ELSE Pdpt(w)
               /\ Index(w, 3) = Index(v, 3) => Pdpt(w) = NONE
    BY <1>1 DEF Pdpt, Entry, TableFrames
  <1>3. ASSUME NEW w \in VirtualPages PROVE Pd(w)' = Pd(w)
    BY <1>1, <1>2 DEF Pd, Entry, TableFrames, Tree
  <1>4. ASSUME NEW w \in VirtualPages PROVE Pt(w)' = Pt(w)
    BY <1>1, <1>3 DEF Pt, Entry, TableFrames, Tree
  <1>5. ASSUME NEW w \in VirtualPages PROVE Translate(w)' = Translate(w)
    BY <1>1, <1>4 DEF Translate, Entry, TableFrames, Tree
  <1>6. Tree'
    <2>1. ASSUME NEW w \in VirtualPages
          PROVE  /\ Pdpt(w)' # NONE => Pdpt(w)' \in TableFrames' \ {pml4'}
                 /\ Pd(w)' # NONE => Pd(w)' \in TableFrames' \ {pml4'}
                 /\ Pt(w)' # NONE => Pt(w)' \in TableFrames' \ {pml4'}
      BY <1>1, <1>2, <1>3, <1>4 DEF Tree
    <2>2. ASSUME NEW w \in VirtualPages, NEW u \in VirtualPages
          PROVE  /\ Pdpt(w)' # NONE => Pdpt(w)' \notin {Pd(u)', Pt(u)'}
                 /\ Pd(w)' # NONE => Pd(w)' # Pt(u)'
                 /\ Pdpt(w)' # NONE /\ Pdpt(w)' = Pdpt(u)' => Index(w, 3) = Index(u, 3)
      BY <1>1, <1>2, <1>3, <1>4 DEF Tree
    <2>3. ASSUME NEW w \in VirtualPages, NEW u \in VirtualPages
          PROVE  /\ Pd(w)' # NONE /\ Pd(w)' = Pd(u)' =>
                      Pdpt(w)' = Pdpt(u)' /\ Index(w, 2) = Index(u, 2)
                 /\ Pt(w)' # NONE /\ Pt(w)' = Pt(u)' =>
                      Pd(w)' = Pd(u)' /\ Index(w, 1) = Index(u, 1)
      <3>1. \A x \in VirtualPages : Pd(x) # NONE => Pdpt(x) # NONE
        BY <1>1 DEF Pd, Entry, TableFrames
      <3>2. \A x \in VirtualPages : Pd(x) # NONE => Pdpt(x)' = Pdpt(x)
        BY <1>2, <3>1
      <3> QED BY <1>3, <1>4, <3>2 DEF Tree
    <2> QED BY <2>1, <2>2, <2>3 DEF Tree
  <1> QED BY <1>5, <1>6

\* The same one level down.
LEMMA LinkPd ==
    ASSUME VmmTypeOK, Tree, roots' = roots, pml4 \in TableFrames,
           NEW v \in VirtualPages, NEW n \in Nat \ TableFrames,
           Pdpt(v) # NONE, Pd(v) = NONE,
           NEW t \in TableFrames, t = Pdpt(v), Linked(v, n, t, 2)
    PROVE  (\A w \in VirtualPages : Translate(w)' = Translate(w)) /\ Tree'
  <1>1. /\ TableFrames' = TableFrames \cup {n}
        /\ pml4' = pml4
        /\ NONE \notin TableFrames \cup {n}
        /\ \A w \in VirtualPages, l \in 0 .. 3 :
              /\ Entry(n, w, l)' = NONE
              /\ Entry(t, w, l)' = IF Index(w, l) = Index(v, 2) THEN n ELSE Entry(t, w, l)
              /\ \A f \in TableFrames \ {t} : Entry(f, w, l)' = Entry(f, w, l)
    BY LinkedEntries
  <1>2. \A w \in VirtualPages : t # Pd(w) /\ t # Pt(w) /\ t # pml4
    <2>1. t # NONE /\ t # pml4
      BY DEF Tree
    <2>2. ASSUME NEW w \in VirtualPages PROVE Pdpt(v) # Pd(w) /\ Pdpt(v) # Pt(w)
      BY <2>1 DEF Tree
    <2> QED BY <2>1, <2>2
  <1>3. ASSUME NEW w \in VirtualPages PROVE Pdpt(w)' = Pdpt(w)
    BY <1>1, <1>2 DEF Pdpt, Entry, TableFrames
  <1>4. ASSUME NEW w \in VirtualPages
        PROVE  /\ Pd(w)' = IF Pdpt(w) = t /\ Index(w, 2) = Index(v, 2) THEN n ELSE Pd(w)
               /\ Pdpt(w) = t /\ Index(w, 2) = Index(v, 2) => Pd(w) = NONE
    BY <1>1, <1>3 DEF Pd, Entry, TableFrames, Tree
  <1>5. ASSUME NEW w \in VirtualPages PROVE Pt(w)' = Pt(w)
    BY <1>1, <1>2, <1>4 DEF Pt, Entry, TableFrames, Tree
  <1>6. ASSUME NEW w \in VirtualPages PROVE Translate(w)' = Translate(w)
    BY <1>1, <1>2, <1>5 DEF Translate, Entry, TableFrames, Tree
  <1>7. Tree'
    <2>1. ASSUME NEW w \in VirtualPages
          PROVE  /\ Pdpt(w)' # NONE => Pdpt(w)' \in TableFrames' \ {pml4'}
                 /\ Pd(w)' # NONE => Pd(w)' \in TableFrames' \ {pml4'}
                 /\ Pt(w)' # NONE => Pt(w)' \in TableFrames' \ {pml4'}
      BY <1>1, <1>3, <1>4, <1>5 DEF Tree
    <2>2. ASSUME NEW w \in VirtualPages, NEW u \in VirtualPages
          PROVE  /\ Pdpt(w)' # NONE => Pdpt(w)' \notin {Pd(u)', Pt(u)'}
                 /\ Pd(w)' # NONE => Pd(w)' # Pt(u)'
                 /\ Pdpt(w)' # NONE /\ Pdpt(w)' = Pdpt(u)' => Index(w, 3) = Index(u, 3)
      BY <1>1, <1>3, <1>4, <1>5 DEF Tree
    <2>3. ASSUME NEW w \in VirtualPages, NEW u \in VirtualPages
          PROVE  Pd(w)' # NONE /\ Pd(w)' = Pd(u)' =>
                    Pdpt(w)' = Pdpt(u)' /\ Index(w, 2) = Index(u, 2)
      BY <1>1, <1>3, <1>4 DEF Tree
    <2>4. ASSUME NEW w \in VirtualPages, NEW u \in VirtualPages
          PROVE  Pt(w)' # NONE /\ Pt(w)' = Pt(u)' =>
                    Pd(w)' = Pd(u)' /\ Index(w, 1) = Index(u, 1)
      <3>1. \A x \in VirtualPages : Pt(x) # NONE => Pd(x) # NONE
        BY <1>1 DEF Pt, Entry, TableFrames
      <3>2. \A x \in VirtualPages : Pt(x) # NONE => Pd(x)' = Pd(x)
        BY <1>4, <3>1
      <3> QED BY <1>5, <3>2 DEF Tree
    <2> QED BY <2>1, <2>2, <2>3, <2>4 DEF Tree
  <1> QED BY <1>6, <1>7

\* And a new table of PTEs.
LEMMA LinkPt ==
    ASSUME VmmTypeOK, Tree, roots' = roots, pml4 \in TableFrames,
           NEW v \in VirtualPages, NEW n \in Nat \ TableFrames,
           Pd(v) # NONE, Pt(v) = NONE,
           NEW t \in TableFrames, t = Pd(v), Linked(v, n, t, 1)
    PROVE  (\A w \in VirtualPages : Translate(w)' = Translate(w)) /\ Tree'
  <1>1. /\ TableFrames' = TableFrames \cup {n}
        /\ pml4' = pml4
        /\ NONE \notin TableFrames \cup {n}
        /\ \A w \in VirtualPages, l \in 0 .. 3 :
              /\ Entry(n, w, l)' = NONE
              /\ Entry(t, w, l)' = IF Index(w, l) = Index(v, 1) THEN n ELSE Entry(t, w, l)
              /\ \A f \in TableFrames \ {t} : Entry(f, w, l)' = Entry(f, w, l)
    BY LinkedEntries
  <1>2. \A w \in VirtualPages : t # Pdpt(w) /\ t # Pt(w) /\ t # pml4
    <2>1. t # NONE /\ t # pml4
      BY DEF Tree
    <2>2. ASSUME NEW w \in VirtualPages PROVE Pdpt(w) # Pd(v) /\ Pd(v) # Pt(w)
      BY <2>1 DEF Tree
    <2> QED BY <2>1, <2>2
  <1>3. ASSUME NEW w \in VirtualPages PROVE Pdpt(w)' = Pdpt(w)
    BY <1>1, <1>2 DEF Pdpt, Entry, TableFrames
  <1>4. ASSUME NEW w \in VirtualPages PROVE Pd(w)' = Pd(w)
    BY <1>1, <1>2, <1>3 DEF Pd, Entry, TableFrames, Tree
  <1>5. ASSUME NEW w \in VirtualPages
        PROVE  /\ Pt(w)' = IF Pd(w) = t /\ Index(w, 1) = Index(v, 1) THEN n ELSE Pt(w)
               /\ Pd(w) = t /\ Index(w, 1) = Index(v, 1) => Pt(w) = NONE
    BY <1>1, <1>4 DEF Pt, Entry, TableFrames, Tree
  <1>6. ASSUME NEW w \in VirtualPages PROVE Translate(w)' = Translate(w)
    BY <1>1, <1>2, <1>5 DEF Translate, Entry, TableFrames, Tree
  <1>7. Tree'
    BY <1>1, <1>3, <1>4, <1>5 DEF Tree
  <1> QED BY <1>6, <1>7

\* An element of a sequence is in its range.
LEMMA SeqElement ==
    ASSUME NEW S, NEW s \in Seq(S), NEW k \in 1 .. Len(s)
    PROVE  s[k] \in S
  OBVIOUS

\* The tables init_vmm starts with are a tree that maps the first FANOUT
\* pages and no other.
LEMMA RootTree ==
    ASSUME roots \in Seq(Nat), Len(roots) = 4, roots' = roots, table' = RootTables,
           \A k \in 1 .. 4 : roots[k] # 0,
           \A j, k \in 1 .. 4 : roots[j] = roots[k] => j = k
    PROVE  /\ TableFrames' = {roots[k] : k \in 1 .. 4}
           /\ \A f \in TableFrames' : table'[f] \in Table
           /\ (pml4 \in TableFrames)'
           /\ \A w \in VirtualPages : Translate(w)' # NONE => w < FANOUT /\ Translate(w)' = w
           /\ Tree'
  <1> DEFINE a == roots[1]
             b == roots[2]
             c == roots[3]
             d == roots[4]
  <1>1. /\ a \in Nat /\ b \in Nat /\ c \in Nat /\ d \in Nat
        /\ a \notin {b, c, d} /\ b \notin {c, d} /\ c # d
    <2>1. 1 \in 1 .. 4 /\ 2 \in 1 .. 4 /\ 3 \in 1 .. 4 /\ 4 \in 1 .. 4
      OBVIOUS
    <2>2. ASSUME NEW k \in 1 .. 4 PROVE roots[k] \in Nat
      <3>1. k \in 1 .. Len(roots)
        OBVIOUS
      <3> QED BY <3>1, SeqElement
    <2> QED BY <2>1, <2>2
  <1>2. {roots[k] : k \in 1 .. 4} = {a, b, c, d}
    <2>1. 1 .. 4 = {1, 2, 3, 4}
      OBVIOUS
    <2> QED BY <2>1
  <1>3. pml4' = a
    BY DEF pml4
  <1> DEFINE Root(n) == [ZeroTable EXCEPT ![0] = n]
  <1>4. /\ DOMAIN table' = {a, b, c, d}
        /\ table'[a] = Root(b) /\ table'[b] = Root(c) /\ table'[c] = Root(d)
        /\ table'[d] = [e \in Entries |-> e]
    BY <1>1, <1>2 DEF RootTables
  <1> HIDE DEF a, b, c, d
  <1>5. 0 \in Entries /\ Entries \subseteq Nat
    BY VmmAssumption DEF Entries
  <1>6. ASSUME NEW n \in Nat
        PROVE  Root(n) \in Table /\ \A e \in Entries : Root(n)[e] = IF e = 0 THEN n ELSE NONE
    BY <1>5 DEF ZeroTable, Table
  <1> HIDE DEF Root
  <1>7. \A f \in DOMAIN table' : table'[f] \in Table
    <2>1. [e \in Entries |-> e] \in Table
      BY <1>5 DEF Table
    <2> QED BY <1>1, <1>4, <1>6, <2>1
  <1>8. NONE \notin DOMAIN table'
    BY <1>1, <1>4 DEF NONE
  <1>9. \A w \in VirtualPages, l \in 0 .. 3 : Index(w, l) \in Entries
    BY IndexType DEF VirtualPages
  <1>10. ASSUME NEW w \in VirtualPages
         PROVE  Pdpt(w)' = IF Index(w, 3) = 0 THEN b ELSE NONE
    BY <1>1, <1>3, <1>4, <1>6, <1>9 DEF Pdpt, Entry
  <1>11. ASSUME NEW w \in VirtualPages
         PROVE  Pd(w)' = IF Index(w, 3) = 0 /\ Index(w, 2) = 0 THEN c ELSE NONE
    BY <1>1, <1>4, <1>6, <1>8, <1>9, <1>10 DEF Pd, Entry
  <1>12. ASSUME NEW w \in VirtualPages
         PROVE  Pt(w)' = IF Index(w, 3) = 0 /\ Index(w, 2) = 0 /\ Index(w, 1) = 0
                         THEN d ELSE NONE
    BY <1>1, <1>4, <1>6, <1>8, <1>9, <1>11 DEF Pt, Entry
  <1>13. ASSUME NEW w \in VirtualPages, Translate(w)' # NONE
         PROVE  w < FANOUT /\ Translate(w)' = w
    <2>1. Pt(w)' # NONE
      BY <1>8, <1>13 DEF Translate, Entry
    <2>2. Pt(w)' = d /\ Index(w, 1) = 0 /\ Index(w, 2) = 0 /\ Index(w, 3) = 0
      BY <1>12, <2>1
    <2>3. w < FANOUT /\ Index(w, 0) = w
      BY <2>2, FirstPages
    <2>4. Translate(w)' = Index(w, 0)
      BY <1>4, <1>9, <2>2 DEF Translate, Entry
    <2> QED BY <2>3, <2>4
  <1>14. b # NONE /\ c # NONE /\ d # NONE
    BY <1>1 DEF NONE
  <1>7a. Tree'
    <2>1. ASSUME NEW w \in VirtualPages
          PROVE  /\ Pdpt(w)' # NONE => Pdpt(w)' \in TableFrames' \ {pml4'}
                 /\ Pd(w)' # NONE => Pd(w)' \in TableFrames' \ {pml4'}
                 /\ Pt(w)' # NONE => Pt(w)' \in TableFrames' \ {pml4'}
      BY <1>1, <1>3, <1>4, <1>10, <1>11, <1>12 DEF TableFrames
    <2>2. ASSUME NEW w \in VirtualPages, NEW u \in VirtualPages
          PROVE  /\ Pdpt(w)' # NONE => Pdpt(w)' \notin {Pd(u)', Pt(u)'}
                 /\ Pd(w)' # NONE => Pd(w)' # Pt(u)'
                 /\ Pdpt(w)' # NONE /\ Pdpt(w)' = Pdpt(u)' => Index(w, 3) = Index(u, 3)
                 /\ Pd(w)' # NONE /\ Pd(w)' = Pd(u)' =>
                      Pdpt(w)' = Pdpt(u)' /\ Index(w, 2) = Index(u, 2)
                 /\ Pt(w)' # NONE /\ Pt(w)' = Pt(u)' =>
                      Pd(w)' = Pd(u)' /\ Index(w, 1) = Index(u, 1)
      BY <1>1, <1>10, <1>11, <1>12, <1>14
    <2> QED BY <2>1, <2>2 DEF Tree
  <1> QED BY <1>2, <1>3, <1>4, <1>7, <1>13, <1>7a DEF TableFrames

-----------------------------------------------------------------------------
(* What palloc and the boot ranges give.                                   *)

\* palloc fails and changes no set of frames, or adds a frame nobody held.
LEMMA PallocFresh ==
    ASSUME IInv, Palloc
    PROVE  /\ IInv'
           /\ \/ ret' = 0 /\ held' = held
              \/ ret' \in Nat \ {0} /\ ret' \notin held /\ held' = held \cup {ret'}
           /\ max_pages' = max_pages
           /\ UNCHANGED <<mem_map, panicked, reserved>>
  <1>1. IInv'
    BY NextIInv DEF Next
  <1>2. UNCHANGED <<mem_map, panicked, reserved>>
    BY DEF Palloc
  <1>3. PICK address \in {0} \cup {b * PAGE_SIZE : b \in ClearBits} :
           /\ palloc(address)
           /\ ret' = address \div PAGE_SIZE
           /\ held' = IF address = 0 THEN held ELSE held \cup {address \div PAGE_SIZE}
    BY DEF Palloc
  <1>4. CASE address = 0 /\ UNCHANGED pmmState /\ ClearBits = {}
    <2>1. (0 * PAGE_SIZE) \div PAGE_SIZE = 0 /\ 0 * PAGE_SIZE = 0
      BY MulDiv, PmmAssumption
    <2> QED BY <1>1, <1>2, <1>3, <1>4, <2>1 DEF pmmState
  <1>5. CASE \E b \in ClearBits :
               /\ address = b * PAGE_SIZE /\ address # 0 /\ address \div PAGE_SIZE = b
               /\ mark_used({b})
               /\ UNCHANGED <<sizeof_bitmap, max_pages, bitmap_addr, bitmap_init>>
    <2>1. PICK b \in ClearBits : address # 0 /\ address \div PAGE_SIZE = b
      BY <1>5
    <2>2. max_pages' = max_pages
      BY <1>5
    <2>3. b \in Nat
      BY BitsFacts DEF IInv
    <2>4. bitmap_init
      BY PmmAssumption DEF IInv, EmptyBeforeInit, ClearBits, Bits, TypeOK
    <2>5. b # 0 /\ b \notin held
      BY <2>4 DEF IInv, PagesConserved, Protected
    <2> QED BY <1>1, <1>2, <1>3, <2>1, <2>2, <2>3, <2>5
  <1> QED BY <1>3, <1>4, <1>5, PallocEffect DEF IInv

\* The remainder of a number below twice the divisor.
LEMMA ModOnce ==
    ASSUME NEW n \in Nat, NEW d \in Nat \ {0}, n < d + d
    PROVE  n % d = IF n < d THEN n ELSE n - d
  <1>1. CASE n < d
    <2>1. (d * 0 + n) % d = n
      BY <1>1, DivModUnique
    <2> QED BY <1>1, <2>1
  <1>2. CASE ~(n < d)
    <2>1. (d * 1 + (n - d)) % d = n - d
      BY <1>2, DivModUnique
    <2> QED BY <1>2, <2>1
  <1> QED BY <1>1, <1>2

\* The heap is part of the address space.
LEMMA HeapFacts ==
    /\ FANOUT \in Nat /\ KHEAP_BASE \in Nat /\ PASSTHRU_BASE \in Nat
    /\ VSPACE \in Nat /\ PASSTHRU_BASE < VSPACE /\ FANOUT <= KHEAP_BASE
    /\ KHEAP_BASE <= PASSTHRU_BASE
    /\ HeapPages \subseteq VirtualPages
  <1>1. /\ FANOUT \in Nat /\ KHEAP_BASE \in Nat /\ PASSTHRU_BASE \in Nat
        /\ PASSTHRU_BASE < VSPACE /\ FANOUT <= KHEAP_BASE /\ KHEAP_BASE <= PASSTHRU_BASE
    BY VmmAssumption
  <1>2. VSPACE \in Nat
    BY <1>1 DEF VSPACE
  <1> QED BY <1>1, <1>2 DEF HeapPages, VirtualPages

\* The first page of a boot range is no heap page.
LEMMA TargetAway ==
    ASSUME NEW r \in MapRange, AwayFromHeap(r), r.pages > 0
    PROVE  r.virt % VSPACE \in VirtualPages \ HeapPages
  <1>1. r.virt \in Nat /\ r.pages \in Nat
    BY DEF MapRange
  <1>2. r.virt < VSPACE + VSPACE
    BY <1>1, HeapFacts DEF AwayFromHeap
  <1>3. r.virt % VSPACE = IF r.virt < VSPACE THEN r.virt ELSE r.virt - VSPACE
    BY <1>1, <1>2, HeapFacts, ModOnce
  <1> QED BY <1>1, <1>3, HeapFacts DEF AwayFromHeap, VirtualPages, HeapPages

\* All ranges of init_vmm are clear of the heap.
LEMMA BootRangesAway ==
    ASSUME TypeOK, max_pages <= KHEAP_BASE
    PROVE  BootRanges \in Seq(MapRange) /\ \A k \in DOMAIN BootRanges : AwayFromHeap(BootRanges[k])
  <1> DEFINE Away == {r \in MapRange : AwayFromHeap(r)}
             window == [phys |-> 0, virt |-> PASSTHRU_BASE, pages |-> max_pages]
  <1>1. EarlyRanges \in Seq(Away)
    BY VmmAssumption DEF AwayFromHeap
  <1>2. LateRanges \in Seq(Away)
    BY VmmAssumption DEF AwayFromHeap
  <1>3. Initramfs \in Away /\ ApicRange \in Away
    BY VmmAssumption DEF AwayFromHeap
  <1>4. window \in Away
    BY HeapFacts DEF AwayFromHeap, MapRange, TypeOK
  <1>5. ConventionalRanges \in Seq(Away)
    <2>1. mem_map \in Seq(Descriptor)
      BY PmmAssumption DEF TypeOK
    <2>2. ASSUME NEW i \in DOMAIN mem_map PROVE ConventionalRanges[i] \in Away
      <3>1. mem_map[i] \in Descriptor
        BY <2>1
      <3>2. mem_map[i].PhysicalStart \in Nat /\ mem_map[i].NumberOfPages \in Nat
        BY <3>1 DEF Descriptor
      <3>3. ConventionalRanges[i] =
               [phys |-> mem_map[i].PhysicalStart, virt |-> mem_map[i].PhysicalStart,
                pages |-> IF mem_map[i].conventional THEN mem_map[i].NumberOfPages ELSE 0]
        BY DEF ConventionalRanges
      <3>4. ConventionalRanges[i] \in MapRange
        BY <3>2, <3>3 DEF MapRange
      <3>5. CASE mem_map[i].conventional
        <4>1. mem_map[i].PhysicalStart + mem_map[i].NumberOfPages \in RegionEnds(mem_map)
          BY <2>1, <3>5 DEF RegionEnds, Conventional
        <4>2. mem_map[i].PhysicalStart + mem_map[i].NumberOfPages <= KHEAP_BASE
          BY <4>1, VmmAssumption DEF TypeOK
        <4> QED BY <3>3, <3>4, <3>5, <4>2 DEF AwayFromHeap
      <3>6. CASE ~mem_map[i].conventional
        BY <3>3, <3>4, <3>6 DEF AwayFromHeap
      <3> QED BY <3>5, <3>6
    <2> QED BY <2>1, <2>2 DEF ConventionalRanges
  <1> HIDE DEF Away, window
  <1>6. ConventionalRanges \o <<ApicRange>> \in Seq(Away)
    BY <1>3, <1>5
  <1>7. BootRanges \in Seq(Away)
    BY <1>1, <1>2, <1>3, <1>4, <1>6 DEF BootRanges, window
  <1> QED BY <1>7 DEF Away

-----------------------------------------------------------------------------
(* The invariant holds initially and every step preserves it.              *)

\* With no table written every walk ends where it did.
LEMMA SameTables ==
    ASSUME roots' = roots, table' = table
    PROVE  /\ TableFrames' = TableFrames /\ pml4' = pml4
           /\ \A w \in VirtualPages : Translate(w)' = Translate(w)
           /\ Tree => Tree'
  <1>1. TableFrames' = TableFrames /\ pml4' = pml4
    BY DEF TableFrames, pml4
  <1>2. ASSUME NEW w \in VirtualPages PROVE Pdpt(w)' = Pdpt(w)
    BY <1>1 DEF Pdpt, Entry
  <1>3. ASSUME NEW w \in VirtualPages PROVE Pd(w)' = Pd(w)
    BY <1>2 DEF Pd, Entry
  <1>4. ASSUME NEW w \in VirtualPages PROVE Pt(w)' = Pt(w)
    BY <1>3 DEF Pt, Entry
  <1>5. ASSUME NEW w \in VirtualPages PROVE Translate(w)' = Translate(w)
    BY <1>4 DEF Translate, Entry
  <1>6. Tree => Tree'
    BY <1>1, <1>2, <1>3, <1>4 DEF Tree
  <1> QED BY <1>1, <1>5, <1>6

\* Without a table nothing is mapped.
LEMMA NoTables ==
    ASSUME DOMAIN table = {}
    PROVE  TableFrames = {} /\ HeapFrames = {} /\ Tree /\ \A w : Translate(w) = NONE
  <1>1. \A t, w, l : Entry(t, w, l) = NONE
    BY DEF Entry
  <1>2. \A w : Pdpt(w) = NONE /\ Pd(w) = NONE /\ Pt(w) = NONE /\ Translate(w) = NONE
    BY <1>1 DEF Pdpt, Pd, Pt, Translate
  <1> QED BY <1>2 DEF TableFrames, HeapFrames, Tree

\* VmmInit establishes the invariant.
LEMMA InitVInv == VmmInit => VInv
  <1> SUFFICES ASSUME VmmInit PROVE VInv
    OBVIOUS
  <1> USE DEF VmmInit
  <1>1. IInv
    BY InitIInv
  <1>2. DOMAIN table = {}
    OBVIOUS
  <1>3. TableFrames = {} /\ HeapFrames = {} /\ Tree /\ \A w : Translate(w) = NONE
    BY <1>2, NoTables
  <1>4. VmmTypeOK
    BY <1>2, HeapFacts DEF VmmTypeOK
  <1>5. Stages
    BY <1>2, HeapFacts DEF Stages, Init
  <1>6. FramesAccounted
    BY <1>3 DEF FramesAccounted, InFlight, Init
  <1>7. Todo /\ Call /\ Granted
    BY DEF Todo, Call, Granted
  <1>8. Heap
    BY <1>3 DEF Heap
  <1> QED BY <1>1, <1>3, <1>4, <1>5, <1>6, <1>7, <1>8 DEF VInv

\* init_pmm before init_vmm.
LEMMA BootPmmVInv ==
    ASSUME VInv, BootPmm PROVE VInv'
  <1> USE DEF VInv, BootPmm
  <1>1. IInv'
    BY NextIInv DEF Next
  <1>2. DOMAIN table = {} /\ DOMAIN table' = {} /\ live' = {} /\ granted' = {} /\ roots' = <<>>
    BY DEF Stages
  <1>3. (TableFrames = {} /\ HeapFrames = {} /\ Tree /\ \A w : Translate(w) = NONE)'
    <2>1. (DOMAIN table = {})'
      BY <1>2
    <2> QED BY <2>1, NoTables, PTL
  <1>4. VmmTypeOK'
    BY <1>2 DEF VmmTypeOK
  <1>5. max_pages' <= KHEAP_BASE
    <2>1. PICK n \in {0} \cup RegionEnds(mem_map) : max_pages' = n \/ max_pages' = max_pages
      BY DEF InitPmm, init_pmm, pmmState
    <2>2. RegionEnds(mem_map) \subseteq 0 .. KHEAP_BASE
      BY MemMapFacts, VmmAssumption DEF IInv, TypeOK
    <2> QED BY <2>1, <2>2, HeapFacts DEF Stages
  <1>6. Stages'
    BY <1>2, <1>5 DEF Stages
  <1>7. held' = {}
    BY DEF InitPmm, IInv, EmptyBeforeInit
  <1>8. FramesAccounted'
    BY <1>2, <1>3, <1>7 DEF FramesAccounted, InFlight
  <1>9. Todo' /\ Call' /\ Granted'
    BY <1>2 DEF Todo, Call, Granted
  <1>10. Heap'
    BY <1>2, <1>3 DEF Heap
  <1> QED BY <1>1, <1>3, <1>4, <1>6, <1>8, <1>9, <1>10

\* One of the four pallocs at the top of init_vmm.
LEMMA AllocRootVInv ==
    ASSUME VInv, AllocRoot PROVE VInv'
  <1> USE DEF VInv, AllocRoot
  <1>1. /\ IInv' /\ max_pages' = max_pages
        /\ \/ ret' = 0 /\ held' = held
           \/ ret' \in Nat \ {0} /\ ret' \notin held /\ held' = held \cup {ret'}
        /\ UNCHANGED <<mem_map, panicked, reserved>>
    BY PallocFresh
  <1>2. DOMAIN table = {} /\ DOMAIN table' = {} /\ live' = {} /\ granted' = {}
    BY DEF Stages
  <1>3. TableFrames = {} /\ HeapFrames = {}
    BY <1>2, NoTables
  <1>4. (TableFrames = {} /\ HeapFrames = {} /\ Tree /\ \A w : Translate(w) = NONE)'
    <2>1. (DOMAIN table = {})'
      BY <1>2
    <2> QED BY <2>1, NoTables, PTL
  <1>5. /\ roots \in Seq(Nat) /\ roots' \in Seq(Nat)
        /\ Len(roots') = Len(roots) + 1
        /\ \A k \in DOMAIN roots : roots'[k] = roots[k]
        /\ roots'[Len(roots')] = ret'
        /\ DOMAIN roots' = DOMAIN roots \cup {Len(roots) + 1}
    BY <1>1 DEF VmmTypeOK
  <1>6. held = {roots[k] : k \in DOMAIN roots} \ {0}
    BY <1>3 DEF FramesAccounted, InFlight
  <1>7. VmmTypeOK'
    BY <1>2, <1>5 DEF VmmTypeOK
  <1>8. ASSUME NEW j \in DOMAIN roots', NEW k \in DOMAIN roots',
               roots'[j] # 0, roots'[j] = roots'[k]
        PROVE  j = k
    <2>1. Len(roots) \in Nat /\ DOMAIN roots = 1 .. Len(roots)
      BY <1>5
    <2>2. CASE j \in DOMAIN roots /\ k \in DOMAIN roots
      BY <1>5, <1>8, <2>2 DEF Stages
    <2>3. CASE j \in DOMAIN roots /\ k \notin DOMAIN roots
      BY <1>1, <1>5, <1>6, <1>8, <2>3
    <2>4. CASE j \notin DOMAIN roots /\ k \in DOMAIN roots
      BY <1>1, <1>5, <1>6, <1>8, <2>4
    <2>5. CASE j \notin DOMAIN roots /\ k \notin DOMAIN roots
      BY <1>5, <2>5
    <2> QED BY <2>2, <2>3, <2>4, <2>5
  <1>9. Stages'
    <2>1. ~panicked /\ ~panicked'
      BY <1>1 DEF Palloc
    <2> QED BY <1>1, <1>2, <1>5, <1>8, <2>1 DEF Stages
  <1>10. FramesAccounted'
    <2>1. {roots'[k] : k \in DOMAIN roots'} = {roots[k] : k \in DOMAIN roots} \cup {ret'}
      BY <1>5
    <2>2. held' = {roots'[k] : k \in DOMAIN roots'} \ {0}
      BY <1>1, <1>6, <2>1
    <2> QED BY <1>4, <2>2 DEF FramesAccounted, InFlight
  <1>11. Todo' /\ Call' /\ Granted'
    BY <1>2 DEF Todo, Call, Granted
  <1>12. Heap'
    BY <1>2, <1>4 DEF Heap
  <1> QED BY <1>1, <1>4, <1>7, <1>9, <1>10, <1>11, <1>12

\* The heap is mapped to the same frames when its translations stay.
LEMMA SameHeapFrames ==
    ASSUME \A w \in HeapPages : Translate(w)' = Translate(w)
    PROVE  HeapFrames' = HeapFrames
  BY DEF HeapFrames

\* The first tables are built, or init_vmm panics.
LEMMA BuildRootVInv ==
    ASSUME VInv, BuildRoot PROVE VInv'
  <1> USE DEF VInv, BuildRoot
  <1>1. IInv' /\ UNCHANGED <<max_pages, held, panicked>>
    BY NextIInv DEF pmmVars, pmmState
  <1>2. DOMAIN table = {} /\ live' = {} /\ granted' = {}
    BY DEF Stages
  <1>3. CASE \E k \in 1 .. 4 : roots[k] = 0
    <2>1. pc' = "panic" /\ roots' = roots /\ table' = table /\ todo' = todo
      BY <1>3
    <2>2. (TableFrames = {} /\ HeapFrames = {} /\ Tree /\ \A w : Translate(w) = NONE)'
      <3>1. (DOMAIN table = {})'
        BY <1>2, <2>1
      <3> QED BY <3>1, NoTables, PTL
    <2>3. VmmTypeOK'
      BY <1>2, <2>1 DEF VmmTypeOK
    <2>4. Stages'
      BY <1>1, <2>1 DEF Stages
    <2>5. FramesAccounted' /\ Todo' /\ Call' /\ Granted'
      BY <1>2, <2>1 DEF FramesAccounted, Todo, Call, Granted
    <2>6. Heap'
      BY <1>2, <2>2 DEF Heap
    <2> QED BY <1>1, <2>2, <2>3, <2>4, <2>5, <2>6
  <1>4. CASE ~(\E k \in 1 .. 4 : roots[k] = 0)
    <2>1. pc' = "map_boot" /\ roots' = roots /\ table' = RootTables /\ todo' = BootRanges
      BY <1>4
    <2>2. roots \in Seq(Nat) /\ DOMAIN roots = 1 .. 4
      BY DEF VmmTypeOK
    <2>3. \A j, k \in 1 .. 4 : roots[j] = roots[k] => j = k
      BY <1>4, <2>2 DEF Stages
    <2>4. /\ TableFrames' = {roots[k] : k \in 1 .. 4}
          /\ \A f \in TableFrames' : table'[f] \in Table
          /\ (pml4 \in TableFrames)'
          /\ \A w \in VirtualPages : Translate(w)' # NONE => w < FANOUT /\ Translate(w)' = w
          /\ Tree'
      BY <1>4, <2>1, <2>2, <2>3, RootTree
    <2>5. \A w \in HeapPages : Translate(w)' = NONE
      BY <2>4, HeapFacts DEF HeapPages
    <2>6. HeapFrames' = {}
      BY <2>5 DEF HeapFrames
    <2>7. BootRanges \in Seq(MapRange) /\ \A k \in DOMAIN BootRanges : AwayFromHeap(BootRanges[k])
      BY BootRangesAway DEF IInv, Stages
    <2>8. TableFrames' \subseteq Nat
      <3>1. \A k \in 1 .. 4 : roots[k] \in Nat
        BY <2>2, SeqElement
      <3> QED BY <2>4, <3>1
    <2>9. VmmTypeOK'
      BY <1>2, <2>1, <2>4, <2>7, <2>8 DEF VmmTypeOK, Table, TableFrames
    <2>10. Stages'
      <3>1. ~panicked
        <4>1. Len(roots) = 4
          OBVIOUS
        <4>2. roots # <<>>
          BY <4>1
        <4> QED BY <4>2 DEF Stages
      <3> QED BY <1>1, <2>1, <2>4, <3>1 DEF Stages
    <2>11. FramesAccounted'
      <3>1. held = {roots[k] : k \in 1 .. 4}
        <4>1. TableFrames = {} /\ HeapFrames = {}
          BY <1>2, NoTables
        <4>2. held = {roots[k] : k \in 1 .. 4} \ {0}
          BY <2>2, <4>1 DEF FramesAccounted, InFlight
        <4> QED BY <1>4, <4>2
      <3> QED BY <1>1, <2>1, <2>4, <2>6, <3>1 DEF FramesAccounted, InFlight
    <2>12. Todo' /\ Call' /\ Granted'
      BY <1>2, <2>1, <2>7 DEF Todo, Call, Granted
    <2>13. Heap'
      BY <1>2, <2>5 DEF Heap
    <2> QED BY <1>1, <2>4, <2>9, <2>10, <2>11, <2>12, <2>13
  <1> QED BY <1>3, <1>4

\* While there is something to map, the range it belongs to is known, and
\* its page is a heap page exactly in vallocs.
LEMMA TargetFacts ==
    ASSUME VInv, Mapping
    PROVE  /\ todo \in Seq(MapRange) /\ todo # <<>> /\ Head(todo) = todo[1]
           /\ todo[1] \in MapRange /\ todo[1].phys \in Nat /\ todo[1].pages > 0
           /\ TargetPage \in VirtualPages
           /\ pc = "map_boot" => TargetPage \notin HeapPages
           /\ pc = "map_heap" => /\ TargetPage = call.start + call.i
                                 /\ TargetPage \in HeapPages
                                 /\ call.start = next_virt
  <1> USE DEF VInv
  <1>1. todo \in Seq(MapRange) /\ todo # <<>>
    BY DEF VmmTypeOK, Mapping
  <1>2. 1 \in 1 .. Len(todo) /\ Head(todo) = todo[1]
    BY <1>1
  <1>3. todo[1] \in MapRange
    BY <1>1, <1>2, SeqElement
  <1>4. todo[1].phys \in Nat /\ todo[1].pages > 0
    BY <1>2, <1>3 DEF MapRange, Mapping
  <1>5. CASE pc = "map_boot"
    <2>1. AwayFromHeap(todo[1])
      BY <1>1, <1>2, <1>5 DEF Todo
    <2>2. TargetPage \in VirtualPages \ HeapPages
      BY <1>2, <1>3, <1>4, <2>1, TargetAway DEF TargetPage
    <2> QED BY <1>1, <1>2, <1>3, <1>4, <1>5, <2>2
  <1>6. CASE pc = "map_heap"
    <2>1. todo[1].virt = call.start + call.i /\ call.i < call.count
      <3>1. todo = <<[phys |-> Head(todo).phys, virt |-> call.start + call.i, pages |-> 1]>>
        BY <1>6 DEF Todo
      <3> QED BY <1>6, <3>1 DEF Todo
    <2>2. call.start = next_virt /\ call.start + call.count <= PASSTHRU_BASE
      BY <1>6 DEF Call
    <2>3. /\ call.start \in Nat /\ call.i \in Nat /\ call.count \in Nat
          /\ next_virt \in Nat /\ KHEAP_BASE <= next_virt
      BY HeapFacts DEF VmmTypeOK
    <2>4. call.start + call.i \in HeapPages
      BY <2>1, <2>2, <2>3, HeapFacts DEF HeapPages
    <2>5. (call.start + call.i) % VSPACE = call.start + call.i
      <3>1. /\ call.start + call.i \in Nat /\ VSPACE \in Nat \ {0}
            /\ call.start + call.i < VSPACE /\ call.start + call.i < VSPACE + VSPACE
        BY <2>1, <2>2, <2>3, HeapFacts
      <3> QED BY <3>1, ModOnce
    <2>6. TargetPage = call.start + call.i
      BY <1>2, <2>1, <2>5 DEF TargetPage
    <2> QED BY <1>1, <1>2, <1>3, <1>4, <1>6, <2>2, <2>4, <2>6, HeapFacts
  <1> QED BY <1>5, <1>6 DEF Mapping

\* A table map_page adds leaves every translation as it was.
LEMMA AllocTableEffect ==
    ASSUME VInv, AllocTable, ret' # 0
    PROVE  /\ IInv'
           /\ ret' \in Nat \ {0} /\ ret' \notin held /\ held' = held \cup {ret'}
           /\ max_pages' = max_pages /\ panicked' = panicked /\ pc' = pc
           /\ TableFrames' = TableFrames \cup {ret'}
           /\ \A f \in TableFrames' : table'[f] \in Table
           /\ pml4' = pml4
           /\ \A w \in VirtualPages : Translate(w)' = Translate(w)
           /\ Tree'
  <1> USE DEF VInv
  <1> DEFINE v == TargetPage
  <1>1. Mapping /\ Palloc /\ Pt(v) = NONE /\ roots' = roots /\ pc' = pc
    BY DEF AllocTable
  <1>2. /\ IInv' /\ max_pages' = max_pages
        /\ ret' \in Nat \ {0} /\ ret' \notin held /\ held' = held \cup {ret'}
        /\ UNCHANGED <<mem_map, panicked, reserved>>
    BY <1>1, PallocFresh
  <1>3. v \in VirtualPages
    BY <1>1, TargetFacts
  <1>4. pc \notin {"boot", "roots", "panic"}
    BY <1>1 DEF Mapping
  <1>5. TableFrames \subseteq held
    BY <1>4 DEF FramesAccounted
  <1>6. pml4 \in TableFrames
    BY <1>4 DEF Stages
  <1>7. PICK n : n = ret'
    OBVIOUS
  <1>8. n \in Nat \ TableFrames
    BY <1>2, <1>5, <1>7
  <1>9. PICK u : u = v
    OBVIOUS
  <1> DEFINE Effect == /\ TableFrames' = TableFrames \cup {n}
                       /\ \A f \in TableFrames' : table'[f] \in Table
                       /\ pml4' = pml4
                       /\ \A w \in VirtualPages : Translate(w)' = Translate(w)
                       /\ Tree'
  <1>10. ASSUME Pdpt(u) = NONE PROVE Effect
    <2>1. PICK t : t = pml4
      OBVIOUS
    <2>2. MissingLevel(v) = [in |-> t, level |-> 3]
      BY <1>9, <1>10, <2>1 DEF MissingLevel
    <2>3. Linked(u, n, t, 3)
      BY <1>7, <1>9, <2>2 DEF AllocTable, Linked
    <2>4. t \in TableFrames
      BY <1>6, <2>1
    <2>5. (\A w \in VirtualPages : Translate(w)' = Translate(w)) /\ Tree'
      BY <1>1, <1>3, <1>6, <1>8, <1>9, <1>10, <2>1, <2>3, <2>4, LinkPdpt
    <2>6. /\ TableFrames' = TableFrames \cup {n} /\ pml4' = pml4
          /\ \A f \in TableFrames' : table'[f] \in Table
      BY <1>1, <1>3, <1>8, <1>9, <2>3, <2>4, LinkedEntries
    <2> QED BY <2>5, <2>6
  <1>11. ASSUME Pdpt(u) # NONE, Pd(u) = NONE PROVE Effect
    <2>1. PICK t : t = Pdpt(u)
      OBVIOUS
    <2>2. MissingLevel(v) = [in |-> t, level |-> 2]
      BY <1>9, <1>11, <2>1 DEF MissingLevel
    <2>3. Linked(u, n, t, 2)
      BY <1>7, <1>9, <2>2 DEF AllocTable, Linked
    <2>4. t \in TableFrames
      BY <1>3, <1>9, <1>11, <2>1 DEF Tree
    <2>5. (\A w \in VirtualPages : Translate(w)' = Translate(w)) /\ Tree'
      BY <1>1, <1>3, <1>6, <1>8, <1>9, <1>11, <2>1, <2>3, <2>4, LinkPd
    <2>6. /\ TableFrames' = TableFrames \cup {n} /\ pml4' = pml4
          /\ \A f \in TableFrames' : table'[f] \in Table
      BY <1>1, <1>3, <1>8, <1>9, <2>3, <2>4, LinkedEntries
    <2> QED BY <2>5, <2>6
  <1>12. ASSUME Pdpt(u) # NONE, Pd(u) # NONE PROVE Effect
    <2>1. PICK t : t = Pd(u)
      OBVIOUS
    <2>2. MissingLevel(v) = [in |-> t, level |-> 1]
      BY <1>9, <1>12, <2>1 DEF MissingLevel
    <2>3. Linked(u, n, t, 1)
      BY <1>7, <1>9, <2>2 DEF AllocTable, Linked
    <2>4. t \in TableFrames
      BY <1>3, <1>9, <1>12, <2>1 DEF Tree
    <2>5. Pt(u) = NONE
      BY <1>1, <1>9
    <2>6. (\A w \in VirtualPages : Translate(w)' = Translate(w)) /\ Tree'
      BY <1>1, <1>3, <1>6, <1>8, <1>9, <1>12, <2>1, <2>3, <2>4, <2>5, LinkPt
    <2>7. /\ TableFrames' = TableFrames \cup {n} /\ pml4' = pml4
          /\ \A f \in TableFrames' : table'[f] \in Table
      BY <1>1, <1>3, <1>8, <1>9, <2>3, <2>4, LinkedEntries
    <2> QED BY <2>6, <2>7
  <1>13. Effect
    BY <1>10, <1>11, <1>12, <1>7
  <1> QED BY <1>1, <1>2, <1>7, <1>13

\* map_page adds a table, or panics.
LEMMA AllocTableVInv ==
    ASSUME VInv, AllocTable PROVE VInv'
  <1> USE DEF VInv
  <1>1. /\ Mapping /\ Palloc
        /\ UNCHANGED <<roots, todo, next_virt, call, live, granted>>
    BY DEF AllocTable
  <1>2. pc \in {"map_boot", "map_heap"}
    BY <1>1 DEF Mapping
  <1>3. CASE ret' = 0
    <2>1. pc' = "panic" /\ table' = table
      BY <1>3 DEF AllocTable
    <2>2. IInv' /\ max_pages' = max_pages
      BY <1>1, PallocFresh
    <2>3. TableFrames' = TableFrames /\ (\A w \in VirtualPages : Translate(w)' = Translate(w)) /\ Tree'
      BY <1>1, <2>1, SameTables
    <2>4. VmmTypeOK'
      BY <1>1, <2>1 DEF VmmTypeOK
    <2>5. Stages' /\ FramesAccounted' /\ Todo' /\ Call' /\ Granted'
      BY <1>1, <2>1, <2>2 DEF Stages, FramesAccounted, Todo, Call, Granted
    <2>6. live \subseteq HeapPages
      BY HeapFacts DEF VmmTypeOK, HeapPages
    <2>7. Heap'
      BY <1>1, <2>1, <2>3, <2>6, HeapFacts DEF Heap, MayBeMapped
    <2> QED BY <2>2, <2>3, <2>4, <2>5, <2>7
  <1>4. CASE ret' # 0
    <2>1. /\ IInv'
          /\ ret' \in Nat \ {0} /\ ret' \notin held /\ held' = held \cup {ret'}
          /\ max_pages' = max_pages /\ panicked' = panicked /\ pc' = pc
          /\ TableFrames' = TableFrames \cup {ret'}
          /\ \A f \in TableFrames' : table'[f] \in Table
          /\ pml4' = pml4
          /\ \A w \in VirtualPages : Translate(w)' = Translate(w)
          /\ Tree'
      BY <1>4, AllocTableEffect
    <2>2. HeapFrames' = HeapFrames
      BY <2>1, SameHeapFrames, HeapFacts
    <2>3. VmmTypeOK'
      BY <1>1, <2>1 DEF VmmTypeOK, Table, TableFrames
    <2>4. Stages'
      BY <1>1, <1>2, <2>1 DEF Stages
    <2>5. InFlight' = InFlight
      BY <1>1, <1>2, <2>1 DEF InFlight
    <2>6. held = TableFrames \cup HeapFrames \cup InFlight
      BY <1>2 DEF FramesAccounted
    <2>7. FramesAccounted'
      BY <2>1, <2>2, <2>5, <2>6 DEF FramesAccounted
    <2>8. Todo'
      BY <1>1, <2>1, <2>2 DEF Todo
    <2>9. live \subseteq HeapPages
      BY HeapFacts DEF VmmTypeOK, HeapPages
    <2>10. Call'
      <3>1. call \in [start : Nat, count : Nat, i : Nat] /\ call.i <= call.count /\ KHEAP_BASE <= next_virt
        BY HeapFacts DEF VmmTypeOK
      <3>2. ASSUME pc = "map_heap", NEW v \in call.start .. (call.start + call.i - 1)
            PROVE  v \in HeapPages
        BY <3>1, <3>2, HeapFacts DEF Call, HeapPages
      <3> QED BY <1>1, <1>2, <2>1, <3>2, HeapFacts DEF Call
    <2>11. Granted'
      BY <1>1 DEF Granted
    <2>12. Heap'
      <3>1. \A v \in HeapPages : Translate(v)' = Translate(v) /\ MayBeMapped(v)' = MayBeMapped(v)
        BY <1>1, <2>1, HeapFacts DEF MayBeMapped
      <3>2. \A v \in HeapPages : Translate(v) # NONE => Translate(v) \in held
        BY <2>6 DEF HeapFrames
      <3> QED BY <1>1, <2>1, <2>9, <3>1, <3>2 DEF Heap
    <2> QED BY <2>1, <2>3, <2>4, <2>7, <2>8, <2>10, <2>11, <2>12
  <1> QED BY <1>3, <1>4

\* The PTE of the page at hand is written and no other.
LEMMA WritePteEffect ==
    ASSUME VInv, WritePte
    PROVE  /\ TableFrames' = TableFrames
           /\ \A f \in TableFrames : table'[f] \in Table
           /\ pml4' = pml4
           /\ \A w \in VirtualPages :
                 Translate(w)' = IF w = TargetPage THEN todo[1].phys ELSE Translate(w)
           /\ Tree'
  <1>1. /\ TargetPage \in VirtualPages /\ todo[1].phys \in Nat /\ Head(todo) = todo[1]
        /\ Pt(TargetPage) # NONE /\ roots' = roots
        /\ table' = [table EXCEPT ![Pt(TargetPage)][Index(TargetPage, 0)] = Head(todo).phys]
    BY TargetFacts DEF WritePte
  <1>2. PICK v : v = TargetPage
    OBVIOUS
  <1>3. PICK x : x = todo[1].phys
    OBVIOUS
  <1>4. /\ v \in VirtualPages /\ x \in Nat \cup {NONE} /\ Pt(v) # NONE
        /\ table' = [table EXCEPT ![Pt(v)][Index(v, 0)] = x]
    BY <1>1, <1>2, <1>3
  <1>5. /\ TableFrames' = TableFrames
        /\ \A f \in TableFrames : table'[f] \in Table
        /\ pml4' = pml4
        /\ \A w \in VirtualPages : Translate(w)' = IF w = v THEN x ELSE Translate(w)
        /\ Tree'
    BY <1>1, <1>4, PteWrite DEF VInv
  <1> QED BY <1>2, <1>3, <1>5

\* map_page writes the PTE.
LEMMA WritePteVInv ==
    ASSUME VInv, WritePte PROVE VInv'
  <1> USE DEF VInv
  <1>1. /\ Mapping
        /\ todo' = [todo EXCEPT ![1] = NextPage(@)]
        /\ UNCHANGED <<pmmVars, roots, next_virt, live, granted>>
    BY DEF WritePte
  <1>2. IInv' /\ UNCHANGED <<held, max_pages, panicked>>
    BY <1>1, NextIInv DEF pmmVars, pmmState
  <1>3. /\ todo \in Seq(MapRange) /\ todo # <<>> /\ Head(todo) = todo[1]
        /\ todo[1] \in MapRange /\ todo[1].phys \in Nat /\ todo[1].pages > 0
        /\ TargetPage \in VirtualPages
        /\ pc = "map_boot" => TargetPage \notin HeapPages
        /\ pc = "map_heap" => /\ TargetPage = call.start + call.i
                              /\ TargetPage \in HeapPages
                              /\ call.start = next_virt
    BY <1>1, TargetFacts
  <1>4. /\ TableFrames' = TableFrames
        /\ \A f \in TableFrames : table'[f] \in Table
        /\ pml4' = pml4
        /\ \A w \in VirtualPages :
              Translate(w)' = IF w = TargetPage THEN todo[1].phys ELSE Translate(w)
        /\ Tree'
    BY WritePteEffect
  <1>5. /\ NextPage(todo[1]) \in MapRange
        /\ todo' \in Seq(MapRange) /\ DOMAIN todo' = DOMAIN todo
        /\ \A k \in DOMAIN todo : todo'[k] = IF k = 1 THEN NextPage(todo[1]) ELSE todo[k]
    <2>1. NextPage(todo[1]) \in MapRange
      BY <1>3 DEF NextPage, MapRange
    <2>2. todo' = [todo EXCEPT ![1] = NextPage(todo[1])]
      BY <1>1
    <2> QED BY <1>3, <2>1, <2>2
  <1>6. live \subseteq HeapPages
    BY HeapFacts DEF VmmTypeOK, HeapPages
  <1>7. Granted'
    BY <1>1 DEF Granted
  <1>8. /\ call \in [start : Nat, count : Nat, i : Nat] /\ call.i <= call.count
        /\ KHEAP_BASE <= next_virt /\ next_virt \in Nat
    BY HeapFacts DEF VmmTypeOK
  <1>9. CASE pc = "map_boot"
    <2>1. pc' = "map_boot" /\ call' = call
      BY <1>9 DEF WritePte
    <2>2. \A w \in HeapPages : Translate(w)' = Translate(w)
      BY <1>3, <1>4, <1>9, HeapFacts
    <2>3. HeapFrames' = HeapFrames
      BY <2>2, SameHeapFrames
    <2>4. VmmTypeOK'
      BY <1>1, <1>4, <1>5, <2>1 DEF VmmTypeOK, Table, TableFrames
    <2>5. Stages'
      BY <1>1, <1>2, <1>4, <2>1, <1>9 DEF Stages
    <2>6. FramesAccounted'
      BY <1>2, <1>4, <1>9, <2>1, <2>3 DEF FramesAccounted, InFlight
    <2>7. Todo'
      <3>1. AwayFromHeap(todo[1])
        BY <1>3, <1>9 DEF Todo
      <3>2. AwayFromHeap(NextPage(todo[1]))
        BY <1>3, <3>1, HeapFacts, SMTT(30) DEF AwayFromHeap, NextPage, MapRange
      <3> QED BY <1>5, <1>9, <2>1, <3>2 DEF Todo
    <2>8. Call'
      BY <2>1 DEF Call
    <2>9. Heap'
      BY <1>1, <1>4, <1>6, <1>9, <2>1, <2>2 DEF Heap, MayBeMapped
    <2> QED BY <1>2, <1>4, <1>7, <2>4, <2>5, <2>6, <2>7, <2>8, <2>9
  <1>10. CASE pc = "map_heap"
    <2> DEFINE v == call.start + call.i
               x == todo[1].phys
    <2>1. pc' = "vallocs" /\ call' = [call EXCEPT !.i = @ + 1]
      BY <1>10 DEF WritePte
    <2>2. /\ call.i < call.count /\ x \in held \ (TableFrames \cup HeapFrames)
          /\ call.start = next_virt /\ call.start + call.count <= PASSTHRU_BASE
          /\ \A w \in call.start .. (call.start + call.i - 1) : Translate(w) # NONE
      BY <1>3, <1>10 DEF Todo, Call
    <2>3. call' = [start |-> call.start, count |-> call.count, i |-> call.i + 1]
      BY <1>8, <2>1
    <2>4. \A w \in HeapPages : Translate(w)' = IF w = v THEN x ELSE Translate(w)
      BY <1>3, <1>4, <1>10, HeapFacts
    <2>5. v \in HeapPages /\ Translate(v) = NONE /\ x # NONE
      <3>1. v \in HeapPages /\ ~MayBeMapped(v)
        BY <1>3, <1>8, <1>10 DEF MayBeMapped
      <3>2. x # NONE
        BY <1>3 DEF NONE
      <3> QED BY <3>1, <3>2 DEF Heap
    <2>6. HeapFrames' = HeapFrames \cup {x}
      BY <2>4, <2>5 DEF HeapFrames
    <2>7. VmmTypeOK'
      <3>1. call' \in [start : Nat, count : Nat, i : Nat] /\ call'.i <= call'.count
        BY <1>8, <2>2, <2>3
      <3> QED BY <1>1, <1>4, <1>5, <2>1, <3>1 DEF VmmTypeOK, Table, TableFrames
    <2>8. Stages'
      BY <1>1, <1>2, <1>4, <2>1, <1>10 DEF Stages
    <2>9. FramesAccounted'
      BY <1>2, <1>3, <1>4, <1>10, <2>1, <2>6 DEF FramesAccounted, InFlight
    <2>10. Todo'
      BY <2>1 DEF Todo
    <2>11. Call'
      <3>1. \A w \in call'.start .. (call'.start + call'.i - 1) : Translate(w)' # NONE
        <4> SUFFICES ASSUME NEW w \in call'.start .. (call'.start + call'.i - 1)
                     PROVE  Translate(w)' # NONE
          OBVIOUS
        <4>1. w = v \/ w \in call.start .. (call.start + call.i - 1)
          BY <1>8, <2>3
        <4>2. w \in HeapPages
          BY <1>8, <2>2, <4>1, HeapFacts DEF HeapPages
        <4> QED BY <2>2, <2>4, <2>5, <4>1, <4>2
      <3> QED BY <1>1, <2>1, <2>2, <2>3, <3>1 DEF Call
    <2>12. Heap'
      <3>1. \A w \in HeapPages : Translate(w) # x
        BY <2>2, <2>5 DEF HeapFrames
      <3>2. \A w \in HeapPages : Translate(w)' # NONE => Translate(w)' \notin TableFrames'
        BY <1>4, <2>2, <2>4 DEF Heap
      <3>3. ASSUME NEW w \in HeapPages, Translate(w)' # NONE PROVE MayBeMapped(w)'
        <4>1. w = v \/ w < v
          BY <1>10, <2>4, <3>3 DEF Heap, MayBeMapped
        <4>2. w \in Nat
          BY HeapFacts DEF HeapPages
        <4>3. w < call'.start + call'.i
          BY <1>8, <2>3, <4>1, <4>2
        <4> QED BY <2>1, <4>3 DEF MayBeMapped
      <3>4. \A u, w \in HeapPages :
               Translate(u)' # NONE /\ Translate(u)' = Translate(w)' => u = w
        BY <2>4, <3>1 DEF Heap
      <3>5. \A w \in live : Translate(w)' # NONE
        BY <1>6, <2>4, <2>5 DEF Heap
      <3> QED BY <1>1, <3>2, <3>3, <3>4, <3>5 DEF Heap
    <2> QED BY <1>2, <1>4, <1>7, <2>7, <2>8, <2>9, <2>10, <2>11, <2>12
  <1> QED BY <1>1, <1>9, <1>10 DEF Mapping

\* A step that calls no palloc and writes no table.
LEMMA QuietStep ==
    ASSUME VInv, UNCHANGED <<pmmVars, roots, table>>
    PROVE  /\ IInv' /\ UNCHANGED <<held, max_pages, panicked>>
           /\ TableFrames' = TableFrames /\ pml4' = pml4 /\ HeapFrames' = HeapFrames
           /\ \A w \in VirtualPages : Translate(w)' = Translate(w)
           /\ \A w \in HeapPages : Translate(w)' = Translate(w)
           /\ Tree'
  <1>1. IInv' /\ UNCHANGED <<held, max_pages, panicked>>
    BY NextIInv DEF VInv, pmmVars, pmmState
  <1>2. /\ TableFrames' = TableFrames /\ pml4' = pml4
        /\ \A w \in VirtualPages : Translate(w)' = Translate(w)
        /\ Tree'
    BY SameTables DEF VInv
  <1> QED BY <1>1, <1>2, SameHeapFrames, HeapFacts

\* map_range returns.
LEMMA RangeDoneVInv ==
    ASSUME VInv, RangeDone PROVE VInv'
  <1> USE DEF VInv, RangeDone
  <1>1. /\ IInv' /\ UNCHANGED <<held, max_pages, panicked>>
        /\ TableFrames' = TableFrames /\ pml4' = pml4 /\ HeapFrames' = HeapFrames
        /\ \A w \in VirtualPages : Translate(w)' = Translate(w)
        /\ \A w \in HeapPages : Translate(w)' = Translate(w)
        /\ Tree'
    BY QuietStep
  <1>2. /\ call \in [start : Nat, count : Nat, i : Nat] /\ call.i <= call.count
        /\ next_virt \in KHEAP_BASE .. PASSTHRU_BASE /\ live \subseteq HeapPages
    BY HeapFacts DEF VmmTypeOK, HeapPages
  <1>3. /\ todo' \in Seq(MapRange)
        /\ \A k \in DOMAIN todo' : k + 1 \in DOMAIN todo /\ todo'[k] = todo[k + 1]
    BY DEF VmmTypeOK
  <1>4. VmmTypeOK'
    BY <1>3 DEF VmmTypeOK
  <1>5. Stages'
    BY <1>1 DEF Stages
  <1>6. FramesAccounted'
    BY <1>1 DEF FramesAccounted, InFlight
  <1>7. Todo'
    BY <1>1, <1>3 DEF Todo
  <1>8. Call'
    BY <1>1, <1>2 DEF Call
  <1>9. Heap'
    BY <1>1, <1>2, HeapFacts DEF Heap, MayBeMapped, HeapPages
  <1>10. Granted'
    BY DEF Granted
  <1> QED BY <1>1, <1>4, <1>5, <1>6, <1>7, <1>8, <1>9, <1>10

\* CR3 is loaded.
LEMMA LoadCr3VInv ==
    ASSUME VInv, LoadCr3 PROVE VInv'
  <1> USE DEF VInv, LoadCr3
  <1>1. /\ IInv' /\ UNCHANGED <<held, max_pages, panicked>>
        /\ TableFrames' = TableFrames /\ pml4' = pml4 /\ HeapFrames' = HeapFrames
        /\ \A w \in VirtualPages : Translate(w)' = Translate(w)
        /\ \A w \in HeapPages : Translate(w)' = Translate(w)
        /\ Tree'
    BY QuietStep
  <1>2. /\ call \in [start : Nat, count : Nat, i : Nat] /\ call.i <= call.count
        /\ next_virt \in KHEAP_BASE .. PASSTHRU_BASE /\ live \subseteq HeapPages
    BY HeapFacts DEF VmmTypeOK, HeapPages
  <1>4. VmmTypeOK'
    BY <1>1, <1>2 DEF VmmTypeOK
  <1>5. Stages'
    BY <1>1 DEF Stages
  <1>6. FramesAccounted'
    BY <1>1 DEF FramesAccounted, InFlight
  <1>7. Todo'
    BY <1>1 DEF Todo
  <1>8. Call'
    BY <1>1, <1>2 DEF Call
  <1>9. Heap'
    BY <1>1, <1>2, HeapFacts DEF Heap, MayBeMapped, HeapPages
  <1>10. Granted'
    BY DEF Granted
  <1> QED BY <1>1, <1>4, <1>5, <1>6, <1>7, <1>8, <1>9, <1>10

\* vallocs is called.
LEMMA CallVallocsVInv ==
    ASSUME VInv, NEW count \in 1 .. MaxCount, CallVallocs(count) PROVE VInv'
  <1> USE DEF VInv, CallVallocs
  <1>1. /\ IInv' /\ UNCHANGED <<held, max_pages, panicked>>
        /\ TableFrames' = TableFrames /\ pml4' = pml4 /\ HeapFrames' = HeapFrames
        /\ \A w \in VirtualPages : Translate(w)' = Translate(w)
        /\ \A w \in HeapPages : Translate(w)' = Translate(w)
        /\ Tree'
    BY QuietStep
  <1>2. /\ call \in [start : Nat, count : Nat, i : Nat] /\ call.i <= call.count
        /\ next_virt \in KHEAP_BASE .. PASSTHRU_BASE /\ live \subseteq HeapPages
    BY HeapFacts DEF VmmTypeOK, HeapPages
  <1>3. /\ call' \in [start : Nat, count : Nat, i : Nat] /\ call'.i = 0
        /\ call'.start = next_virt /\ call'.count = count /\ count \in Nat
    BY <1>2, HeapFacts, VmmAssumption
  <1>4. VmmTypeOK'
    BY <1>3 DEF VmmTypeOK
  <1>5. Stages'
    BY <1>1 DEF Stages
  <1>6. FramesAccounted'
    BY <1>1 DEF FramesAccounted, InFlight
  <1>7. Todo'
    BY <1>1 DEF Todo
  <1>8. Call'
    BY <1>2, <1>3, HeapFacts, VmmAssumption DEF Call
  <1>9. Heap'
    BY <1>1, <1>2, <1>3, HeapFacts DEF Heap, MayBeMapped, HeapPages
  <1>10. Granted'
    BY DEF Granted
  <1> QED BY <1>1, <1>4, <1>5, <1>6, <1>7, <1>8, <1>9, <1>10

\* vallocs returns a range.
LEMMA VallocsReturnVInv ==
    ASSUME VInv, VallocsReturn PROVE VInv'
  <1> USE DEF VInv, VallocsReturn
  <1>1. /\ IInv' /\ UNCHANGED <<held, max_pages, panicked>>
        /\ TableFrames' = TableFrames /\ pml4' = pml4 /\ HeapFrames' = HeapFrames
        /\ \A w \in VirtualPages : Translate(w)' = Translate(w)
        /\ \A w \in HeapPages : Translate(w)' = Translate(w)
        /\ Tree'
    BY QuietStep
  <1>2. /\ call \in [start : Nat, count : Nat, i : Nat] /\ call.i <= call.count
        /\ next_virt \in KHEAP_BASE .. PASSTHRU_BASE /\ live \subseteq HeapPages
    BY HeapFacts DEF VmmTypeOK, HeapPages
  <1>3. /\ call.start = next_virt /\ call.i = call.count
        /\ next_virt' \in KHEAP_BASE .. PASSTHRU_BASE /\ next_virt <= next_virt'
        /\ next_virt' = call.start + call.i
        /\ live' \subseteq KHEAP_BASE .. (next_virt' - 1)
    <2>1. /\ call.start = next_virt /\ call.start + call.count <= PASSTHRU_BASE
          /\ call.i = call.count /\ next_virt' = next_virt + call.count
      BY DEF Call
    <2>2. /\ call.start \in Nat /\ call.i \in Nat /\ call.count \in Nat
          /\ next_virt \in Nat /\ KHEAP_BASE <= next_virt
      BY <1>2, HeapFacts
    <2>3. live \subseteq KHEAP_BASE .. (next_virt - 1)
      BY DEF VmmTypeOK
    <2>4. live' \subseteq KHEAP_BASE .. (next_virt' - 1)
      <3>1. CallPages = next_virt .. (next_virt + call.count - 1)
        BY <2>1 DEF CallPages
      <3>2. ASSUME NEW v \in CallPages PROVE v \in KHEAP_BASE .. (next_virt' - 1)
        BY <2>1, <2>2, <3>1, HeapFacts
      <3>3. ASSUME NEW v \in live PROVE v \in KHEAP_BASE .. (next_virt' - 1)
        BY <2>1, <2>2, <2>3, HeapFacts
      <3>4. live' = live \cup CallPages
        OBVIOUS
      <3> QED BY <3>2, <3>3, <3>4
    <2> QED BY <2>1, <2>2, <2>4, HeapFacts
  <1>4. VmmTypeOK'
    BY <1>2, <1>3 DEF VmmTypeOK
  <1>5. Stages'
    BY <1>1 DEF Stages
  <1>6. FramesAccounted'
    BY <1>1 DEF FramesAccounted, InFlight
  <1>7. Todo'
    BY <1>1 DEF Todo
  <1>8. Call'
    BY <1>1, <1>2 DEF Call
  <1>9. Heap'
    <2>1. \A v \in CallPages : Translate(v) # NONE /\ v \in HeapPages
      BY <1>2, <1>3, HeapFacts DEF Call, CallPages, HeapPages
    <2> QED BY <1>1, <1>2, <1>3, <2>1, HeapFacts DEF Heap, MayBeMapped, HeapPages
  <1>10. Granted'
    BY <1>2, <1>3, HeapFacts DEF Granted
  <1> QED BY <1>1, <1>4, <1>5, <1>6, <1>7, <1>8, <1>9, <1>10

\* vfrees is called for a range vallocs returned.
LEMMA CallVfreesVInv ==
    ASSUME VInv, NEW r \in granted, CallVfrees(r) PROVE VInv'
  <1> USE DEF VInv, CallVfrees
  <1>1. /\ IInv' /\ UNCHANGED <<held, max_pages, panicked>>
        /\ TableFrames' = TableFrames /\ pml4' = pml4 /\ HeapFrames' = HeapFrames
        /\ \A w \in VirtualPages : Translate(w)' = Translate(w)
        /\ \A w \in HeapPages : Translate(w)' = Translate(w)
        /\ Tree'
    BY QuietStep
  <1>2. /\ call \in [start : Nat, count : Nat, i : Nat] /\ call.i <= call.count
        /\ next_virt \in KHEAP_BASE .. PASSTHRU_BASE /\ live \subseteq HeapPages
    BY HeapFacts DEF VmmTypeOK, HeapPages
  <1>3. /\ call' \in [start : Nat, count : Nat, i : Nat] /\ call'.i = 0
        /\ KHEAP_BASE <= call'.start /\ call'.start + call'.count <= next_virt
    BY <1>2, HeapFacts DEF Granted
  <1>4. VmmTypeOK'
    BY <1>3 DEF VmmTypeOK
  <1>5. Stages'
    BY <1>1 DEF Stages
  <1>6. FramesAccounted'
    BY <1>1 DEF FramesAccounted, InFlight
  <1>7. Todo'
    BY <1>1 DEF Todo
  <1>8. Call'
    BY <1>2, <1>3, HeapFacts DEF Call
  <1>9. Heap'
    BY <1>1, <1>2, <1>3, HeapFacts DEF Heap, MayBeMapped, HeapPages
  <1>10. Granted'
    BY DEF Granted
  <1> QED BY <1>1, <1>4, <1>5, <1>6, <1>7, <1>8, <1>9, <1>10

\* vfrees returns.
LEMMA VfreesReturnVInv ==
    ASSUME VInv, VfreesReturn PROVE VInv'
  <1> USE DEF VInv, VfreesReturn
  <1>1. /\ IInv' /\ UNCHANGED <<held, max_pages, panicked>>
        /\ TableFrames' = TableFrames /\ pml4' = pml4 /\ HeapFrames' = HeapFrames
        /\ \A w \in VirtualPages : Translate(w)' = Translate(w)
        /\ \A w \in HeapPages : Translate(w)' = Translate(w)
        /\ Tree'
    BY QuietStep
  <1>2. /\ call \in [start : Nat, count : Nat, i : Nat] /\ call.i <= call.count
        /\ next_virt \in KHEAP_BASE .. PASSTHRU_BASE /\ live \subseteq HeapPages
    BY HeapFacts DEF VmmTypeOK, HeapPages
  <1>4. VmmTypeOK'
    BY <1>1, <1>2 DEF VmmTypeOK
  <1>5. Stages'
    BY <1>1 DEF Stages
  <1>6. FramesAccounted'
    BY <1>1 DEF FramesAccounted, InFlight
  <1>7. Todo'
    BY <1>1 DEF Todo
  <1>8. Call'
    BY <1>1, <1>2 DEF Call
  <1>9. Heap'
    BY <1>1, <1>2, HeapFacts DEF Heap, MayBeMapped, HeapPages
  <1>10. Granted'
    BY DEF Granted
  <1> QED BY <1>1, <1>4, <1>5, <1>6, <1>7, <1>8, <1>9, <1>10

\* A step that changes nothing.
LEMMA StutterVInv ==
    ASSUME VInv, UNCHANGED vars PROVE VInv'
  <1> USE DEF VInv, vars, vmmVars
  <1>1. /\ IInv' /\ UNCHANGED <<held, max_pages, panicked>>
        /\ TableFrames' = TableFrames /\ pml4' = pml4 /\ HeapFrames' = HeapFrames
        /\ \A w \in VirtualPages : Translate(w)' = Translate(w)
        /\ \A w \in HeapPages : Translate(w)' = Translate(w)
        /\ Tree'
    BY QuietStep
  <1>2. /\ call \in [start : Nat, count : Nat, i : Nat] /\ call.i <= call.count
        /\ next_virt \in KHEAP_BASE .. PASSTHRU_BASE /\ live \subseteq HeapPages
    BY HeapFacts DEF VmmTypeOK, HeapPages
  <1>4. VmmTypeOK'
    BY <1>1, <1>2 DEF VmmTypeOK
  <1>5. Stages'
    BY <1>1 DEF Stages
  <1>6. FramesAccounted'
    BY <1>1 DEF FramesAccounted, InFlight
  <1>7. Todo'
    BY <1>1 DEF Todo
  <1>8. Call'
    <2>1. ASSUME pc \in {"vallocs", "map_heap"}, NEW v \in call.start .. (call.start + call.i - 1)
          PROVE  v \in HeapPages
      BY <1>2, <2>1, HeapFacts DEF Call, HeapPages
    <2> QED BY <1>1, <2>1 DEF Call
  <1>9. Heap'
    BY <1>1, <1>2, HeapFacts DEF Heap, MayBeMapped, HeapPages
  <1>10. Granted'
    BY DEF Granted
  <1> QED BY <1>1, <1>4, <1>5, <1>6, <1>7, <1>8, <1>9, <1>10

\* kernel_panic.
LEMMA PanicVInv ==
    ASSUME VInv, Panic PROVE VInv'
  <1> USE DEF VInv, Panic, vmmVars
  <1>1. IInv' /\ max_pages' = max_pages
    BY NextIInv DEF Next, CallerPanics, pmmState
  <1>2. /\ TableFrames' = TableFrames /\ Tree'
        /\ \A w \in VirtualPages : Translate(w)' = Translate(w)
    BY SameTables
  <1>3. live \subseteq HeapPages
    BY HeapFacts DEF VmmTypeOK, HeapPages
  <1>4. VmmTypeOK'
    BY DEF VmmTypeOK
  <1>5. Stages' /\ FramesAccounted' /\ Todo' /\ Call' /\ Granted'
    BY <1>1 DEF Stages, FramesAccounted, Todo, Call, Granted
  <1>6. Heap'
    BY <1>2, <1>3, HeapFacts DEF Heap, MayBeMapped
  <1> QED BY <1>1, <1>2, <1>4, <1>5, <1>6

\* One iteration of vallocs up to map_page.
LEMMA VallocsPageVInv ==
    ASSUME VInv, VallocsPage PROVE VInv'
  <1> USE DEF VInv, VallocsPage
  <1>1. /\ IInv' /\ max_pages' = max_pages
        /\ \/ ret' = 0 /\ held' = held
           \/ ret' \in Nat \ {0} /\ ret' \notin held /\ held' = held \cup {ret'}
        /\ UNCHANGED <<mem_map, panicked, reserved>>
    BY PallocFresh
  <1>2. /\ TableFrames' = TableFrames /\ pml4' = pml4 /\ Tree'
        /\ \A w \in VirtualPages : Translate(w)' = Translate(w)
    BY SameTables
  <1>3. (\A w \in HeapPages : Translate(w)' = Translate(w)) /\ HeapFrames' = HeapFrames
    BY <1>2, SameHeapFrames, HeapFacts
  <1>4. /\ call \in [start : Nat, count : Nat, i : Nat] /\ call.i < call.count
        /\ next_virt \in KHEAP_BASE .. PASSTHRU_BASE /\ live \subseteq HeapPages
        /\ call.start = next_virt /\ call.start + call.count <= PASSTHRU_BASE
    BY HeapFacts DEF VmmTypeOK, HeapPages, Call
  <1>5. held = TableFrames \cup HeapFrames
    BY DEF FramesAccounted, InFlight
  <1>6. Granted'
    BY DEF Granted
  <1>7. CASE ret' = 0
    <2>1. /\ pc' = "vfrees" /\ todo' = todo
          /\ call' = [start |-> call.start, count |-> call.i, i |-> 0]
      BY <1>7
    <2>2. call' \in [start : Nat, count : Nat, i : Nat] /\ call'.i <= call'.count
      BY <1>4, <2>1
    <2>3. VmmTypeOK'
      BY <2>1, <2>2 DEF VmmTypeOK
    <2>4. Stages'
      BY <1>1, <1>2, <2>1 DEF Stages
    <2>5. FramesAccounted'
      BY <1>1, <1>2, <1>3, <1>5, <1>7, <2>1 DEF FramesAccounted, InFlight
    <2>6. Todo'
      BY <2>1 DEF Todo
    <2>7. Call'
      BY <1>4, <2>1, HeapFacts DEF Call
    <2>8. \A w \in HeapPages : MayBeMapped(w) => MayBeMapped(w)'
      BY <1>4, <2>1, HeapFacts DEF MayBeMapped, HeapPages
    <2>9. Heap'
      BY <1>2, <1>3, <1>4, <2>8 DEF Heap
    <2> QED BY <1>1, <1>2, <1>6, <2>3, <2>4, <2>5, <2>6, <2>7, <2>9
  <1>8. CASE ret' # 0
    <2>1. /\ pc' = "map_heap" /\ call' = call
          /\ todo' = <<[phys |-> ret', virt |-> call.start + call.i, pages |-> 1]>>
      BY <1>8
    <2>2. ret' \in Nat /\ ret' \notin held /\ held' = held \cup {ret'}
      BY <1>1, <1>8
    <2>3. /\ todo' \in Seq(MapRange) /\ Head(todo') = todo'[1]
          /\ Head(todo').phys = ret' /\ todo'[1].phys = ret'
      <3>1. [phys |-> ret', virt |-> call.start + call.i, pages |-> 1] \in MapRange
        BY <1>4, <2>2 DEF MapRange
      <3> QED BY <2>1, <3>1
    <2>4. VmmTypeOK'
      BY <2>1, <2>3 DEF VmmTypeOK
    <2>5. Stages'
      BY <1>1, <1>2, <2>1 DEF Stages
    <2>6. FramesAccounted'
      BY <1>2, <1>3, <1>5, <2>1, <2>2, <2>3 DEF FramesAccounted, InFlight
    <2>7. Todo'
      BY <1>2, <1>3, <1>4, <1>5, <2>1, <2>2, <2>3 DEF Todo
    <2>8. Call'
      <3>1. ASSUME NEW v \in call.start .. (call.start + call.i - 1) PROVE v \in HeapPages
        BY <1>4, HeapFacts DEF HeapPages
      <3> QED BY <1>2, <1>3, <2>1, <3>1 DEF Call
    <2>9. \A w \in HeapPages : MayBeMapped(w) => MayBeMapped(w)'
      BY <2>1 DEF MayBeMapped
    <2>10. Heap'
      BY <1>2, <1>3, <1>4, <2>9 DEF Heap
    <2> QED BY <1>1, <1>2, <1>6, <2>4, <2>5, <2>6, <2>7, <2>8, <2>10
  <1> QED BY <1>7, <1>8

\* One iteration of vfrees: the page at hand is no longer mapped, every other
\* page is mapped as before, and the frame it had is given back to palloc.
LEMMA VfreesPageEffect ==
    ASSUME VInv, VfreesPage, NEW v, v = call.start + call.i
    PROVE  /\ v \in HeapPages
           /\ TableFrames' = TableFrames /\ pml4' = pml4 /\ Tree'
           /\ \A f \in TableFrames : table'[f] \in Table
           /\ \A w \in VirtualPages : Translate(w)' = IF w = v THEN NONE ELSE Translate(w)
           /\ IF Translate(v) = NONE
              THEN UNCHANGED pmmVars
              ELSE Pfree(Translate(v)) /\ Translate(v) \in Pages
           /\ held' = held \ {Translate(v)}
           /\ UNCHANGED <<max_pages, panicked>>
  <1> USE DEF VInv
  <1>1. /\ call \in [start : Nat, count : Nat, i : Nat] /\ call.i < call.count
        /\ KHEAP_BASE <= call.start /\ call.start + call.count <= PASSTHRU_BASE
    BY DEF VmmTypeOK, Call, VfreesPage
  <1>2. v \in HeapPages /\ v \in VirtualPages
    BY <1>1, HeapFacts DEF HeapPages
  <1>3. unmap_page(v) /\ roots' = roots
    BY DEF VfreesPage
  <1>4. NONE \notin DOMAIN table /\ NONE \notin Nat
    BY DEF VmmTypeOK, NONE
  <1>5. /\ TableFrames' = TableFrames /\ pml4' = pml4 /\ Tree'
        /\ \A f \in TableFrames : table'[f] \in Table
        /\ \A w \in VirtualPages : Translate(w)' = IF w = v THEN NONE ELSE Translate(w)
    <2>1. CASE Pt(v) = NONE
      <3>1. table' = table
        BY <1>3, <2>1 DEF unmap_page
      <3>2. Translate(v) = NONE
        BY <1>4, <2>1 DEF Translate, Entry
      <3>3. \A f \in TableFrames : table[f] \in Table
        BY DEF VmmTypeOK, Table, TableFrames
      <3>4. /\ TableFrames' = TableFrames /\ pml4' = pml4 /\ Tree'
            /\ \A w \in VirtualPages : Translate(w)' = Translate(w)
        BY <1>3, <3>1, SameTables
      <3> QED BY <3>1, <3>2, <3>3, <3>4
    <2>2. CASE Pt(v) # NONE
      <3>1. table' = [table EXCEPT ![Pt(v)][Index(v, 0)] = NONE]
        BY <1>3, <2>2 DEF unmap_page
      <3>2. PICK x \in Nat \cup {NONE} : x = NONE
        OBVIOUS
      <3>3. table' = [table EXCEPT ![Pt(v)][Index(v, 0)] = x]
        BY <3>1, <3>2
      <3>4. /\ TableFrames' = TableFrames
            /\ \A f \in TableFrames : table'[f] \in Table
            /\ pml4' = pml4
            /\ \A w \in VirtualPages : Translate(w)' = IF w = v THEN x ELSE Translate(w)
            /\ Tree'
        BY <1>2, <1>3, <2>2, <3>3, PteWrite
      <3> QED BY <3>2, <3>4
    <2> QED BY <2>1, <2>2
  <1>6. held \subseteq Pages /\ 0 \notin held /\ held \subseteq Nat
    BY VmmAssumption DEF IInv, TypeOK, OnlyUsablePagesHeld, Protected
  <1>7. CASE Translate(v) = NONE
    <2>1. UnmapResult(v) = 0 /\ ~GivesBack(UnmapResult(v))
      BY <1>7 DEF UnmapResult, GivesBack
    <2>2. UNCHANGED pmmVars
      BY <2>1 DEF VfreesPage, pmmVars
    <2>3. UNCHANGED <<max_pages, panicked, held>>
      BY <2>2 DEF pmmVars, pmmState
    <2> QED BY <1>2, <1>4, <1>5, <1>6, <1>7, <2>2, <2>3
  <1>8. CASE Translate(v) # NONE
    <2> DEFINE frame == Translate(v)
    <2>1. frame \in held
      BY <1>2, <1>8 DEF FramesAccounted, HeapFrames, VfreesPage
    <2>2. UnmapResult(v) = frame /\ GivesBack(UnmapResult(v))
      BY <1>6, <1>8, <2>1 DEF UnmapResult, GivesBack
    <2>3. /\ pfree(frame * PAGE_SIZE) /\ held' = held \ {frame}
          /\ UNCHANGED <<mem_map, panicked, reserved, ret>>
      BY <2>2 DEF VfreesPage
    <2>4. ~panicked
      BY DEF Stages, VfreesPage
    <2>5. Pfree(frame)
      BY <2>1, <2>3, <2>4 DEF Pfree
    <2>6. max_pages' = max_pages
      BY <2>3 DEF pfree
    <2> QED BY <1>2, <1>5, <1>6, <1>8, <2>1, <2>3, <2>5, <2>6
  <1> QED BY <1>7, <1>8

\* One iteration of vfrees.
LEMMA VfreesPageVInv ==
    ASSUME VInv, VfreesPage PROVE VInv'
  <1> USE DEF VInv
  <1>1. PICK v : v = call.start + call.i
    OBVIOUS
  <1>2. /\ v \in HeapPages
        /\ TableFrames' = TableFrames /\ pml4' = pml4 /\ Tree'
        /\ \A f \in TableFrames : table'[f] \in Table
        /\ \A w \in VirtualPages : Translate(w)' = IF w = v THEN NONE ELSE Translate(w)
        /\ IF Translate(v) = NONE
           THEN UNCHANGED pmmVars
           ELSE Pfree(Translate(v)) /\ Translate(v) \in Pages
        /\ held' = held \ {Translate(v)}
        /\ UNCHANGED <<max_pages, panicked>>
    BY <1>1, VfreesPageEffect
  <1>3. IInv'
    BY <1>2, NextIInv DEF Next
  <1>4. /\ pc = "vfrees" /\ pc' = "vfrees" /\ UNCHANGED <<roots, todo, next_virt, granted>>
        /\ call' = [call EXCEPT !.i = @ + 1] /\ live' = live \ {v} /\ call.i < call.count
    BY <1>1 DEF VfreesPage
  <1>5. /\ call \in [start : Nat, count : Nat, i : Nat]
        /\ next_virt \in KHEAP_BASE .. PASSTHRU_BASE /\ live \subseteq HeapPages
    BY HeapFacts DEF VmmTypeOK, HeapPages
  <1>6. /\ call' = [start |-> call.start, count |-> call.count, i |-> call.i + 1]
        /\ call' \in [start : Nat, count : Nat, i : Nat] /\ call'.i <= call'.count
    BY <1>4, <1>5
  <1>7. \A w \in HeapPages : Translate(w)' = IF w = v THEN NONE ELSE Translate(w)
    BY <1>2, HeapFacts
  <1>8. HeapFrames' = HeapFrames \ {Translate(v)}
    <2>1. \A w \in HeapPages : Translate(w) # NONE /\ Translate(w) = Translate(v) => w = v
      BY <1>2 DEF Heap
    <2> QED BY <1>2, <1>7, <2>1 DEF HeapFrames
  <1>9. VmmTypeOK'
    BY <1>2, <1>4, <1>6 DEF VmmTypeOK, Table, TableFrames
  <1>10. Stages'
    BY <1>2, <1>4 DEF Stages
  <1>11. FramesAccounted'
    <2>1. held = TableFrames \cup HeapFrames
      BY <1>4 DEF FramesAccounted, InFlight
    <2>2. Translate(v) \notin TableFrames
      BY <1>2 DEF Heap, VmmTypeOK, TableFrames, NONE
    <2> QED BY <1>2, <1>4, <1>8, <2>1, <2>2 DEF FramesAccounted, InFlight
  <1>12. Todo' /\ Granted'
    BY <1>4 DEF Todo, Granted
  <1>13. Call'
    BY <1>4, <1>6 DEF Call
  <1>14. ASSUME NEW w \in HeapPages, w # v, MayBeMapped(w) PROVE MayBeMapped(w)'
    <2>1. w \in Nat
      BY HeapFacts DEF HeapPages
    <2>2. \/ w < next_virt
          \/ call.start + call.i <= w /\ w < call.start + call.count
      BY <1>4, <1>14 DEF MayBeMapped
    <2>3. \/ w < next_virt'
          \/ call'.start + call'.i <= w /\ w < call'.start + call'.count
      BY <1>1, <1>4, <1>5, <1>6, <1>14, <2>1, <2>2
    <2> QED BY <1>4, <2>3 DEF MayBeMapped
  <1>7a. Heap'
    BY <1>2, <1>4, <1>5, <1>7, <1>14 DEF Heap
  <1> QED BY <1>2, <1>3, <1>9, <1>10, <1>11, <1>12, <1>13, <1>7a

\* Every step preserves the invariant.
LEMMA NextVInv == VInv /\ [VmmNext]_vars => VInv'
  BY BootPmmVInv, AllocRootVInv, BuildRootVInv, AllocTableVInv, WritePteVInv, RangeDoneVInv,
     LoadCr3VInv, CallVallocsVInv, VallocsPageVInv, VallocsReturnVInv, CallVfreesVInv,
     VfreesPageVInv, VfreesReturnVInv, PanicVInv, StutterVInv DEF VmmNext, VmmHalted

-----------------------------------------------------------------------------
(* The theorems.                                                           *)

\* Every reachable state satisfies the inductive invariant.
THEOREM VmmInvariant == VmmSpec => []VInv
  BY InitVInv, NextVInv, PTL DEF VmmSpec

\* vmm.c's state keeps its type, and live heap pages stay below next_virt.
THEOREM VmmTypeAlwaysOK == VmmSpec => []VmmTypeOK
  BY VmmInvariant, PTL DEF VInv

\* Every frame taken from palloc is a page table, mapped in the heap or about
\* to be: vallocs that fail half way and repeated vfrees leak nothing.
THEOREM FramesAlwaysAccounted == VmmSpec => []FramesAccounted
  BY VmmInvariant, PTL DEF VInv

\* A live heap page has a frame of its own.
THEOREM HeapNeverShared == VmmSpec => []HeapNotShared
  <1>1. VInv => HeapNotShared
    <2> SUFFICES ASSUME VInv, NEW v \in live
                 PROVE  /\ Translate(v) # NONE
                        /\ Translate(v) \notin TableFrames
                        /\ \A w \in HeapPages \ {v} : Translate(w) # Translate(v)
      BY DEF HeapNotShared
    <2>1. v \in HeapPages
      BY HeapFacts DEF VInv, VmmTypeOK, HeapPages
    <2> QED BY <2>1 DEF VInv, Heap
  <1> QED BY <1>1, VmmInvariant, PTL

\* Each step changes the translations of the pages vallocs or vfrees was
\* called for at most, and of no page that stays live.
LEMMA StepMappingsStable ==
    ASSUME VInv, VInv', [VmmNext]_vars, VirtualMemory,
           NEW v \in VirtualPages, Translate(v)' # Translate(v)
    PROVE  v \in CallPages' /\ v \notin live \cap live'
  <1> USE DEF VInv
  <1>1. ASSUME UNCHANGED <<roots, table>> PROVE FALSE
    BY <1>1, SameTables
  <1>2. pc \in {"ready", "vallocs", "map_heap", "vfrees"}
    BY DEF VirtualMemory
  <1>3. AllocTable \/ WritePte \/ VfreesPage
    BY <1>1, <1>2 DEF VmmNext, BootPmm, AllocRoot, BuildRoot, RangeDone, LoadCr3, CallVallocs,
       VallocsPage, VallocsReturn, CallVfrees, VfreesReturn, Panic, VmmHalted, vars, vmmVars
  <1>4. /\ call \in [start : Nat, count : Nat, i : Nat]
        /\ next_virt \in Nat /\ live \subseteq KHEAP_BASE .. (next_virt - 1)
    BY HeapFacts DEF VmmTypeOK
  <1>5. CASE AllocTable
    <2>1. ret' = 0
      BY <1>5, AllocTableEffect
    <2> QED BY <1>1, <1>5, <2>1 DEF AllocTable
  <1>6. CASE WritePte
    <2>1. pc = "map_heap" /\ Mapping
      BY <1>2, <1>6 DEF WritePte, Mapping
    <2>2. v = TargetPage
      BY <1>6, WritePteEffect
    <2>3. v = call.start + call.i /\ call.start = next_virt /\ call.i < call.count
      BY <2>1, <2>2, TargetFacts DEF Todo
    <2>4. call'.start = call.start /\ call'.count = call.count
      BY <1>4, <1>6, <2>1 DEF WritePte
    <2>5. v \in CallPages'
      BY <1>4, <2>3, <2>4 DEF CallPages
    <2>6. v \notin live
      BY <1>4, <2>3, HeapFacts
    <2> QED BY <2>5, <2>6
  <1>7. CASE VfreesPage
    <2>1. v = call.start + call.i
      BY <1>7, VfreesPageEffect
    <2>2. /\ call'.start = call.start /\ call'.count = call.count /\ call.i < call.count
          /\ live' = live \ {v}
      BY <1>4, <1>7, <2>1 DEF VfreesPage
    <2> QED BY <1>4, <2>1, <2>2 DEF CallPages
  <1> QED BY <1>3, <1>5, <1>6, <1>7

\* After init_vmm, vallocs and vfrees leave every other mapping alone.
THEOREM OtherMappingsAlwaysStable == VmmSpec => OtherMappingsStable
  <1>1. VInv /\ VInv' /\ [VmmNext]_vars =>
          [VirtualMemory =>
             \A v \in 0 .. (VSPACE - 1) :
                 Translate(v)' # Translate(v) => v \in CallPages' /\ v \notin live \cap live']_vars
    BY StepMappingsStable DEF VirtualPages
  <1> QED BY <1>1, VmmInvariant, PTL DEF VmmSpec, OtherMappingsStable

\* Each step of the virtual memory manager uses the page allocator as a
\* client of Pmm may: pfree gets only frames that are held.
LEMMA StepUsesPmm ==
    ASSUME VInv, [VmmNext]_vars
    PROVE  [Next]_pmmVars
  <1> SUFFICES ASSUME ~UNCHANGED pmmVars PROVE Next
    OBVIOUS
  <1>1. \/ BootPmm \/ AllocRoot \/ AllocTable \/ VallocsPage \/ VfreesPage \/ Panic
    BY DEF VmmNext, BuildRoot, WritePte, RangeDone, LoadCr3, CallVallocs, VallocsReturn,
       CallVfrees, VfreesReturn, VmmHalted, vars
  <1>2. CASE BootPmm
    BY <1>2 DEF BootPmm, Next
  <1>3. CASE AllocRoot \/ AllocTable \/ VallocsPage
    BY <1>3 DEF AllocRoot, AllocTable, VallocsPage, Next
  <1>4. CASE VfreesPage
    <2>1. PICK v : v = call.start + call.i
      OBVIOUS
    <2>2. Pfree(Translate(v)) /\ Translate(v) \in Pages
      BY <1>4, <2>1, VfreesPageEffect
    <2> QED BY <2>2 DEF Next
  <1>5. CASE Panic
    BY <1>5 DEF Panic, Next
  <1> QED BY <1>1, <1>2, <1>3, <1>4, <1>5

\* vmm.c is a correct client of pmm.c, so what holds of Pmm holds under it.
THEOREM VmmUsesPmmProperly == VmmSpec => UsesPmmProperly
  <1>1. VmmInit => Init
    BY DEF VmmInit
  <1>2. VInv /\ [VmmNext]_vars => [Next]_pmmVars
    BY StepUsesPmm
  <1> QED BY <1>1, <1>2, VmmInvariant, PTL DEF VmmSpec, UsesPmmProperly, Spec

-----------------------------------------------------------------------------
(* What init_vmm maps stays mapped where it should be.                     *)

\* The layout these results are for: every range but the window is mapped to
\* itself, as the loader places the kernel, and the window does not wrap
\* around at the top of the address space.
FlatLayout ==
    /\ \A k \in DOMAIN EarlyRanges : EarlyRanges[k].phys = EarlyRanges[k].virt
    /\ \A k \in DOMAIN LateRanges : LateRanges[k].phys = LateRanges[k].virt
    /\ Initramfs.phys = Initramfs.virt /\ ApicRange.phys = ApicRange.virt
    /\ \A m \in MemMaps : \A end \in RegionEnds(m) : PASSTHRU_BASE + end <= VSPACE

RangePages(r) == r.virt .. (r.virt + r.pages - 1)

\* What a range maps a page to: itself, or the frame behind the window.
Straight(r) ==
    \/ r.pages = 0
    \/ r.virt + r.pages <= KHEAP_BASE /\ r.phys = r.virt
    \/ /\ r.virt >= PASSTHRU_BASE /\ r.virt + r.pages <= VSPACE
       /\ r.phys = r.virt - PASSTHRU_BASE

Target(v) == IF v < KHEAP_BASE THEN v ELSE v - PASSTHRU_BASE

\* The pages the kernel relies on once CR3 is loaded.
EarlyPages == UNION {RangePages(EarlyRanges[k]) : k \in DOMAIN EarlyRanges}
WindowPages == PASSTHRU_BASE .. (PASSTHRU_BASE + max_pages - 1)
ManagedPages == {p \in ConventionalPages(mem_map) : SupportApic}
Wanted == EarlyPages \cup WindowPages \cup ManagedPages

\* Pages a range still to be mapped contains.
Pending == UNION {RangePages(todo[k]) : k \in DOMAIN todo}

\* Outside the heap a page is mapped to its target or not at all; a wanted
\* page is mapped, or still pending while init_vmm is at work.
MapInv ==
    /\ PASSTHRU_BASE + max_pages <= VSPACE
    /\ BitmapPages(bitmap_addr, sizeof_bitmap) \subseteq ConventionalPages(mem_map)
    /\ \A v \in VirtualPages \ HeapPages : Translate(v) \in {NONE, Target(v)}
    /\ pc = "map_boot" =>
          /\ \A k \in DOMAIN todo : Straight(todo[k])
          /\ \A v \in Wanted : v \in Pending \/ Translate(v) # NONE
    /\ VirtualMemory => \A v \in Wanted : Translate(v) # NONE

\* Every element of s is one of c.
Includes(c, s) == \A k \in DOMAIN s : \E j \in DOMAIN c : c[j] = s[k]

\* A concatenation has the elements of its parts.
LEMMA ConcatElements ==
    ASSUME NEW S, NEW s \in Seq(S), NEW t \in Seq(S), NEW c, c = s \o t
    PROVE  c \in Seq(S) /\ Includes(c, s) /\ Includes(c, t)
  <1>1. c \in Seq(S)
    OBVIOUS
  <1>2. ASSUME NEW k \in DOMAIN s PROVE \E j \in DOMAIN c : c[j] = s[k]
    <2>1. k \in DOMAIN c /\ c[k] = s[k]
      OBVIOUS
    <2> QED BY <2>1
  <1>3. ASSUME NEW k \in DOMAIN t PROVE \E j \in DOMAIN c : c[j] = t[k]
    <2>1. Len(s) + k \in DOMAIN c /\ c[Len(s) + k] = t[k]
      OBVIOUS
    <2> QED BY <2>1
  <1> QED BY <1>1, <1>2, <1>3 DEF Includes

\* init_vmm maps every wanted page, straight.
LEMMA BootRangesStraight ==
    ASSUME FlatLayout, TypeOK, max_pages <= KHEAP_BASE, PASSTHRU_BASE + max_pages <= VSPACE
    PROVE  /\ \A k \in DOMAIN BootRanges : Straight(BootRanges[k])
           /\ \A v \in Wanted : \E k \in DOMAIN BootRanges : v \in RangePages(BootRanges[k])
  <1> DEFINE Flat == {r \in MapRange : Straight(r)}
             window == [phys |-> 0, virt |-> PASSTHRU_BASE, pages |-> max_pages]
             middle == <<window, Initramfs>>
             regions == ConventionalRanges \o <<ApicRange>>
             conv == IF SupportApic THEN regions ELSE <<>>
  <1>1. EarlyRanges \in Seq(Flat)
    BY VmmAssumption DEF FlatLayout, Straight
  <1>2. LateRanges \in Seq(Flat)
    BY VmmAssumption DEF FlatLayout, Straight
  <1>3. Initramfs \in Flat /\ ApicRange \in Flat
    BY VmmAssumption DEF FlatLayout, Straight
  <1>4. window \in Flat
    BY HeapFacts DEF Straight, MapRange, TypeOK
  <1>5. mem_map \in Seq(Descriptor)
    BY PmmAssumption DEF TypeOK
  <1>6. ASSUME NEW i \in DOMAIN mem_map
        PROVE  /\ ConventionalRanges[i] \in Flat
               /\ mem_map[i].conventional =>
                     RangePages(ConventionalRanges[i]) = RegionPages(mem_map[i])
    <2>1. mem_map[i] \in Descriptor
      BY <1>5
    <2>2. mem_map[i].PhysicalStart \in Nat /\ mem_map[i].NumberOfPages \in Nat
      BY <2>1 DEF Descriptor
    <2>3. ConventionalRanges[i] =
             [phys |-> mem_map[i].PhysicalStart, virt |-> mem_map[i].PhysicalStart,
              pages |-> IF mem_map[i].conventional THEN mem_map[i].NumberOfPages ELSE 0]
      BY DEF ConventionalRanges
    <2>4. ConventionalRanges[i] \in MapRange
      BY <2>2, <2>3 DEF MapRange
    <2>5. CASE mem_map[i].conventional
      <3>1. mem_map[i].PhysicalStart + mem_map[i].NumberOfPages \in RegionEnds(mem_map)
        BY <1>5, <2>5 DEF RegionEnds, Conventional
      <3>2. mem_map[i].PhysicalStart + mem_map[i].NumberOfPages <= KHEAP_BASE
        BY <3>1, VmmAssumption DEF TypeOK
      <3> QED BY <2>3, <2>4, <2>5, <3>2 DEF Straight, RangePages, RegionPages
    <2>6. CASE ~mem_map[i].conventional
      BY <2>3, <2>4, <2>6 DEF Straight
    <2> QED BY <2>5, <2>6
  <1>7. ConventionalRanges \in Seq(Flat) /\ DOMAIN ConventionalRanges = DOMAIN mem_map
    BY <1>5, <1>6 DEF ConventionalRanges
  <1>7a. regions \in Seq(Flat) /\ Includes(regions, ConventionalRanges)
    <2> HIDE DEF Flat
    <2>1. <<ApicRange>> \in Seq(Flat)
      BY <1>3
    <2> QED BY <1>7, <2>1, ConcatElements
  <1> HIDE DEF regions
  <1> DEFINE front == EarlyRanges \o middle
             most == front \o conv
  <1>8. BootRanges = most \o LateRanges
    BY DEF BootRanges, regions
  <1>9. middle \in Seq(Flat) /\ conv \in Seq(Flat) /\ 1 \in DOMAIN middle /\ middle[1] = window
    BY <1>3, <1>4, <1>7a
  <1> HIDE DEF Flat, window, middle, conv
  <1>10. front \in Seq(Flat) /\ Includes(front, EarlyRanges) /\ Includes(front, middle)
    BY <1>1, <1>9, ConcatElements
  <1> HIDE DEF front
  <1>11. most \in Seq(Flat) /\ Includes(most, front) /\ Includes(most, conv)
    BY <1>9, <1>10, ConcatElements
  <1> HIDE DEF most
  <1>12. BootRanges \in Seq(Flat) /\ Includes(BootRanges, most)
    BY <1>2, <1>8, <1>11, ConcatElements
  <1>13. \A k \in DOMAIN BootRanges : Straight(BootRanges[k])
    BY <1>12 DEF Flat
  <1>14. ASSUME NEW v \in Wanted
         PROVE  \E k \in DOMAIN BootRanges : v \in RangePages(BootRanges[k])
    <2>1. CASE v \in EarlyPages
      <3>1. PICK k \in DOMAIN EarlyRanges : v \in RangePages(EarlyRanges[k])
        BY <2>1 DEF EarlyPages
      <3>2. PICK j \in DOMAIN front : front[j] = EarlyRanges[k]
        BY <1>10 DEF Includes
      <3>3. PICK l \in DOMAIN most : most[l] = front[j]
        BY <1>11 DEF Includes
      <3> QED BY <1>12, <3>1, <3>2, <3>3 DEF Includes
    <2>2. CASE v \in WindowPages
      <3>1. v \in RangePages(window)
        BY <2>2 DEF WindowPages, RangePages, window
      <3>2. PICK j \in DOMAIN front : front[j] = window
        BY <1>9, <1>10 DEF Includes
      <3>3. PICK l \in DOMAIN most : most[l] = front[j]
        BY <1>11 DEF Includes
      <3> QED BY <1>12, <3>1, <3>2, <3>3 DEF Includes
    <2>3. CASE v \in ManagedPages
      <3>1. PICK i \in DOMAIN mem_map : mem_map[i].conventional /\ v \in RegionPages(mem_map[i])
        BY <1>5, <2>3 DEF ManagedPages, ConventionalPages, Conventional
      <3>2. conv = regions
        BY <2>3 DEF conv, ManagedPages
      <3>3. PICK n \in DOMAIN conv : conv[n] = ConventionalRanges[i] /\ v \in RangePages(conv[n])
        BY <1>6, <1>7, <1>7a, <3>1, <3>2 DEF Includes
      <3>4. PICK l \in DOMAIN most : most[l] = conv[n]
        BY <1>11, <3>3 DEF Includes
      <3> QED BY <1>12, <3>3, <3>4 DEF Includes
    <2> QED BY <2>1, <2>2, <2>3 DEF Wanted
  <1> QED BY <1>13, <1>14

\* A bitmap that fits a region occupies pages of that region only.
LEMMA BitmapInRegion ==
    ASSUME NEW d \in Descriptor, NEW size \in Nat, HoldsBitmap(d, size)
    PROVE  BitmapPages(d.PhysicalStart, size) \subseteq RegionPages(d)
  <1>1. d.PhysicalStart \in Nat /\ d.NumberOfPages \in Nat /\ PAGE_SIZE \in Nat \ {0}
    BY PmmAssumption DEF Descriptor
  <1> DEFINE N == d.NumberOfPages
             n == size + PAGE_SIZE - 1
             q == n \div PAGE_SIZE
  <1>2. size <= N * PAGE_SIZE
    BY <1>1 DEF HoldsBitmap
  <1>3. n \in Nat /\ N \in Nat
    BY <1>1
  <1>4. q \in Nat /\ PAGE_SIZE * q <= n
    BY <1>1, <1>3, DivBounds
  <1>5. q <= N
    <2>1. N * PAGE_SIZE = PAGE_SIZE * N /\ PAGE_SIZE * N \in Nat
      BY <1>1
    <2>2. PAGE_SIZE * q < PAGE_SIZE * N + PAGE_SIZE
      BY <1>1, <1>2, <1>4, <2>1
    <2> HIDE DEF q, N, n
    <2>3. ASSUME q >= N + 1 PROVE FALSE
      <3>1. PAGE_SIZE * q >= PAGE_SIZE * (N + 1)
        BY <1>1, <1>3, <1>4, <2>3
      <3>2. PAGE_SIZE * (N + 1) = PAGE_SIZE * N + PAGE_SIZE
        BY <1>1, <1>3
      <3> QED BY <1>1, <1>3, <1>4, <2>1, <2>2, <3>1, <3>2
    <2> QED BY <1>3, <1>4, <2>3
  <1>6. CeilDiv(size, PAGE_SIZE) = q
    BY DEF CeilDiv
  <1> HIDE DEF q
  <1> QED BY <1>1, <1>4, <1>5, <1>6 DEF BitmapPages, RegionPages

\* init_pmm puts the bitmap into conventional memory.
LEMMA InitPmmPlacesBitmap ==
    ASSUME FlatLayout, IInv, InitPmm, MapInv
    PROVE  /\ PASSTHRU_BASE + max_pages' <= VSPACE
           /\ BitmapPages(bitmap_addr', sizeof_bitmap') \subseteq ConventionalPages(mem_map')
  <1> USE DEF IInv
  <1>1. mem_map' = mem_map
    BY DEF InitPmm
  <1>2. PICK n \in {0} \cup RegionEnds(mem_map) :
           \/ \E i \in DOMAIN mem_map : init_pmm(n, i)
           \/ UNCHANGED pmmState
    BY DEF InitPmm
  <1>3. CASE UNCHANGED pmmState
    BY <1>1, <1>3 DEF pmmState, MapInv
  <1>4. CASE \E i \in DOMAIN mem_map : init_pmm(n, i)
    <2>1. PICK i \in DOMAIN mem_map : init_pmm(n, i)
      BY <1>4
    <2>2. /\ max_pages' = n /\ sizeof_bitmap' = CeilDiv(n, BYTE)
          /\ bitmap_addr' = mem_map[i].PhysicalStart
          /\ HoldsBitmap(mem_map[i], CeilDiv(n, BYTE))
      BY <2>1 DEF init_pmm
    <2>3. n \in Nat
      BY MemMapFacts
    <2>4. CeilDiv(n, BYTE) \in Nat
      BY <2>3, CeilDivCovers, PmmAssumption
    <2>5. mem_map \in Seq(Descriptor)
      BY PmmAssumption DEF TypeOK
    <2>6. mem_map[i] \in Descriptor /\ i \in 1 .. Len(mem_map)
      BY <2>5
    <2>7. BitmapPages(bitmap_addr', sizeof_bitmap') \subseteq RegionPages(mem_map[i])
      BY <2>2, <2>4, <2>6, BitmapInRegion
    <2>8. RegionPages(mem_map[i]) \subseteq ConventionalPages(mem_map)
      BY <2>2, <2>6 DEF HoldsBitmap, ConventionalPages, Conventional
    <2>9. PASSTHRU_BASE + n <= VSPACE
      BY HeapFacts DEF FlatLayout, TypeOK
    <2> QED BY <1>1, <2>2, <2>7, <2>8, <2>9
  <1> QED BY <1>2, <1>3, <1>4

\* Past init_pmm the memory map and the bitmap's place are fixed.
LEMMA LayoutFixed ==
    ASSUME [VmmNext]_vars, ~BootPmm
    PROVE  UNCHANGED <<mem_map, max_pages, bitmap_addr, sizeof_bitmap>>
  <1>1. ASSUME Palloc PROVE UNCHANGED <<mem_map, max_pages, bitmap_addr, sizeof_bitmap>>
    BY <1>1 DEF Palloc, palloc, pmmState
  <1>2. ASSUME VfreesPage PROVE UNCHANGED <<mem_map, max_pages, bitmap_addr, sizeof_bitmap>>
    BY <1>2 DEF VfreesPage, pfree, pmmState
  <1>3. ASSUME Panic PROVE UNCHANGED <<mem_map, max_pages, bitmap_addr, sizeof_bitmap>>
    BY <1>3 DEF Panic, CallerPanics, pmmState
  <1>4. ASSUME UNCHANGED pmmVars
        PROVE  UNCHANGED <<mem_map, max_pages, bitmap_addr, sizeof_bitmap>>
    BY <1>4 DEF pmmVars, pmmState
  <1>5. Palloc \/ VfreesPage \/ Panic \/ UNCHANGED pmmVars
    BY DEF VmmNext, AllocRoot, BuildRoot, AllocTable, WritePte, RangeDone, LoadCr3, CallVallocs,
       VallocsPage, VallocsReturn, CallVfrees, VfreesReturn, VmmHalted, vars
  <1> QED BY <1>1, <1>2, <1>3, <1>4, <1>5

\* Only BuildRoot and the PTEs of init_vmm touch pages outside the heap.
LEMMA OutsideHeapStable ==
    ASSUME VInv, VInv', [VmmNext]_vars, ~BuildRoot, ~(WritePte /\ pc = "map_boot"),
           NEW v \in VirtualPages \ HeapPages
    PROVE  Translate(v)' = Translate(v)
  <1> USE DEF VInv
  <1>1. CASE UNCHANGED <<roots, table>>
    BY <1>1, SameTables
  <1>2. CASE AllocRoot
    <2>1. DOMAIN table = {} /\ DOMAIN table' = {}
      BY <1>2 DEF AllocRoot, Stages
    <2> QED BY <2>1 DEF Translate, Entry
  <1>3. CASE AllocTable
    <2>1. CASE ret' = 0
      BY <1>1, <1>3, <2>1 DEF AllocTable
    <2> QED BY <1>3, <2>1, AllocTableEffect
  <1>4. CASE WritePte
    <2>1. pc = "map_heap" /\ Mapping
      BY <1>4 DEF WritePte, Mapping
    <2> QED BY <1>4, <2>1, TargetFacts, WritePteEffect
  <1>5. CASE VfreesPage
    <2>1. PICK u : u = call.start + call.i
      OBVIOUS
    <2> QED BY <1>5, <2>1, VfreesPageEffect
  <1>6. UNCHANGED <<roots, table>> \/ AllocRoot \/ AllocTable \/ WritePte \/ VfreesPage
    BY DEF VmmNext, BootPmm, RangeDone, LoadCr3, CallVallocs,
       VallocsPage, VallocsReturn, CallVfrees, VfreesReturn, Panic, VmmHalted, vars, vmmVars
  <1> QED BY <1>1, <1>2, <1>3, <1>4, <1>5, <1>6

\* The wanted pages lie outside the heap.
LEMMA WantedOutsideHeap ==
    ASSUME VInv, MapInv
    PROVE  Wanted \subseteq VirtualPages \ HeapPages
  <1> USE DEF VInv, IInv
  <1>1. max_pages \in Nat /\ mem_map \in MemMaps /\ mem_map \in Seq(Descriptor)
    BY PmmAssumption DEF TypeOK
  <1>2. ASSUME NEW v \in EarlyPages PROVE v \in VirtualPages \ HeapPages
    <2>1. PICK k \in DOMAIN EarlyRanges : v \in RangePages(EarlyRanges[k])
      BY DEF EarlyPages
    <2>2. /\ EarlyRanges[k] \in MapRange
          /\ EarlyRanges[k].virt + EarlyRanges[k].pages <= KHEAP_BASE
      BY VmmAssumption, SeqElement
    <2>3. EarlyRanges[k].virt \in Nat /\ EarlyRanges[k].pages \in Nat
      BY <2>2 DEF MapRange
    <2> QED BY <2>1, <2>2, <2>3, HeapFacts DEF RangePages, VirtualPages, HeapPages
  <1>3. ASSUME NEW v \in WindowPages PROVE v \in VirtualPages \ HeapPages
    BY <1>1, HeapFacts DEF WindowPages, MapInv, VirtualPages, HeapPages
  <1>4. ASSUME NEW v \in ManagedPages PROVE v \in VirtualPages \ HeapPages
    <2>1. PICK i \in Conventional(mem_map) : v \in RegionPages(mem_map[i])
      BY DEF ManagedPages, ConventionalPages
    <2>2. mem_map[i] \in Descriptor
      BY <1>1 DEF Conventional
    <2>3. mem_map[i].PhysicalStart + mem_map[i].NumberOfPages <= KHEAP_BASE
      BY <1>1, VmmAssumption DEF RegionEnds
    <2>4. mem_map[i].PhysicalStart \in Nat /\ mem_map[i].NumberOfPages \in Nat
      BY <2>2 DEF Descriptor
    <2> QED BY <2>1, <2>3, <2>4, HeapFacts DEF RegionPages, VirtualPages, HeapPages
  <1> QED BY <1>2, <1>3, <1>4 DEF Wanted

\* A straight range maps its first page to its target and stays straight.
LEMMA StraightTarget ==
    ASSUME NEW r \in MapRange, Straight(r), r.pages > 0
    PROVE  /\ r.virt % VSPACE = r.virt /\ r.phys = Target(r.virt)
           /\ Straight(NextPage(r))
           /\ RangePages(r) = RangePages(NextPage(r)) \cup {r.virt}
  <1>1. r.virt \in Nat /\ r.pages \in Nat /\ r.phys \in Nat
    BY DEF MapRange
  <1>2. r.virt < VSPACE
    BY <1>1, HeapFacts DEF Straight
  <1>3. r.virt % VSPACE = r.virt
    BY <1>1, <1>2, HeapFacts, ModOnce
  <1>4. r.phys = Target(r.virt)
    BY <1>1, HeapFacts DEF Straight, Target
  <1>5. Straight(NextPage(r))
    BY <1>1, HeapFacts DEF Straight, NextPage
  <1>6. RangePages(r) = RangePages(NextPage(r)) \cup {r.virt}
    BY <1>1 DEF RangePages, NextPage
  <1> QED BY <1>3, <1>4, <1>5, <1>6

\* Initially nothing is mapped.
LEMMA InitMapInv ==
    ASSUME VmmInit
    PROVE  MapInv
  <1>1. DOMAIN table = {} /\ pc = "boot" /\ max_pages = 0 /\ sizeof_bitmap = 0 /\ bitmap_addr = 0
    BY DEF VmmInit, Init
  <1>2. \A w : Translate(w) = NONE
    BY <1>1, NoTables
  <1>3. BitmapPages(0, 0) = {}
    <2>1. PAGE_SIZE \in Nat \ {0}
      BY PmmAssumption
    <2>2. (PAGE_SIZE * 0 + (PAGE_SIZE - 1)) \div PAGE_SIZE = 0
      BY <2>1, DivModUnique
    <2>3. 0 + PAGE_SIZE - 1 = PAGE_SIZE * 0 + (PAGE_SIZE - 1)
      BY <2>1
    <2>4. CeilDiv(0, PAGE_SIZE) = 0
      BY <2>2, <2>3 DEF CeilDiv
    <2> QED BY <2>4 DEF BitmapPages
  <1> QED BY <1>1, <1>2, <1>3, HeapFacts DEF MapInv, VirtualMemory

\* init_vmm starts with the first FANOUT pages mapped to themselves and every
\* wanted page pending.
LEMMA BuildRootMapInv ==
    ASSUME FlatLayout, VInv, MapInv, BuildRoot
    PROVE  MapInv'
  <1> USE DEF VInv
  <1>1. UNCHANGED <<mem_map, max_pages, bitmap_addr, sizeof_bitmap>>
    BY DEF BuildRoot, pmmVars, pmmState
  <1>2. CASE \E k \in 1 .. 4 : roots[k] = 0
    <2>1. pc' = "panic" /\ roots' = roots /\ table' = table
      BY <1>2 DEF BuildRoot
    <2> QED BY <1>1, <2>1, SameTables DEF MapInv, VirtualMemory
  <1>3. CASE ~(\E k \in 1 .. 4 : roots[k] = 0)
    <2>1. /\ pc' = "map_boot" /\ roots' = roots /\ table' = RootTables /\ todo' = BootRanges
          /\ pc = "roots" /\ Len(roots) = 4
      BY <1>3 DEF BuildRoot
    <2>2. roots \in Seq(Nat) /\ DOMAIN roots = 1 .. 4
      BY <2>1 DEF VmmTypeOK
    <2>3. \A j, k \in 1 .. 4 : roots[j] = roots[k] => j = k
      BY <1>3, <2>1, <2>2 DEF Stages
    <2>4. \A w \in VirtualPages : Translate(w)' # NONE => w < FANOUT /\ Translate(w)' = w
      BY <1>3, <2>1, <2>2, <2>3, RootTree
    <2>5. \A w \in VirtualPages : Translate(w)' \in {NONE, Target(w)}
      BY <2>4, HeapFacts DEF Target, VirtualPages
    <2>6. /\ \A k \in DOMAIN BootRanges : Straight(BootRanges[k])
          /\ \A v \in Wanted : \E k \in DOMAIN BootRanges : v \in RangePages(BootRanges[k])
      BY BootRangesStraight DEF IInv, Stages, MapInv
    <2>7. Wanted' = Wanted
      BY <1>1 DEF Wanted, WindowPages, ManagedPages, EarlyPages
    <2>8. \A v \in Wanted : v \in Pending'
      BY <2>1, <2>6 DEF Pending
    <2> QED BY <1>1, <2>1, <2>5, <2>6, <2>7, <2>8 DEF MapInv, VirtualMemory
  <1> QED BY <1>2, <1>3

\* A PTE init_vmm writes maps a page to its target and settles it.
LEMMA WritePteMapInv ==
    ASSUME VInv, MapInv, WritePte, pc = "map_boot",
           UNCHANGED <<mem_map, max_pages, bitmap_addr, sizeof_bitmap>>
    PROVE  MapInv'
  <1> USE DEF VInv
  <1>1. Mapping /\ pc' = "map_boot" /\ todo' = [todo EXCEPT ![1] = NextPage(@)]
    BY DEF WritePte
  <1>2. /\ todo \in Seq(MapRange) /\ todo # <<>> /\ Head(todo) = todo[1]
        /\ todo[1] \in MapRange /\ todo[1].phys \in Nat /\ todo[1].pages > 0
        /\ TargetPage \in VirtualPages /\ TargetPage \notin HeapPages
    BY <1>1, TargetFacts
  <1>3. 1 \in DOMAIN todo
    BY <1>2
  <1>4. Straight(todo[1])
    BY <1>3 DEF MapInv
  <1>5. /\ TargetPage = todo[1].virt /\ todo[1].phys = Target(todo[1].virt)
        /\ Straight(NextPage(todo[1]))
        /\ RangePages(todo[1]) = RangePages(NextPage(todo[1])) \cup {todo[1].virt}
    BY <1>2, <1>4, StraightTarget DEF TargetPage
  <1>6. \A w \in VirtualPages :
           Translate(w)' = IF w = TargetPage THEN todo[1].phys ELSE Translate(w)
    BY WritePteEffect
  <1>7. DOMAIN todo' = DOMAIN todo
        /\ \A k \in DOMAIN todo : todo'[k] = IF k = 1 THEN NextPage(todo[1]) ELSE todo[k]
    BY <1>1, <1>2, <1>3
  <1>8. \A v \in VirtualPages \ HeapPages : Translate(v)' \in {NONE, Target(v)}
    BY <1>5, <1>6 DEF MapInv
  <1>9. \A k \in DOMAIN todo' : Straight(todo'[k])
    BY <1>5, <1>7 DEF MapInv
  <1>10. Wanted' = Wanted /\ Wanted \subseteq VirtualPages
    BY WantedOutsideHeap DEF Wanted, WindowPages, ManagedPages, EarlyPages
  <1>11. ASSUME NEW v \in Wanted PROVE v \in Pending' \/ Translate(v)' # NONE
    <2>1. CASE v = TargetPage
      BY <1>2, <1>6, <2>1 DEF NONE
    <2>2. CASE v # TargetPage /\ v \in Pending
      <3>1. PICK k \in DOMAIN todo : v \in RangePages(todo[k])
        BY <2>2 DEF Pending
      <3>2. v \in RangePages(todo'[k])
        BY <1>5, <1>7, <2>2, <3>1
      <3> QED BY <1>7, <3>2 DEF Pending
    <2>3. CASE v # TargetPage /\ Translate(v) # NONE
      BY <1>6, <1>10, <2>3
    <2> QED BY <2>1, <2>2, <2>3 DEF MapInv
  <1> QED BY <1>1, <1>8, <1>9, <1>10, <1>11 DEF MapInv, VirtualMemory

\* Every step preserves what is mapped.
LEMMA NextMapInv ==
    ASSUME FlatLayout, VInv, VInv', MapInv, [VmmNext]_vars
    PROVE  MapInv'
  <1> USE DEF VInv
  <1>1. CASE BootPmm
    <2>1. InitPmm /\ pc = "boot" /\ pc' = "roots"
      BY <1>1 DEF BootPmm
    <2>2. /\ PASSTHRU_BASE + max_pages' <= VSPACE
          /\ BitmapPages(bitmap_addr', sizeof_bitmap') \subseteq ConventionalPages(mem_map')
      BY <2>1, InitPmmPlacesBitmap
    <2>3. \A v \in VirtualPages \ HeapPages : Translate(v)' = Translate(v)
      BY <2>1, OutsideHeapStable DEF BuildRoot
    <2> QED BY <2>1, <2>2, <2>3 DEF MapInv, VirtualMemory
  <1>2. CASE BuildRoot
    BY <1>2, BuildRootMapInv
  <1>3. CASE ~BootPmm /\ WritePte /\ pc = "map_boot"
    BY <1>3, LayoutFixed, WritePteMapInv
  <1>4. CASE ~BootPmm /\ ~BuildRoot /\ ~(WritePte /\ pc = "map_boot")
    <2>1. UNCHANGED <<mem_map, max_pages, bitmap_addr, sizeof_bitmap>>
      BY <1>4, LayoutFixed
    <2>2. \A v \in VirtualPages \ HeapPages : Translate(v)' = Translate(v)
      BY <1>4, OutsideHeapStable
    <2>3. Wanted' = Wanted /\ \A v \in Wanted : Translate(v)' = Translate(v)
      BY <2>1, <2>2, WantedOutsideHeap DEF Wanted, WindowPages, ManagedPages, EarlyPages
    <2>4. ASSUME pc' = "map_boot"
          PROVE  /\ \A k \in DOMAIN todo' : Straight(todo'[k])
                 /\ \A v \in Wanted' : v \in Pending' \/ Translate(v)' # NONE
      <3>1. pc = "map_boot" /\ (todo' = todo \/ RangeDone)
        <4>1. CASE AllocTable
          BY <2>4, <4>1 DEF AllocTable, Mapping
        <4>2. CASE WritePte
          BY <1>4, <2>4, <4>2 DEF WritePte, Mapping
        <4>3. CASE RangeDone
          BY <4>3 DEF RangeDone
        <4>4. CASE UNCHANGED vars
          BY <2>4, <4>4 DEF vars, vmmVars
        <4>5. CASE AllocRoot \/ VallocsPage \/ VfreesPage \/ Panic
          BY <2>4, <4>5 DEF AllocRoot, VallocsPage, VfreesPage, Panic, vmmVars
        <4>6. CASE \/ LoadCr3 \/ VallocsReturn \/ VfreesReturn
                   \/ \E count \in 1 .. MaxCount : CallVallocs(count)
                   \/ \E r \in granted : CallVfrees(r)
          BY <2>4, <4>6 DEF LoadCr3, VallocsReturn, VfreesReturn, CallVallocs, CallVfrees
        <4> QED BY <1>4, <4>1, <4>2, <4>3, <4>4, <4>5, <4>6 DEF VmmNext, VmmHalted
      <3>2. CASE todo' = todo
        BY <2>3, <3>1, <3>2 DEF MapInv, Pending
      <3>3. CASE RangeDone
        <4>1. todo' = Tail(todo) /\ todo # <<>> /\ Head(todo).pages = 0 /\ todo \in Seq(MapRange)
          BY <3>3 DEF RangeDone, VmmTypeOK
        <4>2. 1 \in DOMAIN todo /\ todo[1] \in MapRange /\ todo[1].pages = 0
          BY <4>1
        <4>3. RangePages(todo[1]) = {}
          BY <4>2 DEF RangePages, MapRange
        <4>4. \A k \in DOMAIN todo' : k + 1 \in DOMAIN todo /\ todo'[k] = todo[k + 1]
          BY <4>1
        <4>5. \A k \in DOMAIN todo \ {1} : k - 1 \in DOMAIN todo' /\ todo'[k - 1] = todo[k]
          BY <4>1
        <4>6. Pending \subseteq Pending'
          <5> SUFFICES ASSUME NEW v \in Pending PROVE v \in Pending'
            OBVIOUS
          <5>1. PICK k \in DOMAIN todo : v \in RangePages(todo[k])
            BY DEF Pending
          <5>2. k # 1
            BY <4>3, <5>1
          <5>3. k - 1 \in DOMAIN todo' /\ v \in RangePages(todo'[k - 1])
            BY <4>5, <5>1, <5>2
          <5> QED BY <5>3 DEF Pending
        <4>7. \A k \in DOMAIN todo' : Straight(todo'[k])
          BY <3>1, <4>4 DEF MapInv
        <4> QED BY <2>3, <3>1, <4>6, <4>7 DEF MapInv
      <3> QED BY <3>1, <3>2, <3>3
    <2>5. ASSUME VirtualMemory' PROVE \A v \in Wanted' : Translate(v)' # NONE
      <3>1. VirtualMemory \/ LoadCr3
        BY <1>4, <2>5 DEF VmmNext, AllocRoot, AllocTable, WritePte, RangeDone, CallVallocs,
           VallocsPage, VallocsReturn, CallVfrees, VfreesPage, VfreesReturn, Panic, VmmHalted,
           vars, vmmVars, VirtualMemory, Mapping
      <3>2. CASE VirtualMemory
        BY <2>3, <3>2 DEF MapInv
      <3>3. CASE LoadCr3
        <4>1. pc = "map_boot" /\ todo = <<>>
          BY <3>3 DEF LoadCr3
        <4>2. Pending = {}
          BY <4>1 DEF Pending
        <4> QED BY <2>3, <4>1, <4>2 DEF MapInv
      <3> QED BY <3>1, <3>2, <3>3
    <2> QED BY <2>1, <2>2, <2>4, <2>5 DEF MapInv
  <1> QED BY <1>1, <1>2, <1>3, <1>4

\* With a flat layout init_vmm's mappings are in place in every state.
THEOREM MapInvariant ==
    ASSUME FlatLayout PROVE VmmSpec => []MapInv
  <1>1. VmmInit => MapInv
    BY InitMapInv
  <1>2. VInv /\ VInv' /\ MapInv /\ [VmmNext]_vars => MapInv'
    BY NextMapInv
  <1> QED BY <1>1, <1>2, VmmInvariant, PTL DEF VmmSpec

\* With a flat layout the kernel image, the stack and the code that loads CR3
\* are mapped where they were, from the moment CR3 is loaded.
THEOREM BootRangesAlwaysMapped ==
    ASSUME FlatLayout PROVE VmmSpec => []BootRangesMapped
  <1>1. VInv /\ MapInv => BootRangesMapped
    <2> SUFFICES ASSUME VInv, MapInv, VirtualMemory, NEW k \in DOMAIN EarlyRanges,
                        NEW n \in 0 .. (EarlyRanges[k].pages - 1)
                 PROVE  Translate(EarlyRanges[k].virt + n) = EarlyRanges[k].phys + n
      BY DEF BootRangesMapped
    <2> DEFINE r == EarlyRanges[k]
               v == r.virt + n
    <2>1. r \in MapRange /\ r.virt + r.pages <= KHEAP_BASE /\ r.phys = r.virt
      BY VmmAssumption, SeqElement DEF FlatLayout
    <2>2. r.virt \in Nat /\ r.pages \in Nat /\ n \in Nat /\ n < r.pages
      BY <2>1 DEF MapRange
    <2>3. v \in RangePages(r) /\ v < KHEAP_BASE
      BY <2>1, <2>2, HeapFacts DEF RangePages
    <2>4. v \in Wanted
      BY <2>3 DEF Wanted, EarlyPages
    <2>5. Translate(v) = Target(v)
      BY <2>4, WantedOutsideHeap DEF MapInv
    <2> QED BY <2>1, <2>3, <2>5 DEF Target
  <1> QED BY <1>1, VmmInvariant, MapInvariant, PTL

\* With a flat layout, on a machine with a local APIC, the memory managers
\* reach their page tables and their bitmap in every state after CR3 is
\* loaded.  Without the APIC nothing maps the bitmap.
THEOREM ManagersAlwaysReachable ==
    ASSUME FlatLayout, SupportApic PROVE VmmSpec => []ManagersReachable
  <1>1. VInv /\ MapInv => ManagersReachable
    <2> SUFFICES ASSUME VInv, MapInv, VirtualMemory
                 PROVE  /\ \A f \in TableFrames : Translate(get_virt_addr(f)) = f
                        /\ \A p \in BitmapPages(bitmap_addr, sizeof_bitmap) : Translate(p) = p
      BY DEF ManagersReachable
    <2> USE DEF VInv
    <2>1. ASSUME NEW f \in TableFrames PROVE Translate(get_virt_addr(f)) = f
      <3>1. f \in held
        BY DEF FramesAccounted, VirtualMemory
      <3>2. f \in Nat /\ f < max_pages /\ max_pages \in Nat
        BY <3>1 DEF IInv, TypeOK, OnlyUsablePagesHeld
      <3>3. PASSTHRU_BASE + f \in WindowPages /\ PASSTHRU_BASE + f < VSPACE
        BY <3>2, HeapFacts DEF WindowPages, MapInv
      <3>4. get_virt_addr(f) = PASSTHRU_BASE + f
        <4>1. PASSTHRU_BASE + f \in Nat /\ PASSTHRU_BASE + f < VSPACE + VSPACE /\ VSPACE \in Nat \ {0}
          BY <3>2, <3>3, HeapFacts
        <4> QED BY <3>3, <4>1, ModOnce DEF get_virt_addr
      <3>5. PASSTHRU_BASE + f \in Wanted
        BY <3>3 DEF Wanted
      <3>6. Translate(PASSTHRU_BASE + f) = Target(PASSTHRU_BASE + f)
        BY <3>5, WantedOutsideHeap DEF MapInv
      <3>7. Target(PASSTHRU_BASE + f) = f
        BY <3>2, HeapFacts DEF Target
      <3> QED BY <3>4, <3>6, <3>7
    <2>2. ASSUME NEW p \in BitmapPages(bitmap_addr, sizeof_bitmap) PROVE Translate(p) = p
      <3>1. p \in ConventionalPages(mem_map)
        BY DEF MapInv
      <3>2. p \in Wanted
        BY <3>1 DEF Wanted, ManagedPages
      <3>3. Translate(p) = Target(p)
        BY <3>2, WantedOutsideHeap DEF MapInv
      <3>4. p < KHEAP_BASE
        <4>1. mem_map \in MemMaps /\ mem_map \in Seq(Descriptor)
          BY PmmAssumption DEF IInv, TypeOK
        <4>2. PICK i \in Conventional(mem_map) : p \in RegionPages(mem_map[i])
          BY <3>1 DEF ConventionalPages
        <4>3. mem_map[i] \in Descriptor
          BY <4>1 DEF Conventional
        <4>4. mem_map[i].PhysicalStart + mem_map[i].NumberOfPages <= KHEAP_BASE
          BY <4>1, VmmAssumption DEF RegionEnds
        <4>5. mem_map[i].PhysicalStart \in Nat /\ mem_map[i].NumberOfPages \in Nat
          BY <4>3 DEF Descriptor
        <4> QED BY <4>2, <4>4, <4>5, HeapFacts DEF RegionPages
      <3> QED BY <3>3, <3>4 DEF Target
    <2> QED BY <2>1, <2>2
  <1> QED BY <1>1, VmmInvariant, MapInvariant, PTL

=============================================================================

----------------------------- MODULE PmmProofs -----------------------------
(***************************************************************************)
(* Proofs about Pmm, for every memory map, page size and byte width.       *)
(***************************************************************************)
EXTENDS Pmm, FiniteSetTheorems, WellFoundedInduction, TLAPS

-----------------------------------------------------------------------------
(* Arithmetic of pages and bytes.                                          *)

\* A quotient is determined by its bounds.
LEMMA DivBounds ==
    ASSUME NEW n \in Nat, NEW d \in Nat \ {0}
    PROVE  /\ n \div d \in Nat
           /\ d * (n \div d) <= n
           /\ n < d * (n \div d) + d
  OBVIOUS

\* pfree's division undoes palloc's multiplication by PAGE_SIZE.
LEMMA MulDiv ==
    ASSUME NEW b \in Nat, NEW d \in Nat \ {0}
    PROVE  (b * d) \div d = b
  <1> DEFINE q == (b * d) \div d
             r == b * d - d * q
  <1>1. b * d \in Nat
    OBVIOUS
  <1>2. q \in Nat /\ r \in Int /\ 0 <= r /\ r < d /\ d * (b - q) = r
    BY <1>1, DivBounds
  <1> HIDE DEF q, r
  <1>3. CASE b - q >= 1
    <2>1. d * (b - q) >= d
      BY <1>3, <1>2
    <2> QED BY <2>1, <1>2
  <1>4. CASE b - q <= -1
    <2>1. d * (b - q) <= -d
      BY <1>4, <1>2
    <2> QED BY <2>1, <1>2
  <1>5. b = q
    BY <1>2, <1>3, <1>4
  <1> QED BY <1>5 DEF q

\* A bitmap of CeilDiv(n, BYTE) bytes has a bit for each of n pages.
LEMMA CeilDivCovers ==
    ASSUME NEW n \in Nat, NEW d \in Nat \ {0}
    PROVE  CeilDiv(n, d) \in Nat /\ n <= d * CeilDiv(n, d)
  <1>1. n + d - 1 \in Nat
    OBVIOUS
  <1> QED BY <1>1, DivBounds DEF CeilDiv

\* Every non-empty set of numbers has a least one.
LEMMA LeastNumber ==
    ASSUME NEW T, T \subseteq Nat, T # {}
    PROVE  \E x \in T : \A y \in T : x <= y
  <1>1. PICK x \in T : \A y \in T : ~ (<<y, x>> \in OpToRel(<, Nat))
    BY NatLessThanWellFounded, WFMin
  <1>2. \A y \in T : ~ (y < x)
    BY <1>1 DEF OpToRel
  <1> QED BY <1>2

-----------------------------------------------------------------------------
(* The inductive invariant.                                                *)

\* Every page below max_pages has a bit, and no bit past max_pages is clear:
\* the scan of palloc cannot stop at a tail bit.
BitmapCovers ==
    /\ max_pages <= BYTE * sizeof_bitmap
    /\ \A b \in ClearBits : b < max_pages

\* Before init_pmm nothing is managed, so the calls of the self test change
\* nothing.
EmptyBeforeInit ==
    ~bitmap_init => /\ max_pages = 0 /\ sizeof_bitmap = 0
                    /\ held = {} /\ reserved = {}

IInv ==
    /\ TypeOK
    /\ BitmapCovers
    /\ EmptyBeforeInit
    /\ FreeCountExact
    /\ OnlyUsablePagesHeld
    /\ PagesConserved

\* The bits form a finite interval of numbers.
LEMMA BitsFacts ==
    ASSUME TypeOK
    PROVE  /\ Bits \subseteq Nat
           /\ ClearBits \subseteq Bits
           /\ IsFiniteSet(ClearBits)
           /\ Cardinality(ClearBits) \in Nat
  <1>1. BYTE * sizeof_bitmap - 1 \in Int
    BY PmmAssumption DEF TypeOK
  <1>2. IsFiniteSet(Bits)
    BY <1>1, FS_Interval DEF Bits
  <1>3. ClearBits \subseteq Bits
    BY DEF ClearBits
  <1>4. IsFiniteSet(ClearBits)
    BY <1>2, <1>3, FS_Subset
  <1> QED BY <1>1, <1>3, <1>4, FS_CardinalityType DEF Bits

\* What mark_used does to the clear bits and to the counter.
LEMMA MarkUsedEffect ==
    ASSUME TypeOK, BitmapCovers, FreeCountExact,
           NEW S \in SUBSET Nat,
           mark_used(S), UNCHANGED <<sizeof_bitmap, max_pages>>
    PROVE  /\ bitmap' \in [Bits -> {0, 1}]
           /\ Bits' = Bits
           /\ ClearBits' = ClearBits \ S
           /\ free_pages' \in Int
           /\ FreeCountExact'
           /\ BitmapCovers'
  <1> DEFINE fresh == {p \in S : ~page_used(p)}
  <1>1. fresh = S \cap ClearBits
    <2>1. ASSUME NEW p \in fresh PROVE p \in ClearBits
      BY PmmAssumption DEF page_used, ClearBits, Bits, BitmapCovers, TypeOK
    <2>2. ASSUME NEW p \in S, p \in ClearBits PROVE p \in fresh
      BY <2>2, BitsFacts, PmmAssumption DEF page_used, ClearBits, BitmapCovers, TypeOK
    <2> QED BY <2>1, <2>2
  <1> HIDE DEF fresh
  <1>2. bitmap' = [b \in Bits |-> IF b \in fresh THEN 1 ELSE bitmap[b]]
    BY DEF mark_used, fresh
  <1>3. free_pages' = free_pages - Cardinality(fresh)
    BY DEF mark_used, fresh
  <1>4. Bits' = Bits
    BY DEF Bits
  <1>5. bitmap' \in [Bits -> {0, 1}]
    BY <1>2 DEF TypeOK
  <1>6. ClearBits' = ClearBits \ S
    BY <1>1, <1>2, <1>4 DEF ClearBits
  <1>7. Cardinality(ClearBits \ S) = Cardinality(ClearBits) - Cardinality(fresh)
    <2>1. Cardinality(ClearBits \ S) = Cardinality(ClearBits) - Cardinality(ClearBits \cap S)
      BY BitsFacts, FS_Difference
    <2>2. fresh = ClearBits \cap S
      BY <1>1
    <2> QED BY <2>1, <2>2
  <1>8. IsFiniteSet(fresh) /\ Cardinality(fresh) \in Nat
    BY <1>1, BitsFacts, FS_Subset, FS_CardinalityType
  <1>9. free_pages' \in Int /\ FreeCountExact'
    BY <1>3, <1>6, <1>7, <1>8 DEF FreeCountExact, TypeOK
  <1>10. BitmapCovers'
    BY <1>6 DEF BitmapCovers
  <1> QED BY <1>4, <1>5, <1>6, <1>9, <1>10

\* What freeing one page does.
LEMMA MarkFreeEffect ==
    ASSUME TypeOK, BitmapCovers, FreeCountExact,
           NEW p \in Nat,
           mark_free({p}), UNCHANGED <<sizeof_bitmap, max_pages>>
    PROVE  /\ bitmap' \in [Bits -> {0, 1}]
           /\ Bits' = Bits
           /\ ClearBits' = IF p < max_pages THEN ClearBits \cup {p} ELSE ClearBits
           /\ free_pages' \in Int
           /\ FreeCountExact'
           /\ BitmapCovers'
  <1> DEFINE taken == {q \in {p} : q < max_pages /\ page_used(q)}
  <1>1. bitmap' = [b \in Bits |-> IF b \in taken THEN 0 ELSE bitmap[b]]
    BY DEF mark_free
  <1>2. free_pages' = free_pages + Cardinality(taken)
    BY DEF mark_free
  <1>3. Bits' = Bits
    BY DEF Bits
  <1>4. bitmap' \in [Bits -> {0, 1}]
    BY <1>1 DEF TypeOK
  <1>5. p < max_pages => p \in Bits
    BY PmmAssumption DEF Bits, BitmapCovers, TypeOK
  <1>6. CASE p < max_pages /\ page_used(p)
    <2>1. taken = {p}
      BY <1>6
    <2>2. p \notin ClearBits
      BY <1>6 DEF page_used, ClearBits, TypeOK
    <2>3. ClearBits' = ClearBits \cup {p}
      BY <1>1, <1>3, <1>5, <1>6, <2>1 DEF ClearBits
    <2>4. Cardinality(ClearBits') = Cardinality(ClearBits) + 1
      BY <2>2, <2>3, BitsFacts, FS_AddElement
    <2>5. Cardinality(taken) = 1
      BY <2>1, FS_Singleton
    <2> QED BY <1>2, <1>3, <1>4, <1>6, <2>3, <2>4, <2>5
            DEF FreeCountExact, BitmapCovers, TypeOK
  <1>7. CASE ~(p < max_pages /\ page_used(p))
    <2>1. taken = {}
      BY <1>7
    <2>2. bitmap' = bitmap
      BY <1>1, <2>1 DEF TypeOK
    <2>3. ClearBits' = ClearBits
      BY <1>3, <2>2 DEF ClearBits
    <2>4. p < max_pages => p \in ClearBits
      BY <1>5, <1>7 DEF ClearBits, page_used, TypeOK
    <2>5. Cardinality(taken) = 0
      BY <2>1, FS_EmptySet
    <2>6. ClearBits' = IF p < max_pages THEN ClearBits \cup {p} ELSE ClearBits
      BY <2>3, <2>4
    <2>7. free_pages' = free_pages
      BY <1>2, <2>5 DEF TypeOK
    <2> QED BY <1>3, <1>4, <2>3, <2>6, <2>7 DEF FreeCountExact, BitmapCovers, TypeOK
  <1> QED BY <1>6, <1>7

\* The byte-wise scan of palloc stops at a clear bit whenever there is one.
LEMMA ScanFindsClearBit ==
    ASSUME TypeOK, ClearBits # {}
    PROVE  \E b \in ClearBits : FirstClear(b)
  <1>1. PICK b \in ClearBits : \A c \in ClearBits : b <= c
    BY BitsFacts, LeastNumber
  <1> DEFINE byte == b \div BYTE
  <1>2. b \in Nat /\ b < BYTE * sizeof_bitmap
    BY BitsFacts, PmmAssumption DEF Bits, TypeOK
  <1>3. byte \in Nat /\ BYTE * byte <= b /\ b < BYTE * byte + BYTE
    BY <1>2, DivBounds, PmmAssumption
  <1>4. byte \in 0 .. (sizeof_bitmap - 1)
    <2>1. BYTE * byte < BYTE * sizeof_bitmap
      BY <1>2, <1>3, PmmAssumption DEF TypeOK
    <2>2. byte < sizeof_bitmap
      <3> HIDE DEF byte
      <3>1. SUFFICES ASSUME byte >= sizeof_bitmap PROVE FALSE
        BY <1>3 DEF TypeOK
      <3>2. BYTE * byte >= BYTE * sizeof_bitmap
        BY <3>1, <1>3, PmmAssumption DEF TypeOK
      <3> QED BY <3>2, <2>1, <1>3, PmmAssumption DEF TypeOK
    <2> QED BY <1>3, <2>2 DEF TypeOK
  <1>5. ASSUME NEW earlier \in 0 .. (byte - 1), NEW c \in ClearInByte(earlier)
        PROVE  FALSE
    <2>1. c \in ClearBits /\ c \div BYTE = earlier /\ c \in Nat /\ b <= c
      BY <1>1, <1>5, BitsFacts DEF ClearInByte
    <2>2. c < BYTE * earlier + BYTE
      BY <2>1, DivBounds, PmmAssumption
    <2>3. BYTE * earlier + BYTE <= BYTE * byte
      <3> HIDE DEF byte
      <3>1. earlier + 1 <= byte /\ earlier \in Nat
        BY <1>3
      <3>2. BYTE * (earlier + 1) <= BYTE * byte
        BY <3>1, <1>3, PmmAssumption
      <3> QED BY <3>1, <3>2, <1>3, PmmAssumption
    <2> QED BY <2>1, <2>2, <2>3, <1>2, <1>3, PmmAssumption
  <1>6. b \in ClearInByte(byte) /\ \A c \in ClearInByte(byte) : b <= c
    BY <1>1 DEF ClearInByte
  <1>7. FirstClear(b)
    BY <1>4, <1>5, <1>6 DEF FirstClear, FirstClearUpTo
  <1> QED BY <1>7

-----------------------------------------------------------------------------
(* Preservation, one lemma per call.                                       *)

Usable == {p \in ConventionalPages(mem_map) : p < max_pages}

\* Init establishes the invariant.
LEMMA InitIInv == Init => IInv
  <1> SUFFICES ASSUME Init PROVE IInv
    OBVIOUS
  <1>1. sizeof_bitmap = 0 /\ max_pages = 0 /\ bitmap_addr = 0 /\ held = {} /\ reserved = {}
    BY DEF Init
  <1>2. Bits = {}
    BY <1>1, PmmAssumption DEF Bits
  <1>3. TypeOK
    <2>1. bitmap \in [Bits -> {0, 1}]
      BY DEF Init
    <2>2. free_pages \in Int /\ ret \in Nat /\ mem_map \in MemMaps
      BY DEF Init
    <2>3. bitmap_init \in BOOLEAN /\ panicked \in BOOLEAN
      BY Zenon DEF Init
    <2> QED BY <1>1, <2>1, <2>2, <2>3 DEF TypeOK
  <1>4. ClearBits = {}
    BY <1>2 DEF ClearBits
  <1>5. Cardinality(ClearBits) = 0
    BY <1>4, FS_EmptySet
  <1>6. BitmapCovers
    BY <1>1, <1>4, PmmAssumption DEF BitmapCovers
  <1> QED BY <1>1, <1>3, <1>5, <1>6
          DEF Init, IInv, EmptyBeforeInit, FreeCountExact, OnlyUsablePagesHeld, PagesConserved

\* The firmware's page numbers are numbers.
LEMMA MemMapFacts ==
    ASSUME TypeOK
    PROVE  /\ ConventionalPages(mem_map) \subseteq Nat
           /\ RegionEnds(mem_map) \subseteq Nat
           /\ \A i \in DOMAIN mem_map : mem_map[i] \in Descriptor
  <1>1. mem_map \in Seq(Descriptor)
    BY PmmAssumption DEF TypeOK
  <1>2. \A i \in 1 .. Len(mem_map) : mem_map[i] \in Descriptor
    BY <1>1
  <1>3. \A i \in 1 .. Len(mem_map) :
            mem_map[i].PhysicalStart \in Nat /\ mem_map[i].NumberOfPages \in Nat
    BY <1>2 DEF Descriptor
  <1>4. ConventionalPages(mem_map) \subseteq Nat
    BY <1>3 DEF ConventionalPages, Conventional, RegionPages
  <1>5. RegionEnds(mem_map) \subseteq Nat
    BY <1>3 DEF RegionEnds, Conventional
  <1> QED BY <1>1, <1>2, <1>4, <1>5

\* init_pmm leaves exactly the usable pages it does not keep as clear bits.
LEMMA InitPmmEffect ==
    ASSUME TypeOK, EmptyBeforeInit, ~bitmap_init,
           NEW n \in Nat, NEW i \in DOMAIN mem_map, init_pmm(n, i),
           UNCHANGED <<mem_map, panicked, held, reserved, ret>>
    PROVE  IInv'
  <1> DEFINE size == CeilDiv(n, BYTE)
             addr == mem_map[i].PhysicalStart
             usable == {p \in ConventionalPages(mem_map) : p < n}
             kept == usable \cap KeptPages(addr, size)
  <1>1. size \in Nat /\ n <= BYTE * size
    BY CeilDivCovers, PmmAssumption
  <1>2. addr \in Nat
    BY MemMapFacts DEF Descriptor
  <1>3. usable \subseteq Nat /\ \A p \in usable : p < n
    BY MemMapFacts
  <1>4. /\ max_pages' = n /\ sizeof_bitmap' = size /\ bitmap_addr' = addr /\ bitmap_init'
        /\ bitmap' = [b \in 0 .. (BYTE * size - 1) |-> IF b \in usable \ kept THEN 0 ELSE 1]
        /\ free_pages' = Cardinality(usable) - Cardinality(kept)
    BY DEF init_pmm
  <1> HIDE DEF size, addr
  <1>5. Bits' = 0 .. (BYTE * size - 1)
    BY <1>4 DEF Bits
  <1>6. usable \subseteq 0 .. (BYTE * size - 1)
    BY <1>1, <1>3, PmmAssumption
  <1> HIDE DEF usable
  <1>7. ClearBits' = usable \ kept
    <2> DEFINE I == 0 .. (BYTE * size - 1)
    <2>1. bitmap' = [b \in I |-> IF b \in usable \ kept THEN 0 ELSE 1]
      BY <1>4
    <2>2. ClearBits' = {b \in I : bitmap'[b] = 0}
      BY <1>5 DEF ClearBits
    <2>3. usable \subseteq I
      BY <1>6
    <2> HIDE DEF I, kept
    <2>4. \A b \in I : bitmap'[b] = 0 <=> b \in usable \ kept
      BY <2>1
    <2> QED BY <2>2, <2>3, <2>4
  <1>8. IsFiniteSet(usable)
    <2>1. BYTE * size - 1 \in Int
      BY <1>1, PmmAssumption
    <2>2. IsFiniteSet(0 .. (BYTE * size - 1))
      BY <2>1, FS_Interval
    <2> QED BY <1>6, <2>2, FS_Subset
  <1>9. Cardinality(usable \ kept) = Cardinality(usable) - Cardinality(kept)
    <2>1. Cardinality(usable \ kept) = Cardinality(usable) - Cardinality(usable \cap kept)
      BY <1>8, FS_Difference
    <2>2. usable \cap kept = kept
      OBVIOUS
    <2> QED BY <2>1, <2>2
  <1>10. Cardinality(usable) \in Nat /\ Cardinality(kept) \in Nat
    <2>1. kept \subseteq usable
      OBVIOUS
    <2>2. IsFiniteSet(kept)
      BY <1>8, <2>1, FS_Subset
    <2> QED BY <1>8, <2>2, FS_CardinalityType
  <1>11. TypeOK'
    <2>1. bitmap' \in [Bits' -> {0, 1}]
      BY <1>4, <1>5
    <2> QED BY <1>1, <1>2, <1>4, <1>10, <2>1 DEF TypeOK
  <1>12. FreeCountExact'
    BY <1>4, <1>7, <1>9 DEF FreeCountExact
  <1>13. held = {} /\ reserved = {} /\ held' = {} /\ reserved' = {}
    BY DEF EmptyBeforeInit
  <1>14. OnlyUsablePagesHeld'
    BY <1>13 DEF OnlyUsablePagesHeld
  <1>15. Protected' = KeptPages(addr, size)
    BY <1>4, <1>13 DEF Protected, KeptPages
  <1>16. PagesConserved'
    <2>1. {p \in ConventionalPages(mem_map') : p < max_pages'} = usable
      BY <1>4 DEF usable
    <2>2. usable \ Protected' = ClearBits'
      BY <1>7, <1>15
    <2> QED BY <2>1, <2>2, <1>13 DEF PagesConserved
  <1>17. BitmapCovers'
    BY <1>1, <1>3, <1>4, <1>7 DEF BitmapCovers
  <1> QED BY <1>4, <1>11, <1>12, <1>14, <1>16, <1>17 DEF IInv, EmptyBeforeInit

\* palloc's two outcomes: nothing changes, or the returned page leaves the
\* clear bits; the first only when no bit is clear.
LEMMA PallocEffect ==
    ASSUME IInv, NEW address, palloc(address)
    PROVE  \/ /\ address = 0
              /\ UNCHANGED pmmState
              /\ ClearBits = {}
           \/ \E b \in ClearBits :
                /\ address = b * PAGE_SIZE /\ address # 0 /\ address \div PAGE_SIZE = b
                /\ mark_used({b})
                /\ UNCHANGED <<sizeof_bitmap, max_pages, bitmap_addr, bitmap_init>>
  <1> USE DEF IInv
  <1>1. CASE ~bitmap_init \/ (\A b \in ClearBits : ~FirstClear(b))
    <2>1. ClearBits = {}
      <3>1. CASE ~bitmap_init
        BY <3>1, PmmAssumption DEF EmptyBeforeInit, ClearBits, Bits
      <3>2. CASE \A b \in ClearBits : ~FirstClear(b)
        BY <3>2, ScanFindsClearBit
      <3> QED BY <1>1, <3>1, <3>2
    <2> QED BY <2>1 DEF palloc
  <1>2. CASE ~(~bitmap_init \/ (\A b \in ClearBits : ~FirstClear(b)))
    <2>1. PICK b \in ClearBits :
             IF b >= max_pages
             THEN address = 0 /\ UNCHANGED pmmState
             ELSE /\ address = b * PAGE_SIZE
                  /\ mark_used({b})
                  /\ UNCHANGED <<sizeof_bitmap, max_pages, bitmap_addr, bitmap_init>>
      BY <1>2 DEF palloc
    <2>2. b \in Nat /\ ~(b >= max_pages)
      BY BitsFacts DEF BitmapCovers, TypeOK
    <2>3. b # 0
      BY <1>2 DEF PagesConserved, Protected
    <2>4. b * PAGE_SIZE # 0 /\ (b * PAGE_SIZE) \div PAGE_SIZE = b
      BY <2>2, <2>3, MulDiv, PmmAssumption
    <2> QED BY <2>1, <2>2, <2>4
  <1> QED BY <1>1, <1>2

\* Every step preserves the invariant.
LEMMA NextIInv == IInv /\ [Next]_pmmVars => IInv'
  <1> SUFFICES ASSUME IInv, [Next]_pmmVars PROVE IInv'
    OBVIOUS
  <1> USE DEF IInv
  <1>1. CASE InitPmm
    <2>1. PICK n \in {0} \cup RegionEnds(mem_map) :
             /\ IsMaxPages(n)
             /\ \/ /\ \E i \in DOMAIN mem_map : init_pmm(n, i)
                   /\ UNCHANGED panicked
                \/ /\ panicked' = TRUE
                   /\ UNCHANGED pmmState
      BY <1>1 DEF InitPmm
    <2>2. ~bitmap_init /\ UNCHANGED <<mem_map, held, reserved, ret>>
      BY <1>1 DEF InitPmm
    <2>3. n \in Nat
      BY MemMapFacts
    <2>4. CASE (\E i \in DOMAIN mem_map : init_pmm(n, i)) /\ UNCHANGED panicked
      BY <2>2, <2>3, <2>4, InitPmmEffect
    <2>5. CASE panicked' = TRUE /\ UNCHANGED pmmState
      BY <2>2, <2>5 DEF pmmState, TypeOK, BitmapCovers, EmptyBeforeInit, FreeCountExact,
         OnlyUsablePagesHeld, PagesConserved, ClearBits, Bits, Protected, BitmapPages
    <2> QED BY <2>1, <2>4, <2>5
  <1>2. CASE Palloc
    <2>1. PICK address \in {0} \cup {b * PAGE_SIZE : b \in ClearBits} :
             /\ palloc(address)
             /\ ret' = address \div PAGE_SIZE
             /\ held' = IF address = 0 THEN held ELSE held \cup {address \div PAGE_SIZE}
      BY <1>2 DEF Palloc
    <2>2. UNCHANGED <<mem_map, panicked, reserved>>
      BY <1>2 DEF Palloc
    <2>3. CASE address = 0 /\ UNCHANGED pmmState /\ ClearBits = {}
      <3>1. held' = held
        BY <2>1, <2>3
      <3>2. 0 \div PAGE_SIZE \in Nat
        BY DivBounds, PmmAssumption
      <3>3. ret' \in Nat
        BY <2>1, <2>3, <3>2
      <3> QED BY <2>2, <2>3, <3>1, <3>3
              DEF pmmState, TypeOK, BitmapCovers, EmptyBeforeInit, FreeCountExact,
              OnlyUsablePagesHeld, PagesConserved, ClearBits, Bits, Protected, BitmapPages
    <2>4. CASE \E b \in ClearBits :
                 /\ address = b * PAGE_SIZE /\ address # 0 /\ address \div PAGE_SIZE = b
                 /\ mark_used({b})
                 /\ UNCHANGED <<sizeof_bitmap, max_pages, bitmap_addr, bitmap_init>>
      <3>1. PICK b \in ClearBits :
                 /\ address # 0 /\ address \div PAGE_SIZE = b
                 /\ mark_used({b})
                 /\ UNCHANGED <<sizeof_bitmap, max_pages, bitmap_addr, bitmap_init>>
        BY <2>4
      <3>2. b \in Nat
        BY BitsFacts
      <3>3. /\ bitmap' \in [Bits -> {0, 1}] /\ Bits' = Bits
            /\ ClearBits' = ClearBits \ {b}
            /\ free_pages' \in Int /\ FreeCountExact' /\ BitmapCovers'
        BY <3>1, <3>2, MarkUsedEffect
      <3>4. held' = held \cup {b} /\ ret' = b
        BY <2>1, <3>1
      <3>5. TypeOK'
        BY <2>2, <3>1, <3>2, <3>3, <3>4 DEF TypeOK
      <3>6. bitmap_init
        BY PmmAssumption DEF EmptyBeforeInit, ClearBits, Bits, TypeOK
      <3>7. Protected' = Protected
        BY <2>2, <3>1 DEF Protected, BitmapPages
      <3>8. b \in Usable \ Protected
        BY <3>6 DEF PagesConserved, Usable
      <3>9. Usable' = Usable
        BY <2>2, <3>1 DEF Usable
      <3>10. OnlyUsablePagesHeld'
        BY <3>4, <3>7, <3>8, <3>9 DEF OnlyUsablePagesHeld, Usable
      <3>11. PagesConserved'
        BY <3>3, <3>4, <3>6, <3>7, <3>9 DEF PagesConserved, Usable
      <3> QED BY <3>1, <3>3, <3>5, <3>6, <3>10, <3>11 DEF EmptyBeforeInit
    <2> QED BY <2>1, <2>3, <2>4, PallocEffect
  <1>3. ASSUME NEW p \in Pages, Pfree(p) PROVE IInv'
    <2>1. p \in Nat
      BY PmmAssumption
    <2>2. (p * PAGE_SIZE) \div PAGE_SIZE = p
      BY <2>1, MulDiv, PmmAssumption
    <2>3. /\ mark_free({p})
          /\ UNCHANGED <<sizeof_bitmap, max_pages, bitmap_addr, bitmap_init>>
          /\ held' = held \ {p}
          /\ UNCHANGED <<mem_map, panicked, reserved, ret>>
          /\ p \in held \/ ~bitmap_init
      BY <1>3, <2>2 DEF Pfree, pfree
    <2>4. /\ bitmap' \in [Bits -> {0, 1}] /\ Bits' = Bits
          /\ ClearBits' = IF p < max_pages THEN ClearBits \cup {p} ELSE ClearBits
          /\ free_pages' \in Int /\ FreeCountExact' /\ BitmapCovers'
      BY <2>1, <2>3, MarkFreeEffect
    <2>5. TypeOK'
      BY <2>3, <2>4 DEF TypeOK
    <2>6. Protected' = Protected /\ Usable' = Usable
      BY <2>3 DEF Protected, BitmapPages, Usable
    <2>7. OnlyUsablePagesHeld'
      BY <2>3, <2>6 DEF OnlyUsablePagesHeld, Usable
    <2>8. PagesConserved'
      <3> SUFFICES ASSUME bitmap_init PROVE PagesConserved'
        BY <2>3 DEF PagesConserved
      <3>1. p \in held /\ p \in Usable \ Protected
        BY <2>3 DEF OnlyUsablePagesHeld, Usable
      <3>2. ClearBits' = ClearBits \cup {p}
        BY <2>4, <3>1 DEF Usable
      <3> QED BY <2>3, <2>6, <3>1, <3>2 DEF PagesConserved, Usable
    <2> QED BY <2>3, <2>4, <2>5, <2>7, <2>8 DEF EmptyBeforeInit
  <1>4. ASSUME NEW p \in Pages, NEW length \in {0, 1, PAGE_SIZE + 1},
               ReserveRegion(p * PAGE_SIZE, length)
        PROVE  IInv'
    <2> DEFINE S == ReservePages(p * PAGE_SIZE, length)
    <2>1. /\ mark_used(S)
          /\ UNCHANGED <<sizeof_bitmap, max_pages, bitmap_addr, bitmap_init>>
          /\ reserved' = reserved \cup (S \ held)
          /\ UNCHANGED <<mem_map, panicked, held, ret>>
          /\ bitmap_init
      BY <1>4 DEF ReserveRegion, reserve_region
    <2>2. S \in SUBSET Nat
      <3>1. (p * PAGE_SIZE) \div PAGE_SIZE = p /\ p \in Nat
        BY MulDiv, PmmAssumption
      <3> QED BY <3>1 DEF ReservePages
    <2> HIDE DEF S
    <2>3. /\ bitmap' \in [Bits -> {0, 1}] /\ Bits' = Bits
          /\ ClearBits' = ClearBits \ S
          /\ free_pages' \in Int /\ FreeCountExact' /\ BitmapCovers'
      BY <2>1, <2>2, MarkUsedEffect
    <2>4. TypeOK'
      BY <2>1, <2>2, <2>3 DEF TypeOK
    <2>5. Protected' = Protected \cup (S \ held) /\ Usable' = Usable
      BY <2>1 DEF Protected, BitmapPages, Usable
    <2>6. OnlyUsablePagesHeld'
      BY <2>1, <2>5 DEF OnlyUsablePagesHeld, Usable
    <2>7. PagesConserved'
      BY <2>1, <2>3, <2>5 DEF PagesConserved, Usable
    <2> QED BY <2>1, <2>3, <2>4, <2>6, <2>7 DEF EmptyBeforeInit
  <1>5. CASE CallerPanics
    BY <1>5 DEF CallerPanics, pmmState, TypeOK, BitmapCovers, EmptyBeforeInit, FreeCountExact,
       OnlyUsablePagesHeld, PagesConserved, ClearBits, Bits, Protected, BitmapPages
  <1>6. CASE UNCHANGED pmmVars
    BY <1>6 DEF pmmVars, pmmState, TypeOK, BitmapCovers, EmptyBeforeInit, FreeCountExact,
       OnlyUsablePagesHeld, PagesConserved, ClearBits, Bits, Protected, BitmapPages
  <1> QED BY <1>1, <1>2, <1>3, <1>4, <1>5, <1>6 DEF Next, Halted

\* Every reachable state satisfies the inductive invariant.
THEOREM PmmInvariant == Spec => []IInv
  BY InitIInv, NextIInv, PTL DEF Spec

\* pmm.c's state keeps its type.
THEOREM PmmTypeOK == Spec => []TypeOK
  BY PmmInvariant, PTL DEF IInv

\* get_free_pages() always equals the number of clear bits.
THEOREM FreeCountIsExact == Spec => []FreeCountExact
  BY PmmInvariant, PTL DEF IInv

\* palloc never hands out page 0, a page of the bitmap, a reserved page or a
\* page outside conventional memory.
THEOREM HeldPagesAreUsable == Spec => []OnlyUsablePagesHeld
  BY PmmInvariant, PTL DEF IInv

\* No usable page is lost and none is both free and held.
THEOREM PagesAreConserved == Spec => []PagesConserved
  BY PmmInvariant, PTL DEF IInv

\* Each step of Pmm is a step of the abstract page allocator: palloc returns
\* a free page, fails only when there is none, and pfree returns what was held.
LEMMA StepImplementsAllocator ==
    ASSUME IInv, IInv', [Next]_pmmVars
    PROVE  [Allocator!Next]_<<ClearBits, held, ret>>
  <1> USE DEF IInv
  <1> SUFFICES ASSUME ~UNCHANGED <<ClearBits, held, ret>> PROVE Allocator!Next
    OBVIOUS
  <1>1. CASE InitPmm
    <2>1. held = {} /\ UNCHANGED <<held, ret>>
      BY <1>1 DEF InitPmm, EmptyBeforeInit
    <2>2. ClearBits' \in SUBSET Nat
      <3>1. (Bits \subseteq Nat)' /\ (ClearBits \subseteq Bits)'
        BY BitsFacts, PTL
      <3> QED BY <3>1
    <2> QED BY <2>1, <2>2 DEF Allocator!Next, Allocator!Open
  <1>2. CASE Palloc
    <2>1. PICK address \in {0} \cup {b * PAGE_SIZE : b \in ClearBits} :
             /\ palloc(address)
             /\ ret' = address \div PAGE_SIZE
             /\ held' = IF address = 0 THEN held ELSE held \cup {address \div PAGE_SIZE}
      BY <1>2 DEF Palloc
    <2>2. CASE address = 0 /\ UNCHANGED pmmState /\ ClearBits = {}
      <3>1. UNCHANGED <<ClearBits, held>>
        BY <2>1, <2>2 DEF ClearBits, Bits, pmmState
      <3>2. (0 * PAGE_SIZE) \div PAGE_SIZE = 0 /\ 0 * PAGE_SIZE = 0
        BY MulDiv, PmmAssumption
      <3>3. ret' = 0
        BY <2>1, <2>2, <3>2
      <3> QED BY <2>2, <3>1, <3>3 DEF Allocator!Next, Allocator!Refuse
    <2>3. CASE \E b \in ClearBits :
                 /\ address = b * PAGE_SIZE /\ address # 0 /\ address \div PAGE_SIZE = b
                 /\ mark_used({b})
                 /\ UNCHANGED <<sizeof_bitmap, max_pages, bitmap_addr, bitmap_init>>
      <3>1. PICK b \in ClearBits :
                 /\ address # 0 /\ address \div PAGE_SIZE = b
                 /\ mark_used({b})
                 /\ UNCHANGED <<sizeof_bitmap, max_pages, bitmap_addr, bitmap_init>>
        BY <2>3
      <3>2. b \in Nat
        BY BitsFacts
      <3>3. ClearBits' = ClearBits \ {b}
        BY <3>1, <3>2, MarkUsedEffect
      <3>4. held' = held \cup {b} /\ ret' = b
        BY <2>1, <3>1
      <3> QED BY <3>3, <3>4 DEF Allocator!Next, Allocator!Allocate
    <2> QED BY <2>1, <2>2, <2>3, PallocEffect
  <1>3. ASSUME NEW p \in Pages, Pfree(p) PROVE Allocator!Next
    <2>1. p \in Nat /\ (p * PAGE_SIZE) \div PAGE_SIZE = p
      BY MulDiv, PmmAssumption
    <2>2. /\ mark_free({p})
          /\ UNCHANGED <<sizeof_bitmap, max_pages, bitmap_addr, bitmap_init>>
          /\ held' = held \ {p} /\ ret' = ret
          /\ p \in held \/ ~bitmap_init
      BY <1>3, <2>1 DEF Pfree, pfree
    <2>3. ClearBits' = IF p < max_pages THEN ClearBits \cup {p} ELSE ClearBits
      BY <2>1, <2>2, MarkFreeEffect
    <2>4. p \in held
      <3> SUFFICES ASSUME ~bitmap_init PROVE FALSE
        BY <2>2
      <3>1. max_pages = 0 /\ held = {}
        BY DEF EmptyBeforeInit
      <3>2. UNCHANGED <<ClearBits, held, ret>>
        BY <2>1, <2>2, <2>3, <3>1
      <3> QED BY <3>2
    <2>5. p < max_pages
      BY <2>4 DEF OnlyUsablePagesHeld
    <2> QED BY <2>2, <2>3, <2>4, <2>5 DEF Allocator!Next, Allocator!Release
  <1>4. ASSUME NEW p \in Pages, NEW length \in {0, 1, PAGE_SIZE + 1},
               ReserveRegion(p * PAGE_SIZE, length)
        PROVE  Allocator!Next
    <2> DEFINE S == ReservePages(p * PAGE_SIZE, length)
    <2>1. /\ mark_used(S) /\ UNCHANGED <<sizeof_bitmap, max_pages>>
          /\ UNCHANGED <<held, ret>>
      BY <1>4 DEF ReserveRegion, reserve_region
    <2>2. S \in SUBSET Nat
      <3>1. (p * PAGE_SIZE) \div PAGE_SIZE = p /\ p \in Nat
        BY MulDiv, PmmAssumption
      <3> QED BY <3>1 DEF ReservePages
    <2> HIDE DEF S
    <2>3. ClearBits' = ClearBits \ S
      BY <2>1, <2>2, MarkUsedEffect
    <2> QED BY <2>1, <2>3 DEF Allocator!Next, Allocator!Withdraw
  <1>5. CASE CallerPanics
    BY <1>5 DEF CallerPanics, pmmState, ClearBits, Bits
  <1>6. CASE UNCHANGED pmmVars
    BY <1>6 DEF pmmVars, pmmState, ClearBits, Bits
  <1> QED BY <1>1, <1>2, <1>3, <1>4, <1>5, <1>6 DEF Next, Halted

\* The page allocator implements its abstract specification.
THEOREM PmmImplementsPageAllocator == Spec => ImplementsPageAllocator
  <1>1. Init => Allocator!Init
    <2> SUFFICES ASSUME Init PROVE Allocator!Init
      OBVIOUS
    <2>1. Bits = {}
      BY PmmAssumption DEF Init, Bits
    <2>2. ClearBits = {}
      BY <2>1 DEF ClearBits
    <2> QED BY <2>2 DEF Init, Allocator!Init
  <1>2. IInv /\ IInv' /\ [Next]_pmmVars => [Allocator!Next]_<<ClearBits, held, ret>>
    BY StepImplementsAllocator
  <1> QED BY <1>1, <1>2, PmmInvariant, PTL DEF Spec, ImplementsPageAllocator, Allocator!Spec

=============================================================================

-------------------------------- MODULE Pmm --------------------------------
(***************************************************************************)
(* The physical page allocator: kernel/arch/x86_64/mm/pmm.c.               *)
(*                                                                         *)
(* A bitmap with one bit per page frame, kept in the memory it manages; a  *)
(* set bit is a page in use.  init_pmm builds it from the UEFI memory map, *)
(* palloc hands out the lowest clear bit and returns 0 when there is none, *)
(* pfree clears a bit whoever asks.  Page frames are numbers; an address   *)
(* is a page number times PAGE_SIZE.  The operators mark_used .. init_pmm  *)
(* are the C functions; the actions below them are the calls a client      *)
(* makes, and record in the ghost variables what the client holds.         *)
(***************************************************************************)
EXTENDS Integers, Sequences, FiniteSets

CONSTANTS
    PAGE_SIZE,   \* bytes in a page frame
    BYTE,        \* bits in a byte of the bitmap (8)
    MemMaps,     \* the UEFI memory maps the bootloader may hand over
    Pages        \* page numbers an argument may name, past max_pages too

Descriptor == [conventional : BOOLEAN, PhysicalStart : Nat, NumberOfPages : Nat]

ASSUME PmmAssumption ==
    /\ PAGE_SIZE \in Nat \ {0}
    /\ BYTE \in Nat \ {0}
    /\ MemMaps \subseteq Seq(Descriptor)
    /\ Pages \subseteq Nat

VARIABLES
    mem_map,      \* the memory map of this machine
    bitmap,       \* the bits: [0 .. BYTE * sizeof_bitmap - 1 -> {0, 1}]
    sizeof_bitmap,
    max_pages,
    free_pages,
    bitmap_addr,  \* page frame the bitmap starts in, 0 when none is chosen
    bitmap_init,
    panicked,     \* kernel_panic was called: the machine is halted
    held,         \* ghost: pages palloc returned and nobody freed since
    reserved,     \* ghost: pages reserve_region took while nobody held them
    ret           \* ghost: the page the last palloc returned, 0 for a failure

pmmState == <<bitmap, sizeof_bitmap, max_pages, free_pages, bitmap_addr, bitmap_init>>
pmmVars == <<mem_map, pmmState, panicked, held, reserved, ret>>

-----------------------------------------------------------------------------
(* The memory map.                                                         *)

Conventional(m) == {i \in 1 .. Len(m) : m[i].conventional}

RegionPages(d) == d.PhysicalStart .. (d.PhysicalStart + d.NumberOfPages - 1)

\* the page frames of all conventional regions
ConventionalPages(m) == UNION {RegionPages(m[i]) : i \in Conventional(m)}

\* one past the last page frame of each conventional region
RegionEnds(m) == {m[i].PhysicalStart + m[i].NumberOfPages : i \in Conventional(m)}

CeilDiv(n, d) == (n + d - 1) \div d

-----------------------------------------------------------------------------
(* The bitmap.                                                             *)

Bits == 0 .. (BYTE * sizeof_bitmap - 1)

ClearBits == {b \in Bits : bitmap[b] = 0}

page_used(page) == IF page >= max_pages THEN TRUE ELSE bitmap[page] = 1

\* mutants of mark_used and mark_free: the range check is gone, the bit is
\* not written, the counter moves whatever the bit was
mark_used_unchecked(S) ==
    /\ bitmap' = [b \in Bits \cup S |-> IF b \in S THEN 1 ELSE bitmap[b]]
    /\ free_pages' = free_pages - Cardinality(S)
mark_used_count_only(S) ==
    /\ free_pages' = free_pages - Cardinality({p \in S : ~page_used(p)})
    /\ UNCHANGED bitmap
mark_free_unchecked(S) ==
    /\ bitmap' = [b \in Bits |-> IF b \in S THEN 0 ELSE bitmap[b]]
    /\ free_pages' = free_pages + Cardinality(S)

\* mark_used and mark_free on a set of pages, as the loops that call them do
mark_used(S) ==
    LET fresh == {p \in S : ~page_used(p)}
    IN  /\ bitmap' = [b \in Bits |-> IF b \in fresh THEN 1 ELSE bitmap[b]]
        /\ free_pages' = free_pages - Cardinality(fresh)

mark_free(S) ==
    LET taken == {p \in S : p < max_pages /\ page_used(p)}
    IN  /\ bitmap' = [b \in Bits |-> IF b \in taken THEN 0 ELSE bitmap[b]]
        /\ free_pages' = free_pages + Cardinality(taken)

\* reserve_region(base, length): byte address and byte length
ReservePages(base, length) ==
    (base \div PAGE_SIZE) .. ((base \div PAGE_SIZE) + CeilDiv(length, PAGE_SIZE) - 1)

reserve_region(base, length) ==
    /\ mark_used(ReservePages(base, length))
    /\ UNCHANGED <<sizeof_bitmap, max_pages, bitmap_addr, bitmap_init>>

\* the clear bits of one byte of the bitmap; none in a byte of 0xFF
ClearInByte(byte) == {c \in ClearBits : c \div BYTE = byte}

\* b is the first clear bit of the first byte in 0 .. last that has one
FirstClearUpTo(b, last) ==
    \E byte \in 0 .. last :
        /\ \A earlier \in 0 .. (byte - 1) : ClearInByte(earlier) = {}
        /\ b \in ClearInByte(byte)
        /\ \A c \in ClearInByte(byte) : b <= c

\* mutant: the scan stops one byte short
FirstClear_short(b) == FirstClearUpTo(b, sizeof_bitmap - 2)

\* the bit palloc's scan over the whole bitmap stops at
FirstClear(b) == FirstClearUpTo(b, sizeof_bitmap - 1)

\* palloc() returns this address; 0 is failure
palloc(address) ==
    \/ /\ ~bitmap_init \/ (\A b \in ClearBits : ~FirstClear(b))
       /\ address = 0
       /\ UNCHANGED pmmState
    \/ /\ bitmap_init
       /\ \E b \in ClearBits :
            /\ FirstClear(b)
            /\ IF b >= max_pages
               THEN address = 0 /\ UNCHANGED pmmState
               ELSE /\ address = b * PAGE_SIZE
                    /\ mark_used({b})
                    /\ UNCHANGED <<sizeof_bitmap, max_pages, bitmap_addr, bitmap_init>>

pfree(address) ==
    /\ mark_free({address \div PAGE_SIZE})
    /\ UNCHANGED <<sizeof_bitmap, max_pages, bitmap_addr, bitmap_init>>

\* a region large enough for a bitmap of size bytes; one that starts at
\* address 0 leaves bitmap_addr at 0, so the search goes on past it
HoldsBitmap(d, size) ==
    d.conventional /\ d.NumberOfPages * PAGE_SIZE >= size /\ d.PhysicalStart # 0

\* the page frames the bitmap itself occupies
BitmapPages(addr, size) == addr .. (addr + CeilDiv(size, PAGE_SIZE) - 1)

\* mutant: the bitmap's own pages stay free
KeptPages_zero_only(addr, size) == {0}

\* the pages init_pmm takes back after it freed the conventional memory
KeptPages(addr, size) == {0} \cup BitmapPages(addr, size)

\* init_pmm succeeds with n = max_pages and the bitmap in region i
init_pmm(n, i) ==
    LET size == CeilDiv(n, BYTE)
        addr == mem_map[i].PhysicalStart
        usable == {p \in ConventionalPages(mem_map) : p < n}
        kept == usable \cap KeptPages(addr, size)
    IN  /\ HoldsBitmap(mem_map[i], size)
        /\ \A j \in 1 .. (i - 1) : ~HoldsBitmap(mem_map[j], size)
        /\ max_pages' = n
        /\ sizeof_bitmap' = size
        /\ bitmap_addr' = addr
        /\ bitmap' = [b \in 0 .. (BYTE * size - 1) |-> IF b \in usable \ kept THEN 0 ELSE 1]
        /\ free_pages' = Cardinality(usable) - Cardinality(kept)
        /\ bitmap_init' = TRUE

\* max_pages is the largest end of a conventional region, 0 without one
IsMaxPages(n) == /\ n \in {0} \cup RegionEnds(mem_map)
                 /\ \A e \in RegionEnds(mem_map) : e <= n

-----------------------------------------------------------------------------
(* The calls.  A client frees what palloc gave it; before init_pmm the     *)
(* self test of init.c also calls palloc and frees pages it never had.     *)

Init ==
    /\ mem_map \in MemMaps
    /\ sizeof_bitmap = 0
    /\ bitmap = [b \in Bits |-> 1]
    /\ max_pages = 0
    /\ free_pages = 0
    /\ bitmap_addr = 0
    /\ bitmap_init = FALSE
    /\ panicked = FALSE
    /\ held = {}
    /\ reserved = {}
    /\ ret = 0

InitPmm ==
    /\ ~panicked /\ ~bitmap_init
    /\ \E n \in {0} \cup RegionEnds(mem_map) :
         /\ IsMaxPages(n)
         /\ \/ /\ \E i \in DOMAIN mem_map : init_pmm(n, i)
               /\ UNCHANGED panicked
            \/ /\ \A i \in DOMAIN mem_map : ~HoldsBitmap(mem_map[i], CeilDiv(n, BYTE))
               /\ panicked' = TRUE   \* "No room for PMM bitmap"
               /\ UNCHANGED pmmState
    /\ UNCHANGED <<mem_map, held, reserved, ret>>

Palloc ==
    /\ ~panicked
    /\ \E address \in {0} \cup {b * PAGE_SIZE : b \in ClearBits} :
         /\ palloc(address)
         /\ ret' = address \div PAGE_SIZE
         /\ held' = IF address = 0 THEN held ELSE held \cup {address \div PAGE_SIZE}
    /\ UNCHANGED <<mem_map, panicked, reserved>>

Pfree(p) ==
    /\ ~panicked
    /\ p \in held \/ ~bitmap_init
    /\ pfree(p * PAGE_SIZE)
    /\ held' = held \ {p}
    /\ UNCHANGED <<mem_map, panicked, reserved, ret>>

ReserveRegion(base, length) ==
    /\ ~panicked /\ bitmap_init
    /\ reserve_region(base, length)
    /\ reserved' = reserved \cup (ReservePages(base, length) \ held)
    /\ UNCHANGED <<mem_map, panicked, held, ret>>

\* a caller gives up: the self test of init.c, map_page or init_vmm
CallerPanics ==
    /\ ~panicked
    /\ panicked' = TRUE
    /\ UNCHANGED <<mem_map, pmmState, held, reserved, ret>>

\* kernel_panic never returns
Halted == panicked /\ UNCHANGED pmmVars

Next ==
    \/ InitPmm
    \/ Palloc
    \/ \E p \in Pages : Pfree(p)
    \/ \E p \in Pages, length \in {0, 1, PAGE_SIZE + 1} : ReserveRegion(p * PAGE_SIZE, length)
    \/ CallerPanics
    \/ Halted

Spec == Init /\ [][Next]_pmmVars

-----------------------------------------------------------------------------
(* Properties.                                                             *)

\* Every variable of pmm.c has its type; the bitmap has a bit for each page.
TypeOK ==
    /\ mem_map \in MemMaps
    /\ sizeof_bitmap \in Nat /\ max_pages \in Nat /\ bitmap_addr \in Nat
    /\ bitmap \in [Bits -> {0, 1}]
    /\ free_pages \in Int
    /\ bitmap_init \in BOOLEAN /\ panicked \in BOOLEAN
    /\ held \in SUBSET Nat /\ reserved \in SUBSET Nat /\ ret \in Nat

\* The pages init_pmm and reserve_region must keep away from every client:
\* page 0 (its address is palloc's failure value), the bitmap's own pages,
\* and what reserve_region took.
Protected == {0} \cup BitmapPages(bitmap_addr, sizeof_bitmap) \cup reserved

\* get_free_pages() is the number of clear bits after any sequence of calls:
\* the counter mark_used and mark_free maintain never drifts from the bitmap.
FreeCountExact == free_pages = Cardinality(ClearBits)

\* No client holds a page the firmware did not report as conventional memory,
\* page 0, a page of the bitmap or a reserved page.
OnlyUsablePagesHeld ==
    held \subseteq {p \in ConventionalPages(mem_map) : p < max_pages} \ Protected

\* Once init_pmm has run, the conventional pages below max_pages are exactly
\* the clear bits, the held pages and the protected ones, and no page is in
\* two of these: palloc and pfree lose no page and share none.
PagesConserved ==
    bitmap_init =>
        /\ {p \in ConventionalPages(mem_map) : p < max_pages} \ Protected = ClearBits \cup held
        /\ ClearBits \cap held = {}

Allocator == INSTANCE PageAllocator WITH Managed <- Nat, free <- ClearBits

\* palloc and pfree behave as an allocator that knows only the set of free
\* pages: palloc never returns a page in use and returns 0 only when no page
\* is free.
ImplementsPageAllocator == Allocator!Spec

=============================================================================

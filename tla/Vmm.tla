-------------------------------- MODULE Vmm --------------------------------
(***************************************************************************)
(* The virtual memory manager, kernel/arch/x86_64/mm/vmm.c, on top of the  *)
(* page allocator.                                                         *)
(*                                                                         *)
(* Page tables live in frames palloc hands out.  Virtual addresses are     *)
(* virtual page numbers 0 .. VSPACE - 1, addresses are frame numbers, and  *)
(* a table has FANOUT entries (512 in the code).  init_vmm builds the      *)
(* address space, map_range by map_range, and loads CR3; then vallocs and  *)
(* vfrees serve the kernel heap.  A loop of the C code is one step per     *)
(* iteration (map_page: one step per missing table and one for the PTE),   *)
(* so running out of frames can strike at every palloc; pc and call are    *)
(* the kernel's position and the locals of vallocs and vfrees.             *)
(***************************************************************************)
EXTENDS Pmm

CONSTANTS
    FANOUT,         \* entries in a page table
    KHEAP_BASE,     \* first virtual page of the heap
    PASSTHRU_BASE,  \* first virtual page of the window onto physical memory
    EarlyRanges,    \* kernel image, stack, RIP and framebuffer
    ApicRange,      \* local APIC registers, mapped when there is one
    LateRanges,     \* BootInfo, memory map
    Initramfs,      \* the ramdisk
    SupportApic,    \* cpuid reports a local APIC
    MaxCount,       \* bound: pages one vallocs call asks for
    MaxHeap         \* bound: virtual pages all vallocs calls may consume

VSPACE == FANOUT * FANOUT * FANOUT * FANOUT

MapRange == [phys : Nat, virt : Nat, pages : Nat]

\* what is mapped at boot, and all memory, lies below the heap, and the heap
\* below the window; a table of four levels maps FANOUT pages from 0 on
ASSUME VmmAssumption ==
    /\ FANOUT \in Nat \ {0, 1}
    /\ KHEAP_BASE \in Nat /\ PASSTHRU_BASE \in Nat /\ FANOUT <= KHEAP_BASE
    /\ KHEAP_BASE + MaxHeap <= PASSTHRU_BASE /\ PASSTHRU_BASE < VSPACE
    /\ EarlyRanges \in Seq(MapRange) /\ LateRanges \in Seq(MapRange) /\ Initramfs \in MapRange
    /\ ApicRange \in MapRange /\ ApicRange.virt + ApicRange.pages <= KHEAP_BASE
    /\ Initramfs.virt + Initramfs.pages <= KHEAP_BASE
    /\ \A k \in DOMAIN EarlyRanges : EarlyRanges[k].virt + EarlyRanges[k].pages <= KHEAP_BASE
    /\ \A k \in DOMAIN LateRanges : LateRanges[k].virt + LateRanges[k].pages <= KHEAP_BASE
    /\ \A m \in MemMaps : /\ ConventionalPages(m) \subseteq Pages
                          /\ \A end \in RegionEnds(m) : end <= KHEAP_BASE
    /\ SupportApic \in BOOLEAN
    /\ MaxCount \in Nat /\ MaxHeap \in Nat

VARIABLES
    pc,         \* where the kernel is in init_vmm, vallocs or vfrees
    roots,      \* the frames init_vmm has asked for: PML4, PDPT, PD, PT
    table,      \* what each page-table frame holds
    todo,       \* the ranges the current map_range or map_page call still maps
    next_virt,
    call,       \* start, count and i of the current vallocs or vfrees
    live,       \* ghost: heap pages vallocs returned and nobody freed
    granted     \* ghost: the ranges vallocs ever returned

vmmVars == <<pc, roots, table, todo, next_virt, call, live, granted>>
vars == <<pmmVars, vmmVars>>

-----------------------------------------------------------------------------
(* The four-level walk.  NONE is an entry without PTE_PRESENT.             *)

NONE == -1
Entries == 0 .. (FANOUT - 1)
ZeroTable == [e \in Entries |-> NONE]

\* pml4_index, pdpt_index, pd_index, pt_index for level 3, 2, 1, 0
Index(v, level) ==
    LET shift == CASE level = 0 -> 1
                   [] level = 1 -> FANOUT
                   [] level = 2 -> FANOUT * FANOUT
                   [] level = 3 -> FANOUT * FANOUT * FANOUT
    IN  (v \div shift) % FANOUT

Entry(t, v, level) == IF t \in DOMAIN table THEN table[t][Index(v, level)] ELSE NONE

pml4 == IF roots = <<>> THEN NONE ELSE roots[1]
Pdpt(v) == Entry(pml4, v, 3)
Pd(v) == Entry(Pdpt(v), v, 2)
Pt(v) == Entry(Pd(v), v, 1)

\* the frame the MMU finds for virtual page v
Translate(v) == Entry(Pt(v), v, 0)

\* the table map_page(v) must extend next, and at which level
MissingLevel(v) ==
    CASE Pdpt(v) = NONE -> [in |-> pml4, level |-> 3]
      [] Pdpt(v) # NONE /\ Pd(v) = NONE -> [in |-> Pdpt(v), level |-> 2]
      [] OTHER -> [in |-> Pd(v), level |-> 1]

\* the window onto physical memory, mod 2^64 as in map_range's virt_page + off
get_virt_addr(frame) == (PASSTHRU_BASE + frame) % VSPACE

TableFrames == DOMAIN table

-----------------------------------------------------------------------------
(* init_vmm.                                                               *)

VmmInit ==
    /\ Init
    /\ pc = "boot"
    /\ roots = <<>>
    /\ table = <<>>
    /\ todo = <<>>
    /\ next_virt = KHEAP_BASE
    /\ call = [start |-> 0, count |-> 0, i |-> 0]
    /\ live = {}
    /\ granted = {}

\* init_memory: the page allocator first
BootPmm ==
    /\ pc = "boot"
    /\ InitPmm
    /\ pc' = "roots"
    /\ UNCHANGED <<roots, table, todo, next_virt, call, live, granted>>

\* the four pallocs at the top of init_vmm; the results are tested afterwards
AllocRoot ==
    /\ pc = "roots" /\ Len(roots) < 4
    /\ Palloc
    /\ roots' = Append(roots, ret')
    /\ UNCHANGED <<pc, table, todo, next_virt, call, live, granted>>

\* identity-map every conventional region, in memory map order; nothing is
\* mapped for the others
ConventionalRanges ==
    [i \in DOMAIN mem_map |->
        [phys |-> mem_map[i].PhysicalStart, virt |-> mem_map[i].PhysicalStart,
         pages |-> IF mem_map[i].conventional THEN mem_map[i].NumberOfPages ELSE 0]]

\* mutant: conventional memory is not identity-mapped
BootRanges_window_only ==
    EarlyRanges
      \o <<[phys |-> 0, virt |-> PASSTHRU_BASE, pages |-> max_pages], Initramfs>>
      \o (IF SupportApic THEN <<ApicRange>> ELSE <<>>)
      \o LateRanges

\* the map_range calls of init_vmm, in order, in whole pages: what a range's
\* offset into its first page adds is in its number of pages
BootRanges ==
    EarlyRanges
      \o <<[phys |-> 0, virt |-> PASSTHRU_BASE, pages |-> max_pages], Initramfs>>
      \o (IF SupportApic THEN ConventionalRanges \o <<ApicRange>> ELSE <<>>)
      \o LateRanges

\* the four tables, the first one of each level linked to the next, and the
\* first FANOUT pages mapped to themselves
RootTables ==
    [f \in {roots[k] : k \in 1 .. 4} |->
        CASE f = roots[4] -> [e \in Entries |-> e]
          [] f = roots[3] -> [ZeroTable EXCEPT ![0] = roots[4]]
          [] f = roots[2] -> [ZeroTable EXCEPT ![0] = roots[3]]
          [] OTHER -> [ZeroTable EXCEPT ![0] = roots[2]]]

BuildRoot ==
    /\ pc = "roots" /\ Len(roots) = 4
    /\ IF \E k \in 1 .. 4 : roots[k] = 0
       THEN pc' = "panic" /\ UNCHANGED <<table, todo>>
       ELSE /\ pc' = "map_boot"
            /\ table' = RootTables
            /\ todo' = BootRanges
    /\ UNCHANGED <<pmmVars, roots, next_virt, call, live, granted>>

-----------------------------------------------------------------------------
(* map_page and map_range.                                                 *)

Mapping == pc \in {"map_boot", "map_heap"} /\ todo # <<>> /\ Head(todo).pages > 0

\* virt wraps around at the top of the address space
TargetPage == Head(todo).virt % VSPACE

\* a table on the way to the PTE is missing: palloc, memset, link
AllocTable ==
    /\ Mapping
    /\ Pt(TargetPage) = NONE
    /\ Palloc
    /\ LET m == MissingLevel(TargetPage)
       IN  IF ret' = 0
           THEN pc' = "panic" /\ UNCHANGED table
           ELSE /\ pc' = pc
                /\ table' = [f \in TableFrames \cup {ret'} |->
                               CASE f = ret' -> ZeroTable
                                 [] f = m.in -> [table[f] EXCEPT ![Index(TargetPage, m.level)] = ret']
                                 [] OTHER -> table[f]]
    /\ UNCHANGED <<roots, todo, next_virt, call, live, granted>>

\* mutant: the virtual address stays behind
NextPage_same_virt(r) == [phys |-> r.phys + 1, virt |-> r.virt, pages |-> r.pages - 1]

\* the rest of a range after its first page
NextPage(r) == [phys |-> r.phys + 1, virt |-> r.virt + 1, pages |-> r.pages - 1]

\* every table is there: write the PTE; an older entry is overwritten
WritePte ==
    /\ Mapping
    /\ Pt(TargetPage) # NONE
    /\ table' = [table EXCEPT ![Pt(TargetPage)][Index(TargetPage, 0)] = Head(todo).phys]
    /\ todo' = [todo EXCEPT ![1] = NextPage(@)]
    /\ IF pc = "map_heap"
       THEN pc' = "vallocs" /\ call' = [call EXCEPT !.i = @ + 1]
       ELSE UNCHANGED <<pc, call>>
    /\ UNCHANGED <<pmmVars, roots, next_virt, live, granted>>

\* map_range has mapped its last page: on to the next call
RangeDone ==
    /\ pc = "map_boot" /\ todo # <<>> /\ Head(todo).pages = 0
    /\ todo' = Tail(todo)
    /\ UNCHANGED <<pmmVars, pc, roots, table, next_virt, call, live, granted>>

\* virtual_mem_initialized and write_cr3
LoadCr3 ==
    /\ pc = "map_boot" /\ todo = <<>>
    /\ pc' = "ready"
    /\ UNCHANGED <<pmmVars, roots, table, todo, next_virt, call, live, granted>>

-----------------------------------------------------------------------------
(* vallocs and vfrees.                                                     *)

\* the entry of vallocs; count = 0 returns 0 at once
CallVallocs(count) ==
    /\ pc = "ready"
    /\ count # 0
    /\ next_virt + count <= KHEAP_BASE + MaxHeap
    /\ pc' = "vallocs"
    /\ call' = [start |-> next_virt, count |-> count, i |-> 0]
    /\ UNCHANGED <<pmmVars, roots, table, todo, next_virt, live, granted>>

\* one iteration up to map_page; without a frame the pages so far are freed
VallocsPage ==
    /\ pc = "vallocs" /\ call.i < call.count
    /\ Palloc
    /\ IF ret' = 0
       THEN /\ pc' = "vfrees"
            /\ call' = [start |-> call.start, count |-> call.i, i |-> 0]
            /\ UNCHANGED todo
       ELSE /\ pc' = "map_heap"
            /\ todo' = <<[phys |-> ret', virt |-> call.start + call.i, pages |-> 1]>>
            /\ UNCHANGED call
    /\ UNCHANGED <<roots, table, next_virt, live, granted>>

CallPages == call.start .. (call.start + call.count - 1)

\* mutant: the next call starts at the same virtual page
VallocsReturn_same_virt ==
    /\ pc = "vallocs" /\ call.i = call.count
    /\ live' = live \cup CallPages
    /\ granted' = granted \cup {[start |-> call.start, count |-> call.count]}
    /\ pc' = "ready"
    /\ UNCHANGED <<pmmVars, roots, table, todo, call, next_virt>>

VallocsReturn ==
    /\ pc = "vallocs" /\ call.i = call.count
    /\ next_virt' = next_virt + call.count
    /\ live' = live \cup CallPages
    /\ granted' = granted \cup {[start |-> call.start, count |-> call.count]}
    /\ pc' = "ready"
    /\ UNCHANGED <<pmmVars, roots, table, todo, call>>

\* the heap's owner gives back a range it was given, perhaps a second time
CallVfrees(r) ==
    /\ pc = "ready"
    /\ pc' = "vfrees"
    /\ call' = [start |-> r.start, count |-> r.count, i |-> 0]
    /\ UNCHANGED <<pmmVars, roots, table, todo, next_virt, live, granted>>

\* mutants: the frame is not returned, the PTE survives, its whole table goes
UnmapResult_lost(v) == 0
unmap_page_keeps_pte(v) == table' = table
unmap_page_drops_table(v) ==
    table' = IF Pt(v) = NONE THEN table ELSE [table EXCEPT ![Pt(v)] = ZeroTable]

\* unmap_page: the frame of the PTE, 0 without a table or for an empty PTE
UnmapResult(v) == IF Translate(v) = NONE THEN 0 ELSE Translate(v)

unmap_page(v) ==
    table' = IF Pt(v) = NONE THEN table
             ELSE [table EXCEPT ![Pt(v)][Index(v, 0)] = NONE]

\* mutant: page 0 is freed for every page that was not mapped
GivesBack_always(frame) == TRUE

\* vfrees: 0 means there was nothing to free
GivesBack(frame) == frame # 0

VfreesPage ==
    /\ pc = "vfrees" /\ call.i < call.count
    /\ LET v == call.start + call.i
           frame == UnmapResult(v)
       IN  /\ unmap_page(v)
           /\ IF GivesBack(frame)
              THEN pfree(frame * PAGE_SIZE) /\ held' = held \ {frame}
              ELSE UNCHANGED <<pmmState, held>>
           /\ live' = live \ {v}
    /\ call' = [call EXCEPT !.i = @ + 1]
    /\ UNCHANGED <<mem_map, panicked, reserved, ret, pc, roots, todo, next_virt, granted>>

VfreesReturn ==
    /\ pc = "vfrees" /\ call.i = call.count
    /\ pc' = "ready"
    /\ UNCHANGED <<pmmVars, roots, table, todo, next_virt, call, live, granted>>

\* kernel_panic("Out of memory creating ...")
Panic ==
    /\ pc = "panic"
    /\ CallerPanics
    /\ UNCHANGED vmmVars

VmmHalted == panicked /\ UNCHANGED vars

VmmNext ==
    \/ BootPmm \/ AllocRoot \/ BuildRoot
    \/ AllocTable \/ WritePte \/ RangeDone \/ LoadCr3
    \/ \E count \in 1 .. MaxCount : CallVallocs(count)
    \/ VallocsPage \/ VallocsReturn
    \/ \E r \in granted : CallVfrees(r)
    \/ VfreesPage \/ VfreesReturn
    \/ Panic \/ VmmHalted

VmmSpec == VmmInit /\ [][VmmNext]_vars

-----------------------------------------------------------------------------
(* Properties.                                                             *)

VirtualMemory == pc \in {"ready", "vallocs", "map_heap", "vfrees"}
HeapPages == KHEAP_BASE .. (PASSTHRU_BASE - 1)
HeapFrames == {Translate(v) : v \in HeapPages} \ {NONE}

\* A page-table entry is empty or names a frame; the heap pointer stays in
\* the heap; the pages of live allocations lie below it.
VmmTypeOK ==
    /\ pc \in {"boot", "roots", "map_boot", "ready", "vallocs", "map_heap", "vfrees", "panic"}
    /\ roots \in Seq(Nat)
    /\ DOMAIN table \subseteq Nat
    /\ \A f \in DOMAIN table : table[f] \in [Entries -> Nat \cup {NONE}]
    /\ todo \in Seq(MapRange)
    /\ next_virt \in KHEAP_BASE .. PASSTHRU_BASE
    /\ call \in [start : Nat, count : Nat, i : Nat] /\ call.i <= call.count
    /\ live \subseteq KHEAP_BASE .. (next_virt - 1)

\* Frames palloc returned that no table or PTE refers to yet.
InFlight ==
    CASE pc = "roots" -> {roots[k] : k \in DOMAIN roots} \ {0}
      [] pc = "map_heap" -> {Head(todo).phys}
      [] OTHER -> {}

\* Every frame the kernel has taken from palloc is a page table, is mapped
\* at a heap page, or is about to be: a vallocs that fails half way and a
\* vfrees that runs twice leak no frame and free none too many.
FramesAccounted ==
    pc # "panic" => held = TableFrames \cup HeapFrames \cup InFlight

\* A live heap page is mapped to a frame of its own, never a page table or a
\* frame another heap page is mapped to.
HeapNotShared ==
    \A v \in live :
        /\ Translate(v) # NONE
        /\ Translate(v) \notin TableFrames
        /\ \A w \in HeapPages \ {v} : Translate(w) # Translate(v)

\* Once CR3 is loaded, map_page and unmap_page reach every page table through
\* the window (page_table_ptr), and palloc reaches its bitmap at the bitmap's
\* physical address.
ManagersReachable ==
    VirtualMemory =>
        /\ \A f \in TableFrames : Translate(get_virt_addr(f)) = f
        /\ \A p \in BitmapPages(bitmap_addr, sizeof_bitmap) : Translate(p) = p

\* What the kernel runs on is mapped where it expects it when CR3 is loaded:
\* "so the CPU doesn't crash the moment CR3 changes" (vmm.c:413).
BootRangesMapped ==
    VirtualMemory =>
        \A k \in DOMAIN EarlyRanges :
            LET r == EarlyRanges[k]
            IN  \A n \in 0 .. (r.pages - 1) : Translate(r.virt + n) = r.phys + n

\* After init_vmm, vallocs and vfrees change no translation but those of the
\* pages they were called for, and never the mapping of a page that stays live.
OtherMappingsStable ==
    [][VirtualMemory =>
          \A v \in 0 .. (VSPACE - 1) :
              Translate(v)' # Translate(v) => v \in CallPages' /\ v \notin live \cap live']_vars

\* The kernel uses the page allocator as Pmm's clients must: it frees a frame
\* only while it holds it.
UsesPmmProperly == Spec

=============================================================================

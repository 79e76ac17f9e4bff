-------------------------------- MODULE Boot --------------------------------
(***************************************************************************)
(* The UEFI bootloader: bootloader/uefi.c, from efi_main to the jump into  *)
(* the kernel, and the checks kernel_main makes of what it is given.       *)
(*                                                                         *)
(* Memory is a set of pages with an owner each; the firmware hands pages   *)
(* out and may, from its own event handlers, take and release some of them *)
(* at any time until boot services end, which makes an earlier memory map  *)
(* key stale.  Every boot service may fail.  Console and serial output,    *)
(* and the logo, are left out.                                             *)
(***************************************************************************)
EXTENDS Integers, Sequences, FiniteSets

CONSTANTS
    Pages,        \* the physical pages, numbered from 0
    IDENTITY,     \* HANDOFF_IDENTITY_SIZE in pages: mapped 1:1 from the start
    FOUR_GIB,     \* the limit given with AllocateMaxAddress, in pages
    SPACE,        \* number of pages at which a 64-bit address wraps
    Machines,     \* the machines the loader may run on, as described below
    KERNEL_AT,    \* page of kernelAddr, where kernel.elf is read to
    RAMDISK_AT    \* page of ramdisk_addr

Area == [start : Nat, pages : Nat]

\* a machine: which pages are conventional memory, which of them the firmware
\* uses now and then; where the loader's image, the stack and the frame buffer
\* are; the files' sizes in pages (0 for an empty file), whether kernel.elf
\* starts with the ELF magic, and its PT_LOAD segments; the graphics modes, the
\* one the firmware runs in, and the EDID ("none", "no_clock" or a resolution)
Machine == [conventional : SUBSET Pages, volatile : SUBSET Pages,
            image : Area, stack : Area, framebuffer : Area,
            kernel : Nat, ramdisk : Nat, elf : BOOLEAN, segments : Seq(Area),
            modes : Seq([format : STRING, resolution : STRING]), active : Nat, edid : STRING]

ASSUME BootAssumption ==
    /\ Pages \subseteq Nat /\ IsFiniteSet(Pages) /\ KERNEL_AT \in Nat /\ RAMDISK_AT \in Nat
    /\ IDENTITY \in Nat /\ FOUR_GIB \in 0 .. IDENTITY /\ SPACE \in Nat \ {0}
    /\ Machines \subseteq Machine
    /\ \A m \in Machines :
          /\ m.volatile \subseteq m.conventional
          /\ m.active \in DOMAIN m.modes
          /\ \A i \in DOMAIN m.segments : m.segments[i].start + m.segments[i].pages <= FOUR_GIB
          /\ KERNEL_AT + m.kernel <= FOUR_GIB /\ RAMDISK_AT + m.ramdisk <= FOUR_GIB

VARIABLES
    pc,        \* where efi_main is
    machine,   \* the machine, fixed
    fw,        \* firmware: owner of each page, active graphics mode
    ld         \* the loader's variables

vars == <<pc, machine, fw, ld>>

Span(start, n) == start .. start + n - 1

\* PixelFormat: the two formats the loader and the kernel can draw in
Linear == {"RGB", "BGR"}

\* number of descriptors of a memory map: runs of pages of one owner
MapSize(owner) == Cardinality({p \in Pages : p = 0 \/ owner[p] # owner[p - 1]})

Init ==
    /\ pc = "identify"
    /\ machine \in Machines
    /\ fw = [owner |-> [p \in Pages |-> IF p \in machine.conventional THEN "conventional" ELSE "firmware"],
             mode |-> machine.active]
    /\ ld = [held |-> {},             \* pools and file handles not yet given back
             call |-> 0,              \* position in load_file
             file |-> "none",         \* the file being loaded
             size |-> [f \in {"kernel", "ramdisk"} |-> 0],
             tables |-> {},           \* pages of the new page tables
             mapped |-> {},           \* pages the new tables map 1:1
             segment |-> 1,
             phys_start |-> SPACE, phys_end |-> 0,
             i |-> 1, choosenMode |-> 0, foundMode |-> FALSE, skip_monitor |-> FALSE,
             bootInfo |-> {}, mapBuffer |-> {},   \* the pages of the two buffers
             map |-> <<>>,            \* contents of the memory map buffer
             keyValid |-> FALSE,      \* MapKey is that of the current map
             retried |-> FALSE,
             info |-> <<>>]           \* the BootInfo fields

-----------------------------------------------------------------------------
(* Boot services.                                                          *)

Free(p) == p \in Pages /\ fw.owner[p] = "conventional"

\* AllocatePages gives the pages S to the loader; the map changes
Allocate(S) == [fw EXCEPT !.owner = [p \in Pages |-> IF p \in S THEN "loader" ELSE @[p]]]

\* an event handler of the firmware takes or releases a page; an allocation
\* made between GetMemoryMap and ExitBootServices makes MapKey stale
FirmwareEvent ==
    /\ pc \notin {"identify", "enter", "kernel", "hang", "off", "returned"}
    /\ \E p \in machine.volatile :
          /\ fw.owner[p] \in {"conventional", "firmware"}
          /\ fw' = [fw EXCEPT !.owner[p] = IF @ = "conventional" THEN "firmware" ELSE "conventional"]
    /\ ld' = [ld EXCEPT !.keyValid = FALSE]
    /\ UNCHANGED <<pc, machine>>

\* leave efi_main's straight line: goto panic
Panics == pc' = "panic" /\ UNCHANGED <<machine, fw, ld>>

\* a step that only changes the loader's variables
Does(next, loader) == pc' = next /\ ld' = loader /\ UNCHANGED <<machine, fw>>

-----------------------------------------------------------------------------
(* Up to the page tables.                                                  *)

\* efi_main prints the CPU and, unless isCPUVM recognises a virtual one, goes
\* on to scan PCI; without CPUID vendor16 is uninitialised, so either happens
Identify == pc = "identify" /\ \E next \in {"pci", "gop_scan"} : Does(next, ld)

\* LocateHandleBuffer fails: efi_main returns EFI_SUCCESS to the firmware;
\* otherwise the devices are listed and the handles freed
PciScan ==
    /\ pc = "pci"
    /\ \/ Does("returned", ld)
       \/ Does("pci_list", [ld EXCEPT !.held = @ \cup {"Handles"}])

PciList == pc = "pci_list" /\ Does("gop_scan", [ld EXCEPT !.held = @ \ {"Handles"}])

\* the graphics devices are listed; GopHandles is never freed
GopScan ==
    /\ pc = "gop_scan"
    /\ \/ Does("tables", ld)
       \/ Does("tables", [ld EXCEPT !.held = @ \cup {"GopHandles"}])

\* pml4, pdpt and the page directories (here one page for all of them), then
\* the identity map of the first 512 GiB
AllocTables ==
    /\ pc = "tables"
    /\ \/ Panics
       \/ \E p \in Pages :
             /\ Free(p)
             /\ fw' = Allocate({p})
             /\ ld' = [ld EXCEPT !.tables = {p}, !.mapped = 0 .. IDENTITY - 1,
                                 !.file = "kernel", !.call = 1, !.keyValid = FALSE]
             /\ pc' = "load_file"
             /\ UNCHANGED machine

-----------------------------------------------------------------------------
(* load_file, called for kernel.elf and then for ramdiskfs.cpio.           *)

\* its service calls in order, each with what it acquires; GetInfo is called
\* for the size, then for the data, and an empty file is then refused
LoadCalls == <<[name |-> "HandleProtocol_image", gives |-> {}],
               [name |-> "HandleProtocol_fs", gives |-> {}],
               [name |-> "OpenVolume", gives |-> {"root"}],
               [name |-> "Open", gives |-> {"file"}],
               [name |-> "GetInfo_size", gives |-> {}],
               [name |-> "AllocatePool_fileInfo", gives |-> {"fileInfo"}],
               [name |-> "GetInfo", gives |-> {}],
               [name |-> "AllocatePool_fileBuffer", gives |-> {"fileBuffer"}],
               [name |-> "Read", gives |-> {}],
               [name |-> "AllocatePages", gives |-> {}]>>

FileAt == [kernel |-> KERNEL_AT, ramdisk |-> RAMDISK_AT]
FilePages(f) == IF f = "kernel" THEN machine.kernel ELSE machine.ramdisk
LoadedAt(f) == Span(FileAt[f], FilePages(f))

\* mutant: a file that cannot be opened leaves the volume open
Released_volume_kept(n) == IF n <= 4 THEN {} ELSE {"root", "file", "fileInfo", "fileBuffer"}

\* what load_file gives back when its n-th call fails, or at the end: nothing
\* to give back before OpenVolume; the root by hand when Open fails; then the
\* clean-up at load_file_cleanup, which frees the pools that are not NULL
Released(n) ==
    CASE n <= 3 -> {}
      [] n = 4 -> {"root"}
      [] OTHER -> {"root", "file", "fileInfo", "fileBuffer"}

\* a call of load_file fails: *fileSize is 0 and efi_main panics; firmware that
\* answers the call for the size with EFI_SUCCESS, which UEFI rules out and
\* load_file would return as its own, is left out
LoadFails ==
    /\ pc = "load_file"
    /\ pc' = "panic"
    /\ ld' = [ld EXCEPT !.held = @ \ Released(ld.call), !.size[ld.file] = 0]
    /\ UNCHANGED <<machine, fw>>

\* a call succeeds (GetInfo only for a file that is not empty) and acquires
LoadProceeds ==
    /\ pc = "load_file" /\ ld.call < Len(LoadCalls)
    /\ LoadCalls[ld.call].name = "GetInfo" => FilePages(ld.file) > 0
    /\ Does("load_file",
            [ld EXCEPT !.held = @ \cup LoadCalls[ld.call].gives, !.call = @ + 1,
                       !.size[ld.file] = IF LoadCalls[ld.call].name = "GetInfo"
                                         THEN FilePages(ld.file) ELSE @])

\* AllocatePages at the fixed address succeeds, the file is copied there
LoadDone ==
    /\ pc = "load_file" /\ ld.call = Len(LoadCalls)
    /\ \A p \in LoadedAt(ld.file) : Free(p)
    /\ fw' = Allocate(LoadedAt(ld.file))
    /\ LET back == [ld EXCEPT !.held = @ \ Released(ld.call), !.keyValid = FALSE]
       IN  \/ /\ ld.file = "kernel"
              /\ pc' = "load_file" /\ ld' = [back EXCEPT !.file = "ramdisk", !.call = 1]
           \/ /\ ld.file = "ramdisk"
              /\ pc' = "elf" /\ ld' = [back EXCEPT !.file = "none", !.call = 0]
    /\ UNCHANGED machine

-----------------------------------------------------------------------------
(* The kernel's segments.                                                  *)

CheckElf == pc = "elf" /\ IF machine.elf THEN Does("segments", ld) ELSE Panics

LoadSegment ==
    /\ pc = "segments" /\ ld.segment <= Len(machine.segments)
    /\ LET seg == machine.segments[ld.segment]
           where == Span(seg.start, seg.pages)
       IN  \/ Panics
           \/ /\ \A p \in where : Free(p)
              /\ fw' = Allocate(where)
              /\ ld' = [ld EXCEPT !.segment = @ + 1, !.keyValid = FALSE,
                                  !.phys_start = IF seg.start < @ THEN seg.start ELSE @,
                                  !.phys_end = IF seg.start + seg.pages > @ THEN seg.start + seg.pages ELSE @]
              /\ UNCHANGED <<pc, machine>>

SegmentsDone ==
    /\ pc = "segments" /\ ld.segment > Len(machine.segments)
    /\ Does("edid", ld)

-----------------------------------------------------------------------------
(* The graphics mode.                                                      *)

\* LocateProtocol for the GOP, then the monitor's EDID
ReadEdid ==
    /\ pc = "edid"
    /\ \/ Panics                                          \* no GOP, or no pixel clock
       \/ /\ machine.edid # "no_clock"
          /\ Does("gop_pick", [ld EXCEPT !.skip_monitor = (machine.edid = "none")])

\* mutant: the format of a mode is not looked at
Usable_any(mode) == TRUE

Usable(mode) == mode.format \in Linear

\* QueryMode for mode i, which may fail; it allocates Info
QueryMode ==
    /\ pc = "gop_pick" /\ ld.i <= Len(machine.modes)
    /\ \/ Does("gop_pick", [ld EXCEPT !.i = @ + 1])
       \/ Does("gop_info", [ld EXCEPT !.held = @ \cup {"Info"}])

\* the first usable mode is remembered, the monitor's resolution or 1920x1080
\* ends the search; Info is freed on each of these ways on
PickMode ==
    /\ pc = "gop_info"
    /\ LET mode == machine.modes[ld.i]
           exact == ~ld.skip_monitor /\ mode.resolution = machine.edid
           stops == Usable(mode) /\ (exact \/ mode.resolution = "1920x1080")
           takes == Usable(mode) /\ (stops \/ ~ld.foundMode)
       IN  Does("gop_pick", [ld EXCEPT !.i = IF stops THEN Len(machine.modes) + 1 ELSE @ + 1,
                                       !.foundMode = @ \/ Usable(mode),
                                       !.choosenMode = IF takes THEN ld.i ELSE @,
                                       !.held = @ \ {"Info"}])

\* no usable mode: panic; without EDID the active mode is kept
ModePicked ==
    /\ pc = "gop_pick" /\ ld.i > Len(machine.modes)
    /\ IF ~ld.foundMode THEN Panics
       ELSE Does("key", [ld EXCEPT !.choosenMode = IF ld.skip_monitor THEN fw.mode ELSE @])

\* "Press any key to enter kernel..."
KeyPressed == pc = "key" /\ Does("set_mode", ld)

\* SetMode unless the mode is active already; its result is ignored
SetMode ==
    /\ pc = "set_mode"
    /\ \E mode \in {fw.mode, ld.choosenMode} : fw' = [fw EXCEPT !.mode = mode]
    /\ pc' = "map_handoff"
    /\ UNCHANGED <<machine, ld>>

-----------------------------------------------------------------------------
(* The hand-over.                                                          *)

\* mutant: the last page of a range is left out
map_handoff_range_short(range) == {p \in Span(range.start, range.pages - 1) : p >= IDENTITY}

\* the pages map_handoff_range maps: those that are not mapped 1:1 already
map_handoff_range(range) == {p \in Span(range.start, range.pages) : p >= IDENTITY}

\* physical + size wraps
Wraps(range) == (range.start + range.pages) % SPACE < range.start

\* the loader's image, 0x10000 bytes on both sides of the stack pointer, the
\* frame buffer; new page tables (here one page) if any of them is far up,
\* which may fail to be allocated
MapHandoff ==
    /\ pc = "map_handoff"
    /\ LET ranges == {machine.image, machine.stack, machine.framebuffer}
           far == UNION {map_handoff_range(r) : r \in ranges}
           mapped == [ld EXCEPT !.mapped = @ \cup far]
       IN  \/ Panics
           \/ /\ \A r \in ranges : ~Wraps(r)
              /\ far = {} /\ Does("boot_info", mapped)
           \/ /\ \A r \in ranges : ~Wraps(r)
              /\ far # {}
              /\ \E p \in Pages :
                    /\ Free(p)
                    /\ fw' = Allocate({p})
                    /\ ld' = [mapped EXCEPT !.tables = @ \cup {p}, !.keyValid = FALSE]
              /\ pc' = "boot_info"
              /\ UNCHANGED machine

AllocBootInfo ==
    /\ pc = "boot_info"
    /\ \/ Panics
       \/ \E p \in Pages :
             /\ Free(p) /\ p < FOUR_GIB
             /\ fw' = Allocate({p})
             /\ ld' = [ld EXCEPT !.bootInfo = {p}, !.keyValid = FALSE]
             /\ pc' = "map_buffer"
             /\ UNCHANGED machine

\* GetMemoryMap for the size, then a buffer with room for eight more
\* descriptors
AllocMapBuffer ==
    /\ pc = "map_buffer"
    /\ \/ Panics
       \/ \E p \in Pages :
             /\ Free(p) /\ p < FOUR_GIB
             /\ fw' = Allocate({p})
             /\ ld' = [ld EXCEPT !.mapBuffer = {p}, !.keyValid = FALSE]
             /\ pc' = "get_map"
             /\ UNCHANGED machine

\* GetMemoryMap into the buffer, and BootInfo is filled in
GetMap ==
    /\ pc = "get_map"
    /\ \/ Panics
       \/ Does("exit", [ld EXCEPT
              !.map = fw.owner, !.keyValid = TRUE,
              !.info = [map_size |-> MapSize(fw.owner),
                        mode |-> fw.mode,
                        initramfs |-> Span(RAMDISK_AT, ld.size["ramdisk"]),
                        kernel |-> ld.phys_start .. ld.phys_end - 1]])

\* mutant: BootInfo keeps the size of the first map
RefreshedInfo_stale == ld.info

\* what the retry writes into BootInfo besides the map itself
RefreshedInfo == [ld.info EXCEPT !.map_size = MapSize(fw.owner)]

\* mutant: nobody remembers that there was a first attempt
FirstFailure_forgotten == ld

\* the first ExitBootServices has failed
FirstFailure == [ld EXCEPT !.retried = TRUE]

\* ExitBootServices: it fails with a stale key, and may fail for reasons of
\* its own; after the first failure the map is read again, without allocating
ExitBootServices ==
    /\ pc = "exit"
    /\ \/ ld.keyValid /\ Does("enter", ld)
       \/ ~ld.retried /\ Does("refresh", FirstFailure)
       \/ ld.retried /\ Panics

RefreshMap ==
    /\ pc = "refresh"
    /\ \/ Panics
       \/ Does("exit", [ld EXCEPT !.map = fw.owner, !.keyValid = TRUE, !.info = RefreshedInfo])

\* kernel_main's checks of BootInfo
KernelAccepts == machine.modes[ld.info.mode].format \in Linear /\ ld.info.initramfs # {}

\* write_cr3 and the jump to e_entry: _start moves to the kernel's own stack,
\* and hangs if kernel_main returns because it does not accept BootInfo
EnterKernel == pc = "enter" /\ Does(IF KernelAccepts THEN "kernel" ELSE "hang", ld)

\* the panic label: a key, then ResetSystem
KeyToShutdown == pc = "panic" /\ Does("off", ld)

\* the kernel runs, hangs, the machine is off, or the firmware has control
Over == pc \in {"kernel", "hang", "off", "returned"} /\ UNCHANGED vars

-----------------------------------------------------------------------------
\* what the processor does by itself
LoaderStep ==
    \/ Identify \/ PciScan \/ PciList \/ GopScan \/ AllocTables
    \/ LoadFails \/ LoadProceeds \/ LoadDone \/ CheckElf \/ LoadSegment \/ SegmentsDone
    \/ ReadEdid \/ QueryMode \/ PickMode \/ ModePicked \/ SetMode
    \/ MapHandoff \/ AllocBootInfo \/ AllocMapBuffer \/ GetMap
    \/ ExitBootServices \/ RefreshMap \/ EnterKernel

Next == LoaderStep \/ KeyPressed \/ KeyToShutdown \/ FirmwareEvent \/ Over

\* the processor keeps executing the loader; nobody has to press a key
Spec == Init /\ [][Next]_vars /\ WF_vars(LoaderStep)

-----------------------------------------------------------------------------
(* Properties.                                                             *)

\* load_file gives back each file handle and each pool it acquired, at
\* whichever of its ten calls it fails; what QueryMode allocates for a mode is
\* freed before the next one is asked for; and when the kernel is entered the
\* loader holds nothing but the list of graphics devices.
LoadFileReleases ==
    /\ pc # "load_file" => ld.held \cap {"root", "file", "fileInfo", "fileBuffer"} = {}
    /\ pc # "gop_info" => "Info" \notin ld.held
    /\ pc \in {"enter", "kernel", "hang"} => ld.held \subseteq {"GopHandles"}

\* What the kernel will use before it has memory of its own.
HandedOver == ld.tables \cup ld.bootInfo \cup ld.mapBuffer \cup ld.info.initramfs
              \cup UNION {Span(machine.segments[i].start, machine.segments[i].pages) :
                            i \in DOMAIN machine.segments}

\* The memory map the kernel is given is the firmware's last one, to the last
\* descriptor, although the firmware may have changed it after it was first
\* read; and it shows no page that holds the kernel, the ramdisk, BootInfo, the
\* map itself or the page tables in use as free memory.
HandoffMapTrue ==
    pc \in {"enter", "kernel", "hang"} =>
        /\ ld.map = fw.owner
        /\ ld.info.map_size = MapSize(ld.map)
        /\ \A p \in HandedOver : ld.map[p] # "conventional"

\* When CR3 is loaded, the new tables map the code that is running, its stack,
\* the frame buffer and everything handed over, wherever the firmware put them.
HandoffReachable ==
    pc \in {"enter", "kernel", "hang"} =>
        \A r \in {machine.image, machine.stack, machine.framebuffer} :
            Span(r.start, r.pages) \cup (HandedOver \ ld.tables) \subseteq ld.mapped

\* The kernel is told the format and size of the mode that is really active,
\* whether or not SetMode worked; and it refuses that mode only if the
\* firmware was in it before: a mode the loader chose can be drawn in.
KernelGetsActiveMode ==
    pc \in {"enter", "kernel", "hang"} =>
        /\ ld.info.mode = fw.mode
        /\ pc = "hang" => fw.mode = machine.active

\* The loader never runs in circles: it comes to the question for a key, to a
\* panic or back to the firmware, and once a key is pressed it reaches the
\* kernel (which takes over or hangs) or panics, however often the firmware
\* changes the memory map meanwhile.
LoaderSettles ==
    /\ <>(pc \in {"key", "panic", "returned"})
    /\ pc = "set_mode" ~> pc \in {"kernel", "hang", "panic"}

=============================================================================

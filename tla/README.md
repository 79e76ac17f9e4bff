# A verification project for ArchaOS

TLA+ models of the ArchaOS kernel, TLC runs that check them on small instances,
and TLAPS proofs about all of them: the page allocator, virtual memory, the heap,
system calls, the file system and its ramdisk, start-up, the bootloader, the
terminal and `print`. `PROJECT.json` lists the runs, the
mutants that show each property can fail, the map from definitions to source
lines, the hazards and the theorems.

## The system

ArchaOS is a single-processor x86_64 hobby kernel and its UEFI bootloader. The
bootloader loads the kernel ELF and a cpio ramdisk, picks a graphics mode,
obtains the memory map and jumps to `kernel_main`, which brings the parts up in
order: graphics and terminal, primitive CPU tables, page allocator, virtual
memory, CPU tables and interrupt controller, kernel heap, RAM file system, clock,
a demo. Nothing preempts kernel code: interrupt handlers only count ticks or
halt, and the firmware's events end with boot services. Concurrency is
therefore confined to the waits for the clock and to the last calls of the
loader; what is hard elsewhere is long sequences of calls, failure of each
allocation and each boot service, stale headers and pointers, and arithmetic at
the ends of tables, of the disk and of the address space.

| Component | State | Operations | Talks to | What makes it correct |
|---|---|---|---|---|
| page allocator `mm/pmm.c` | bitmap (inside the memory it manages), `max_pages`, `free_pages` | `init_pmm`, `palloc`, `pfree`, `reserve_region` | UEFI memory map; used by the VMM | no page given twice, none lost, page 0 and the bitmap never given, exact counter |
| virtual memory `mm/vmm.c` | page tables in frames, `next_virt` | `init_vmm`, `map_page`, `unmap_page`, `map_range`, `vallocs`, `vfrees` | `palloc`/`pfree`; used by the heap | frames accounted for, no frame at two heap pages, other mappings untouched, kernel mapped when CR3 changes |
| kernel heap `lib/kmalloc.c` | chunk headers in the heap, `head`, `heap_end` | `kmalloc`, `kcalloc`, `kfree` | `vallocs`/`vfrees`; used by the file system | the heap is contiguous, chunks tile it, blocks do not overlap, invalid frees do nothing |
| system calls `syscalls/syscalls.c` | table of handlers | assign, remove, configuration mode, dispatch | `syscall` instruction | entries callable, removed entries not called, no way for user code to rewrite the table |
| RAM file system `fs/fs.c` | tree of nodes on the heap | create, delete, read, write, list, force | `kmalloc` | a tree at all times, no leaks, statuses tell the truth |
| ramdisk `fs/drivers/initramfs.c` | read offset | `parse_cpio_disk` | the file system | no read past the disk; every entry of a sound archive exists afterwards, and nothing else |
| interrupts, clock `interrupts/`, `timer/`, `errs/` | gates, masks, tick counter | set-up, handlers, waits | `kernel_main` | a gate behind the timer before it runs; waits end |
| bootloader `bootloader/uefi.c` | files, buffers, page tables, memory map, `BootInfo` | load, choose mode, exit boot services | firmware, kernel | clean-up on every error path, a map that is current and a world that is mapped at hand-over, an end to every path |
| terminal and `print` `graphics/`, `lib/stdio.c` | frame buffer, cursor | drawing, scrolling, formatting | everything prints | the screen shows the end of the text, `print` stays in its format |
| threads, GRS, descriptor tables, fonts | – | – | nothing, or the CPU only | see "Not modelled" |

## Modules

* `Pmm` – pmm.c. The operators `mark_used`, `mark_free`, `palloc`, `pfree`,
  `reserve_region`, `init_pmm` are the C functions; the actions are the calls
  clients make. Ghost variables record which pages clients hold or reserved.
  Addresses are page numbers, `MemMaps` is the set of UEFI maps the machine may
  have, `BYTE` the bits per bitmap byte. `max_pages` is the largest end of a
  conventional region, the bitmap goes to the first region that is large enough
  and does not start at 0, and `palloc` scans byte by byte as the code does.
* `PageAllocator` – the abstract promise: a page handed out was free, a refusal
  means nothing is free. `Pmm` implements it with the clear bits as free pages.
* `Vmm` – vmm.c, extending `Pmm`. Tables are functions from frames to entries, a
  table has `FANOUT` entries; loops take one step per iteration and `map_page`
  one per missing table, so frames may run out anywhere. `init_vmm`'s
  `map_range` calls are the list `BootRanges`, in the order of the code, and
  `RangeDone` goes from one to the next; ranges are whole pages, so the offsets
  within a page that `map_range` rounds off are not seen. A `vfrees` may be repeated for a range already freed.
* `Kmalloc` – kmalloc.c on word-addressed memory that holds the headers, so that
  absorbed headers keep what the code left in them. `vallocs` is what `Vmm`
  provides: consecutive ranges, or failure. A pointer that leaves the heap sets
  `faulted`. `kfree` is called with any address a block could have had, so
  double frees are included. The ghost `strayed` records that a `kfree` found
  both neighbours free and went on merging from the header it had just absorbed
  (see `kmalloc_long` below): from then on the heap may be anything.
* `Syscalls` – the handler table with three of its 2048 entries; the services of
  configuration mode sit at the last entries as in the code. What follows the
  table in memory, which ID 2048 reads, is not determined by the source: any ID,
  flags and function but those of this file. History variables keep which calls
  were registered and then removed, and what the last dispatch did.
* `Fs` – fs.c. Each function maps a tree to a tree and a status, given how many
  of its allocations succeed; the actions try every number. Paths are sequences
  of components; NULL arguments are not modelled, and reading and listing change
  nothing. `parse_path` and the loop of `create_file_force` are functions of the
  number of components looked at (`Walk`, `Forced`). A failed `kcalloc` is
  taken to return NULL (it first clears page 0 through NULL; that page is mapped).
* `Initramfs` – initramfs.c and `init_fs`, extending `Fs`: the archive is a
  sequence of entries and the place where each begins, the parser has a byte
  offset only, and where no entry begins there is no header. An entry's header
  claims as much data as follows it, or more than is on the disk
  (`ClaimsAssumption`). Each entry is one
  step to check it, one per parent directory and one to create it, with `kmalloc`
  failing anywhere; the slashes at the end of a name are counted, for all of them
  are removed from a directory's name and one only from a file's; every error code ends in the panic of `init_fs`. Once the
  disk is mounted the actions of `Fs` follow.
* `Boot` – uefi.c from `efi_main` to the jump, and `kernel_main`'s checks of
  `BootInfo`. A boot service either succeeds or fails at every call; pages have
  an owner each, and the firmware takes and releases some at any time until boot
  services end, which makes the map key stale. The ten calls of `load_file` are
  the list `LoadCalls`, walked once for each file. The 514 pages of the first
  page tables are one page here, as are those `map_handoff_range` adds; the 1:1
  map they hold is `0 .. IDENTITY - 1`.
  `vendor16` and the result of the graphics scan may be uninitialised in the code
  and are nondeterministic here.
* `Start` – `kernel_main` after that, against interrupts: `init_primitivs`,
  `init_cpu`, the IDT, PIC, PIT and local APIC, the clock, `kernel_sleep_ms`, the
  exception handlers, the demo's loop. A handler runs with interrupts disabled
  and is one step; between any two steps of `kernel_main` the timer, the PIT or a
  key may interrupt. Each operator named after a function maps the state of the
  hardware to the one after the call. The firmware may have left its APIC timer in
  any state, with nothing in service, and IRQs 0 and 1 unmasked. Whether a write
  to the APIC's page reaches the device is a choice (`cpu.cached`), since
  `init_vmm` maps that page without the flag that would settle it; a late
  write-back from the cache is not modelled.
* `Console` – `print`, `Putchar` and `term_scroll` on a frame buffer kept by rows
  of pixels (its height need not be a multiple of the font's) and columns of
  glyphs. The history variable `page` keeps the same text as lines.
* `MCPmm`, `MCVmm`, `MCKmalloc`, `MCSyscalls`, `MCFs`, `MCInitramfs`, `MCBoot`,
  `MCConsole` – values of the constants. `Start` needs none. `MCKmallocLong` adds
  one client of the heap with a fixed list of calls.
* `PmmProofs`, `VmmProofs` (which extends it), `KmallocProofs`, `SyscallsProofs`,
  `FsProofs` (`Fs` and `Initramfs`), `StartProofs`, `BootProofs`, `ConsoleProofs`
  – the theorems.

Definitions whose name ends in a suffix such as `_short` and whose comment says
"mutant" are used by the mutants of `PROJECT.json` only.

## Runs

| Run | Bounds | Result |
|---|---|---|
| `pmm` | five memory maps of up to 9 pages, 2-bit bytes, 2-byte pages | type, exact counter, only usable pages held, pages conserved, implements `PageAllocator` |
| `vmm` | tables of 5 entries (625 virtual pages), five maps, up to 3 pages a call and 6 in all | frames accounted for, heap pages not shared, tables and bitmap reachable, boot mappings in place, other mappings stable, `Pmm` used as its clients must |
| `vmm_wrap` | as `vmm`, window 15 pages below the top | **violated**: boot mappings overwritten |
| `kmalloc` | 32 words, pages of 16, sizes 0, 1, 4, 6, six blocks | heap contiguous; until a `kfree` strays, chunks tile it with no two free neighbours, blocks are the used chunks, stale frees harmless |
| `kmalloc_long` | 64 words, one client, 14 calls, each block freed at most once | **violated**: a chunk longer than the way to the next |
| `syscalls` | 3 entries, 2 interchangeable drivers, any contents past the table | entries callable; configuration mode cannot be entered and its services never appear |
| `syscalls_removed` | as `syscalls` | **violated**: a call is registered, removed, and dispatch runs its function |
| `fs` | 3 nodes, 2 names, 7 paths, contents of up to 2 cells; 20 archives, cut off by 0 to 14 bytes | no read past the disk, an archive is mounted as it is listed; then tree, no leaks, created paths resolve, deleted ones do not, refused calls change nothing |
| `fs_force` | as `fs`, without a ramdisk | **violated**: success without the path |
| `boot` | 8 machines of 13 pages, three of them beyond the 1:1 map, up to 3 graphics modes | files, pools and mode descriptions given back, true memory map, everything mapped at the switch of CR3, active mode reported; the loader comes to an end |
| `start` | tick 6 waited for, sleep of 50 ms, CPUs without APIC, with it, in x2APIC mode, and with its page cached; any firmware timer | no reset, the timer has its gate; nothing gets past the wait for a tick unless the APIC is reached; then the wait ends unless the tick is missed, in which case it never does; the sleep ends |
| `console` | 2½ lines of 6 columns, 12 formats, 4 prints | the screen shows the end of the text, `print` stays in its format |

The bounds are the smallest that reach the cases of interest. The memory maps of
`MCPmm` cover a region too small for the bitmap, one at address 0, a bitmap that
fills its region, tail bits, unordered descriptors and no memory at all. Those
of `MCVmm` make frames run out before, during and after `init_vmm`; with five
entries per table the heap crosses a table boundary. The heap of `MCKmalloc`
starts empty, grows twice and is then exhausted, and splits, exact fits,
remainders too small to split, and every order of frees occur. `MCFs` has more
names and paths than nodes, so creation also fails for lack of nodes, and node
addresses are reused. The archives of `MCInitramfs` are as `cpio` writes them,
unsorted, with missing parents, repeated names, names below a file, names that go
up, slashes at the end, too many entries, and with each field damaged in turn; the cuts take away
padding, and part or all of the trailer's name. The machines of
`MCBoot` have the image, the stack or the frame buffer beyond the 1:1 map, a
range that wraps, an EDID, none, or one without a clock, modes without a linear
frame buffer, an empty ramdisk, a file that is no ELF, and volatile pages that
are also wanted for the files and segments. In `Start` the tick and the time
waited for are small, but large enough for the counter to be anywhere before,
at and after them. The screen of `MCConsole` scrolls at its half line; tabulators
and long numbers reach the right edge.

### Fairness

`Boot` and `Start` assume that the processor goes on executing
(`WF_vars(LoaderStep)`, `WF_vars(MainStep)`), and `Start` that a timer which is
enabled, unmasked, counting and not in service does interrupt while interrupts
are enabled (`WF_vars(LapicTimer)`): in periodic mode the hardware raises it again
and again, and a handler never stays. Nothing is assumed of keys, the PIT, faults
or the firmware's events. All other specifications are about safety only and
assume no fairness.

* `LoaderSettles`: the loader reaches its question for a key, a panic or the
  firmware, and after the key the kernel, its `hlt` loop or a panic. The retry of
  `ExitBootServices` happens once, so a firmware that keeps changing the map
  cannot hold the loader.
* `ClockWaitEnds`: `while (get_ticks() != 200)` ends when writes reach a local
  APIC, unless a print lasts so long that the counter passes 200 unseen; once it
  has, the wait never ends (second conjunct). `WaitNeedsDevice` is the other
  side: without an APIC that can be written to, nothing ever gets past the wait.
* `SleepEnds`: a tick between the look at the clock and `hlt` does not stop
  `kernel_sleep_ms`, because another one follows. It says that the call returns,
  not after how long: see the next section.

Deadlock is checked in every run: a machine that has panicked, halted or been
left by the loader stutters in an explicit action.

### What the code does at the edges

Contradicted by a comment or by the change log, and stated by a property that
holds of the code as it is:

* Configuration mode does not exist. The comments at `syscalls.c:142-147` say that
  it forces three services into the table, over calls already registered there
  ("back them up"), and `:205` that "ID 2049 is reserved" for it. The table has
  2048 entries, `assign_syscall(2049, ...)` at `:206` fails, the result is not
  looked at, and `syscall_dispatch` refuses ID 2049 anyway. `ConfigModeNeverReached`
  says so, and `ConfigModeUnreachable` proves it: user code cannot change the
  table. A table one entry longer would change that (the mutant of the property).
* The APIC's registers are mapped with `PTE_PRESENT | PTE_RW` (`vmm.c:470`), while the
  comment at `vmm.c:294-295` wants them uncached and `src/CHANGELOG:16,23-28` reports
  that what is written "only ends up in cache" and that the hardware test did not
  pass. Whether it does depends on the memory types the firmware set up. Where it
  does, the timer is never programmed and start-up waits for ever
  (`WaitNeedsDevice`); `ClockWaitEnds` is about the machines where it does not.
* "Doesnt work btw", says `startup.c:161` of `kernel_sleep_ms(1000)`. The model shows
  that the call returns; a tick is taken for 10 ms while the timer is never
  calibrated, so how long the sleep really is cannot be told from the source and
  is not modelled.

Met while modelling, in the models, and not contradicted by a document:

* When the PCI scan fails the loader returns `EFI_SUCCESS` to the firmware.
  `GopHandles` is never freed. Kernel and ramdisk are read to fixed addresses, so
  a machine that uses these panics.
* The result of `SetMode` is ignored; `BootInfo` is filled in from the active
  mode, so that is harmless. Without an EDID the active mode is kept even when it
  has no linear frame buffer; the kernel then returns and `_start` hangs.
* `pic_disable_total` and `pit_count` pass port and value to `outb` in the wrong
  order. The PIC keeps IRQ 1 unmasked, and a key ends in a panic.
* Without a local APIC `start_clock` writes to page 0, which is mapped, and goes on;
  IRQ 0 has no gate, so the first tick of the PIT ends in the panic of #GP, and
  without one the wait never ends.
* `init_primitivs` enables interrupts before there is a gate for any but the
  faults. A timer of the firmware's that still runs ends in a panic then.
* A file of the ramdisk whose name ends in two slashes is made a directory before
  it is refused; `.//` is refused as an absolute name.
* `%lx` swallows the character after it, `%%` prints nothing, an unknown
  directive swallows the character after it. At the right edge every further
  character scrolls the screen, and a tabulator that wraps does not scroll.
* `panic_screen` draws nothing, its rectangle ends before it starts.

### What the violated runs show

* `vmm_wrap`: the window at `PASSTHRU_BASE` has 2 GiB; `init_vmm` maps all
  physical memory there and wraps around with more, overwriting the mappings of
  the kernel image and of the current instruction.
* `kmalloc_long`: `kfree` merges into the previous chunk and then goes on with
  the header that merge absorbed. With both neighbours free the two free chunks
  stay apart, and the `prev` of the chunk behind them points to the dead header.
  A later `kfree` of that chunk merges from there, by then inside a block that
  was handed out again: after fourteen legal calls a chunk of 120 words starts
  at word 118, with the next one at word 144. The first such `kfree` is where
  the heap's guarantees end, which is why the properties and theorems of
  `Kmalloc` speak of the time before it (`strayed`).
* `syscalls_removed`: a driver's call is assigned with `SYSCALL_FLAG_EXISTS`, removed,
  and then dispatched, and the function runs: `remove_syscall` clears the flags
  only, and the test of the flag in `syscall_dispatch` is inverted (so a call that
  is registered is refused).
* `fs_force`: `create_file_force` looks at the rest of the path behind each
  component.

## Proofs

The theorems hold for every value of the constants that satisfies the named
assumption of the module; TLC evaluates the same assumptions for the values of
the runs. Each follows from an inductive invariant: `Init` establishes it, one
lemma per action (or per group of alike actions) shows that a step keeps it, and
the property is a consequence. The bounds of the models (`MaxHeap`, `MaxWords`,
`MaxBlocks`, ...) are constants too, so the results hold for any bound.

| Module | Theorems about the properties of the runs |
|---|---|
| `PmmProofs` | `PmmTypeOK`, `FreeCountIsExact`, `HeldPagesAreUsable`, `PagesAreConserved`, `PmmImplementsPageAllocator` |
| `VmmProofs` | `VmmTypeAlwaysOK`, `FramesAlwaysAccounted`, `HeapNeverShared`, `OtherMappingsAlwaysStable`, `VmmUsesPmmProperly`; for a flat layout `BootRangesAlwaysMapped`, `ManagersAlwaysReachable` |
| `KmallocProofs` | `KmallocTypeAlwaysOK`, `HeapAlwaysTiled`, `BlocksAlwaysUsedChunks`, `StaleFreesAlwaysHarmless` |
| `SyscallsProofs` | `EntriesCallableAlways`, `ConfigModeUnreachable` |
| `FsProofs` | `FilesAlwaysATree`, `BlocksNeverLeak`, `CreatedAlwaysResolves`, `DeletedAlwaysGone`, `RefusalsChangeNothing`, each for `Fs` alone and behind a ramdisk; `ParserAlwaysInBounds`, `ArchiveAlwaysUnpacked` |
| `StartProofs` | `InterruptsAlwaysHandled`, `WaitAlwaysNeedsDevice` |
| `BootProofs` | `LoadFileAlwaysReleases`, `HandoffMapAlwaysTrue`, `HandoffAlwaysReachable`, `KernelAlwaysGetsActiveMode` |
| `ConsoleProofs` | for plain formats `PrintAlwaysStopsAtEnd`, `ScreenAlwaysShowsTail` |

**Page allocator** (`PmmAssumption`: positive sizes, descriptors with natural
starts and lengths). `IInv` strengthens the invariants in two ways.
`BitmapCovers` says the bitmap has a bit for each page below `max_pages`, and
that bits beyond are set, so a clear bit is always a page; without it the counter
and the scan cannot be related. `EmptyBeforeInit` says that before `init_pmm`
there are no bits and no held pages, which makes the early `palloc` and `pfree`
calls of the self test harmless. `mark_used` and `mark_free` move exactly the
bits they count (`MarkUsedEffect`, `MarkFreeEffect`, with cardinalities of finite
sets); the byte-wise scan finds a clear bit whenever there is one
(`ScanFindsClearBit`); `init_pmm` leaves clear exactly the conventional pages
that are not kept (`InitPmmEffect`); and every action maps to a step of
`PageAllocator` or a stutter (`StepImplementsAllocator`).

**Virtual memory** (`VmmAssumption`: boot ranges and physical memory below the
heap, the heap's bound below the window). `VInv` is the page allocator's `IInv`
with:

* `Tree`: the table frames form a tree of four levels, each reached by one path;
* `Stages`, `Todo`, `Call`: what the position in `init_vmm`, `map_page`, `vallocs`
  or `vfrees` says about the roots, the frame in hand and the loop counter;
* `FramesAccounted`: every held frame is a table, behind a heap page or in hand;
* `Heap`, `Granted`: a live heap page is mapped to a frame of its own, ranges
  once granted lie below `next_virt`.

The core is what one entry written to one table does to all the walks: a page
number has unique digits in base `FANOUT` (`DivModUnique`, `IndexChain`), so only
the pages below that entry are affected. `VmmUsesPmmProperly` makes everything
proved of `Pmm` hold under the VMM. The two results about the mappings of
`init_vmm` need `FlatLayout` (boot ranges mapped to themselves, a window that
does not wrap), and the second a local APIC; `vmm_wrap` shows that the layout
cannot be dropped, and the code does not check it.

**Heap** (`KmallocAssumption`: numbers only). `KInv` is `TypeOK`, `Grown` (the
heap ends where `vallocs` goes on) and `Sound`: until a `kfree` strays the heap is
a `GoodHeap`, in which the chunks from `head` are linked both ways and tile the
words and only the first word of a chunk can look `USED` (`Linked`), no two
neighbours are free (`NoFreePair`), and the used chunks are the clients' blocks
(`BlocksMatch`). The part about `USED` is what makes a repeated `kfree` harmless;
it speaks of what the allocator writes, for clients' own writes to their blocks
are not modelled. With `NoFreePair` one merge on each side is enough. Splitting, merging and growing are lemmas about the set of chunks.

**System calls** (`SyscallsAssumption`: the functions of drivers, and whatever lies
past the table, are not the four functions of syscalls.c, which its header does
not declare). The invariant adds to `EntriesCallable` that the function of every
entry, and of what follows the table, is none of these four. It needs the range
check of `assign_syscall` for the one registration of configuration mode; then a
dispatch cannot run one of the four, so none can bring the others in.

**File system and ramdisk** (`FsAssumption`: `.` and `..` are no names, the root is
no allocated node; `InitramfsAssumption`: archives are sequences of entries, disks
have a size). `Inv` says that the nodes form a tree with one place for each and
no two siblings of a name, and that the blocks taken are those of the linked
nodes. Linking, unlinking and rewriting a node keep it, and keep the walk of
every path that does not meet the node. For `CreatedResolves` and `DeletedGone`
the walk after the call is compared with the one before, component by component,
through `.` and `..`. `InitramfsInv` adds that the read offset is on the disk and,
while an entry's parents are created, that its header and data have been checked.

`ArchiveAlwaysUnpacked` compares the whole tree with the whole archive, so its
invariant `ArchiveInv` says how far the parser is. It is at the c-th entry, which
its offset alone tells, since the entries lie one behind the other
(`EntriesApart`). The paths that the entries before the c-th name, with the
components of the c-th already gone through (`PathsTo`), are in the tree, and
nothing else is (`Holds`). A path has the kind of the first entry for it
(`KindsKept`), and what is not a directory comes from an entry for a file
(`FilesListed`). Paths without `.` and `..` that lead to one node are equal
(`PlainApart`), so a name is found exactly if an entry before brought it
(`TakenIsFound`), and one created adds one path (`CreateAdds`). In a
well-formed archive with ordinary names, none of them below a file (`Sound`), the
lack of memory is therefore all that can stop the parser (`OnlyMemory`). `ClaimsAssumption` is needed for this
theorem only: with a header that claims less data than follows, the parser would
look for the next header in the middle of that data.

**Start-up** (`StartAssumption`: the tick waited for is not the first). The fault
gates and the IDT come before the interrupt flag (`FaultsFirst`), the timer's gate
before the APIC is on at its vector (`TimerGateFirst`); every set-up function only
adds gates and never unloads the table (`Grows`). For `WaitAlwaysNeedsDevice`:
`init_cpu` leaves IRQ 0 masked on a machine with an APIC and gives it no gate on
one without (`PitMasked`), so if the APIC's registers are out of reach only a
timer of the firmware's counts a tick, and only one, for it stays in service
(`OneTick`).

**Bootloader** (`BootAssumption`: the files and segments lie below 4 GiB, which
is inside the 1:1 map, as the linker script and the fixed addresses have it).
`IInv` ties what is held to the position in `load_file` (`HeldFits`), the owner of
each page to the stage reached (`LoadedOwned`, `BuffersOwned`), the page tables to
the ranges already mapped (`Mapped`), the chosen mode to the scan
(`ModesDrawable`) and `BootInfo` to the firmware's last map (`InfoTrue`): a key
that is still valid means that no firmware event came in between.

**Terminal and `print`** (`ConsoleAssumption`: a font lower than the screen, at
least one column). Both theorems suppose `PlainFormats`: every `%` starts a
directive that `print` knows, with an argument of its type for each, and `%lx`,
which swallows a character, swallows no other `%`. The formats in the kernel are
of this kind; the `console` run has others too. `InFormat` says that `print` is
inside its format and has taken as many arguments as there are `%` behind it, so
it never goes past the terminator nor asks for an argument that is missing.
`OnScreen` says that until a text reaches the right edge (`calm`) the screen shows
the lines of the page: line k of n starts at `Top(n, k)`, which falls by a font's
height with each scroll, the lines do not overlap (`LinesApart`), and what has
left the screen at the top is gone. A glyph and a new line keep it (`DrawKeeps`,
`LnKeeps`), hence so does every character (`PutcharShows`) and every text
(`TextShows`).

The walks over data (`Walk`, `Forced`, `NthChunk`, the layout `EntryAt` of an
archive, `PutAll` and `WrittenAll` over a text, the digits of `print_uint`) are
recursive functions. Their defining equation is obtained by showing that a
function satisfying it exists (`WalkExists`, `ForceExists`, `LayoutExists`,
`PutExists` and the like), and inductions along them
take the least counterexample of a set of numbers (`LeastNumber`) instead of an
induction rule.

Model-checked only:

* the liveness properties `LoaderSettles`, `ClockWaitEnds` and `SleepEnds`: fairness
  is outside the prover's reach;
* `print` with a format that is not plain (`%%`, an unknown directive), in the
  `console` run;
* the violated runs, which are counterexamples.

## Not modelled

* Register and descriptor formats of the CPU, APIC and PIC, the GDT and TSS, MSR
  access: data the CPU reads, no state the kernel changes later.
* Threads: no scheduler and no caller yet. The global register service: no
  caller, and a loop whose condition is false from the start. The playground and
  the drivers are placeholders.
* Serial output, the loader's console output, CPU and PCI names, the logo and
  the fonts; what the demo draws, lines and rectangles. In `Console` the screen
  is blank at first, characters the font lacks, which print nothing, are left
  out, and texts that reach the right edge are modelled but not judged.
* PTE flags besides present, and the TLB: all mappings are writable kernel
  mappings and every change is followed by `invlpg`. That the page of the local APIC
  lacks the cache-disable flag is a choice in `Start`. In `Vmm` the heap is bounded
  below `PASSTHRU_BASE`, which the code does not check, and a local APIC is
  assumed: without one the page bitmap is not mapped after CR3 changes.
* In `Boot`, firmware that answers `GetInfo` for the size with `EFI_SUCCESS`, which UEFI
  does not allow: `load_file` would return it as its own success with nothing
  loaded (`uefi.c:684-687`). Every other answer is an outcome of the model.
* In `Initramfs`, names with an empty component in the middle; in `Boot`, the EDID's fields except the
  resolution and the presence of a pixel clock; the rates of the timers, hence the
  length of a sleep.
* Interrupt functions nobody calls during start-up (`pic_disable`,
  `pic_acknowledge`, `apic_timer_stop`, `set_idt_vector`).

## What remains

Every invariant and action property of the passing runs is a theorem; liveness
stays with TLC. `PROJECT.json` lists some hazards for which there is no property,
with the reason at each: most are what the code does after a failure it does not
look for, or a limit it does not check. They are the places to look at
first when the code changes: `kmalloc` with frames running out under `map_page`
(a panic where the caller expects NULL), and a heap that grows up to
`PASSTHRU_BASE`.

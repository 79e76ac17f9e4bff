---- MODULE BootProofs ----
(* Proofs about Boot, for every set of machines that satisfies             *)
(* BootAssumption: any memory, any firmware events, any graphics modes.    *)
EXTENDS Boot, FiniteSetTheorems, TLAPS

-----------------------------------------------------------------------------
(* The inductive invariant.                                                *)

Owners == {"conventional", "firmware", "loader"}
Pools == {"root", "file", "fileInfo", "fileBuffer"}
Held == {"Handles", "GopHandles", "Info"} \cup Pools

BootInfo == [map_size : Nat, mode : Nat, initramfs : SUBSET Int, kernel : SUBSET Int]

Loader ==
    [held : SUBSET Held, call : Nat, file : {"none", "kernel", "ramdisk"},
     size : [{"kernel", "ramdisk"} -> Nat], tables : SUBSET Pages, mapped : SUBSET Int,
     segment : Nat \ {0}, phys_start : Nat, phys_end : Nat, i : Nat, choosenMode : Nat,
     foundMode : BOOLEAN, skip_monitor : BOOLEAN, bootInfo : SUBSET Pages,
     mapBuffer : SUBSET Pages, map : [Pages -> Owners] \cup {<<>>}, keyValid : BOOLEAN,
     retried : BOOLEAN, info : BootInfo \cup {<<>>}]

TypeOK ==
    /\ machine \in Machines
    /\ fw \in [owner : [Pages -> Owners], mode : Nat]
    /\ ld \in Loader

\* Where efi_main is past a stage.
Entered == {"enter", "kernel", "hang"}
AfterMap == {"exit", "refresh"} \cup Entered
AfterHandoff == {"boot_info", "map_buffer", "get_map"} \cup AfterMap
AfterSegments == {"edid", "gop_pick", "gop_info", "key", "set_mode", "map_handoff"} \cup AfterHandoff
AfterLoad == {"elf", "segments"} \cup AfterSegments
AfterTables == {"load_file"} \cup AfterLoad

\* load_file holds a handle or pool only from the call that gave it on, and
\* the description of a graphics mode is held only while the mode is looked at.
HeldFits ==
    /\ "Handles" \in ld.held => pc = "pci_list"
    /\ "Info" \in ld.held => pc = "gop_info"
    /\ pc = "load_file" => ld.call \in 1 .. 10 /\ ld.file \in {"kernel", "ramdisk"}
    /\ \A x \in Pools \cap ld.held :
          pc = "load_file" /\ ld.call >= (IF x = "root" THEN 4 ELSE 5)

\* The pages of S are the loader's, as firmware f knows them.
Owned(f, S) == \A p \in S : p \in Pages /\ f.owner[p] = "loader"

SegmentPages(k) == Span(machine.segments[k].start, machine.segments[k].pages)

\* What has been loaded so far lies in pages of the loader.
LoadedOwned ==
    /\ pc = "load_file" /\ ld.call > 7 =>
          FilePages(ld.file) > 0 /\ ld.size[ld.file] = FilePages(ld.file)
    /\ pc \in AfterLoad =>
          /\ machine.ramdisk > 0 /\ ld.size["ramdisk"] = machine.ramdisk
          /\ Owned(fw, LoadedAt("ramdisk"))
    /\ \A k \in DOMAIN machine.segments : k < ld.segment => Owned(fw, SegmentPages(k))
    /\ pc \in AfterSegments => ld.segment > Len(machine.segments)

\* So do the page tables and the two buffers, and these are below 4 GiB.
BuffersOwned ==
    /\ Owned(fw, ld.tables) /\ Owned(fw, ld.bootInfo) /\ Owned(fw, ld.mapBuffer)
    /\ \A p \in ld.bootInfo \cup ld.mapBuffer : p < FOUR_GIB

Mapped ==
    /\ pc \in AfterTables => 0 .. IDENTITY - 1 \subseteq ld.mapped
    /\ pc \in AfterHandoff =>
          \A r \in {machine.image, machine.stack, machine.framebuffer} :
              Span(r.start, r.pages) \subseteq ld.mapped

Drawable(n) == n = machine.active \/ Usable(machine.modes[n])

\* The firmware's mode, and the loader's choice, is one the firmware was in
\* before or one that can be drawn in.
ModesDrawable ==
    /\ Drawable(fw.mode)
    /\ ld.foundMode => Drawable(ld.choosenMode)
    /\ pc \in {"key", "set_mode"} => ld.foundMode

\* BootInfo is about the map in the buffer, which is the firmware's as long
\* as its key is valid.
InfoTrue ==
    /\ pc \in AfterMap =>
          /\ ld.map \in [Pages -> Owners]
          /\ ld.info = [map_size |-> MapSize(ld.map), mode |-> fw.mode,
                        initramfs |-> Span(RAMDISK_AT, ld.size["ramdisk"]),
                        kernel |-> ld.phys_start .. ld.phys_end - 1]
    /\ ld.keyValid => ld.map = fw.owner
    /\ pc \in Entered => ld.keyValid
    /\ pc = "hang" => ~KernelAccepts

IInv ==
    /\ TypeOK
    /\ HeldFits
    /\ LoadedOwned
    /\ BuffersOwned
    /\ Mapped
    /\ ModesDrawable
    /\ InfoTrue

-----------------------------------------------------------------------------
(* Facts the steps rest on.                                                *)

\* The size of a memory map is a number.
LEMMA MapSizeNat == \A owner : MapSize(owner) \in Nat
  <1> SUFFICES ASSUME NEW owner PROVE MapSize(owner) \in Nat
    OBVIOUS
  <1> DEFINE S == {p \in Pages : p = 0 \/ owner[p] # owner[p - 1]}
  <1>1. S \subseteq Pages
    OBVIOUS
  <1>2. IsFiniteSet(S)
    BY <1>1, BootAssumption, FS_Subset
  <1> QED BY <1>2, FS_CardinalityType DEF MapSize

\* The ten calls of load_file: which give what, and which sets *fileSize.
LEMMA LoadCallsFacts ==
    /\ Len(LoadCalls) = 10
    /\ \A n \in 1 .. 10 :
          /\ LoadCalls[n].name = "GetInfo" <=> n = 7
          /\ LoadCalls[n].gives \subseteq Pools
          /\ n < 3 => LoadCalls[n].gives = {}
          /\ n = 3 => LoadCalls[n].gives = {"root"}
  <1>1. Len(LoadCalls) = 10
    BY DEF LoadCalls
  <1>2. ASSUME NEW n \in 1 .. 10
        PROVE  /\ LoadCalls[n].name = "GetInfo" <=> n = 7
               /\ LoadCalls[n].gives \subseteq Pools
               /\ n < 3 => LoadCalls[n].gives = {}
               /\ n = 3 => LoadCalls[n].gives = {"root"}
    <2>1. CASE n = 1
      BY <2>1 DEF LoadCalls, Pools
    <2>2. CASE n = 2
      BY <2>2 DEF LoadCalls, Pools
    <2>3. CASE n = 3
      BY <2>3 DEF LoadCalls, Pools
    <2>4. CASE n = 4
      BY <2>4 DEF LoadCalls, Pools
    <2>5. CASE n = 5
      BY <2>5 DEF LoadCalls, Pools
    <2>6. CASE n = 6
      BY <2>6 DEF LoadCalls, Pools
    <2>7. CASE n = 7
      BY <2>7 DEF LoadCalls, Pools
    <2>8. CASE n = 8
      BY <2>8 DEF LoadCalls, Pools
    <2>9. CASE n = 9
      BY <2>9 DEF LoadCalls, Pools
    <2>10. CASE n = 10
      BY <2>10 DEF LoadCalls, Pools
    <2> QED BY <2>1, <2>2, <2>3, <2>4, <2>5, <2>6, <2>7, <2>8, <2>9, <2>10
  <1> QED BY <1>1, <1>2

\* The parts of a machine have their types.
LEMMA MachineTyped ==
    ASSUME TypeOK
    PROVE  /\ machine \in Machine
           /\ machine.segments \in Seq(Area)
           /\ machine.kernel \in Nat /\ machine.ramdisk \in Nat
           /\ Len(machine.modes) \in Nat /\ machine.active \in Nat
           /\ DOMAIN machine.segments = 1 .. Len(machine.segments)
           /\ Len(machine.segments) \in Nat
           /\ \A k \in DOMAIN machine.segments : machine.segments[k] \in Area
           /\ \A r \in {machine.image, machine.stack, machine.framebuffer} : r \in Area
  BY BootAssumption DEF TypeOK, Machine

\* Pages given to the loader are its own, and it keeps those it has.
LEMMA AllocateGives ==
    ASSUME TypeOK, NEW S, \A p \in S : Free(p), fw' = Allocate(S)
    PROVE  /\ fw' \in [owner : [Pages -> Owners], mode : Nat]
           /\ fw'.mode = fw.mode
           /\ Owned(fw', S)
           /\ \A T : Owned(fw, T) => Owned(fw', T)
  <1>1. fw' = [fw EXCEPT !.owner = [p \in Pages |-> IF p \in S THEN "loader" ELSE fw.owner[p]]]
    BY DEF Allocate
  <1>2. fw'.mode = fw.mode
    BY <1>1 DEF TypeOK
  <1>3. fw'.owner = [p \in Pages |-> IF p \in S THEN "loader" ELSE fw.owner[p]]
    BY <1>1 DEF TypeOK
  <1>4. fw'.owner \in [Pages -> Owners]
    BY <1>3 DEF TypeOK, Owners
  <1>5. fw' \in [owner : [Pages -> Owners], mode : Nat]
    BY <1>1, <1>3, <1>4 DEF TypeOK
  <1>6. Owned(fw', S)
    BY <1>3 DEF Owned, Free
  <1>7. ASSUME NEW T, Owned(fw, T) PROVE Owned(fw', T)
    BY <1>3, <1>7 DEF Owned
  <1> QED BY <1>2, <1>5, <1>6, <1>7

\* A firmware event flips pages that are not the loader's, and stales the key.
LEMMA EventSpares ==
    ASSUME TypeOK, FirmwareEvent
    PROVE  /\ fw' \in [owner : [Pages -> Owners], mode : Nat]
           /\ fw'.mode = fw.mode
           /\ \A T : Owned(fw, T) => Owned(fw', T)
  <1>1. PICK p \in machine.volatile :
          /\ fw.owner[p] \in {"conventional", "firmware"}
          /\ fw' = [fw EXCEPT !.owner[p] = IF @ = "conventional" THEN "firmware" ELSE "conventional"]
    BY DEF FirmwareEvent
  <1>2. p \in Pages
    BY MachineTyped DEF Machine
  <1> DEFINE o == [fw.owner EXCEPT ![p] = IF fw.owner[p] = "conventional" THEN "firmware" ELSE "conventional"]
  <1>3. fw' = [fw EXCEPT !.owner = o]
    BY <1>1
  <1>4. o \in [Pages -> Owners]
    BY DEF TypeOK, Owners
  <1>5. \A q \in Pages : fw.owner[q] = "loader" => o[q] = "loader"
    BY <1>1 DEF TypeOK
  <1> HIDE DEF o
  <1>6. fw'.mode = fw.mode /\ fw'.owner = o /\ fw' \in [owner : [Pages -> Owners], mode : Nat]
    BY <1>3, <1>4 DEF TypeOK
  <1> QED BY <1>5, <1>6 DEF Owned

\* A step that leaves firmware and loader alone keeps the invariant wherever
\* it goes short of the next stage.
LEMMA PanicKeeps ==
    ASSUME IInv, pc \notin {"pci_list", "load_file", "gop_info"}, pc' \in {"panic", "off", "returned"},
           UNCHANGED <<machine, fw, ld>>
    PROVE  IInv'
  BY DEF IInv, TypeOK, HeldFits, LoadedOwned, BuffersOwned, Mapped, ModesDrawable, InfoTrue, Owned,
         SegmentPages, Drawable, AfterTables, AfterLoad, AfterSegments, AfterHandoff, AfterMap,
         Entered, LoadedAt, FilePages, FileAt

\* The steps up to the page tables.
LEMMA ScanKeeps ==
    ASSUME IInv, Identify \/ PciScan \/ PciList \/ GopScan
    PROVE  IInv'
  <1> USE DEF IInv, AfterTables, AfterLoad, AfterSegments, AfterHandoff, AfterMap, Entered
  <1>1. /\ machine' = machine /\ fw' = fw
        /\ pc \in {"identify", "pci", "pci_list", "gop_scan"}
        /\ pc' \in {"pci", "returned", "pci_list", "gop_scan", "tables"}
        /\ \E h \in SUBSET {"Handles", "GopHandles"} :
              /\ ld' = [ld EXCEPT !.held = h]
              /\ "Handles" \in h => pc' = "pci_list"
    <2>1. ld.held \cap Pools = {} /\ ("Handles" \in ld.held => pc = "pci_list")
            /\ ld.held \subseteq {"Handles", "GopHandles"}
      BY DEF Identify, PciScan, PciList, GopScan, HeldFits, Pools, Held, TypeOK, Loader
    <2>2. ld = [ld EXCEPT !.held = ld.held]
      BY DEF TypeOK, Loader
    <2>3. CASE Identify
      BY <2>1, <2>2, <2>3 DEF Identify, Does
    <2>4. CASE PciScan
      BY <2>1, <2>2, <2>4 DEF PciScan, Does
    <2>5. CASE PciList
      BY <2>1, <2>2, <2>5 DEF PciList, Does
    <2>6. CASE GopScan
      BY <2>1, <2>2, <2>6 DEF GopScan, Does
    <2> QED BY <2>3, <2>4, <2>5, <2>6
  <1>2. PICK h \in SUBSET {"Handles", "GopHandles"} :
          ld' = [ld EXCEPT !.held = h] /\ ("Handles" \in h => pc' = "pci_list")
    BY <1>1
  <1>3. h \subseteq Held
    BY DEF Held
  <1>4. TypeOK'
    BY <1>1, <1>2, <1>3 DEF TypeOK, Loader
  <1>5. HeldFits'
    BY <1>1, <1>2 DEF TypeOK, Loader, HeldFits, Pools
  <1>6. LoadedOwned'
    BY <1>1, <1>2 DEF TypeOK, Loader, LoadedOwned, Owned, SegmentPages
  <1>7. BuffersOwned' /\ Mapped' /\ ModesDrawable' /\ InfoTrue'
    BY <1>1, <1>2 DEF TypeOK, Loader, BuffersOwned, Mapped, ModesDrawable, InfoTrue, Owned, Drawable
  <1> QED BY <1>4, <1>5, <1>6, <1>7

\* The page tables are allocated and the identity map is made.
LEMMA TablesKeep ==
    ASSUME IInv, AllocTables
    PROVE  IInv'
  <1> USE DEF IInv, AfterTables, AfterLoad, AfterSegments, AfterHandoff, AfterMap, Entered
  <1>1. pc = "tables"
    BY DEF AllocTables
  <1>2. CASE Panics
    BY <1>1, <1>2, PanicKeeps DEF Panics
  <1>3. CASE ~Panics
    <2>1. PICK p \in Pages :
            /\ Free(p)
            /\ fw' = Allocate({p})
            /\ ld' = [ld EXCEPT !.tables = {p}, !.mapped = 0 .. IDENTITY - 1,
                                !.file = "kernel", !.call = 1, !.keyValid = FALSE]
            /\ pc' = "load_file" /\ machine' = machine
      BY <1>3 DEF AllocTables
    <2>2. /\ fw' \in [owner : [Pages -> Owners], mode : Nat] /\ fw'.mode = fw.mode
          /\ Owned(fw', {p}) /\ \A T : Owned(fw, T) => Owned(fw', T)
      <3>1. \A q \in {p} : Free(q)
        BY <2>1
      <3> QED BY <2>1, <3>1, AllocateGives
    <2>3. 0 .. IDENTITY - 1 \in SUBSET Int
      BY BootAssumption
    <2>4. TypeOK'
      BY <2>1, <2>2, <2>3 DEF TypeOK, Loader
    <2>5. HeldFits'
      BY <1>1, <2>1 DEF TypeOK, Loader, HeldFits
    <2>6. LoadedOwned'
      <3>1. ld'.segment = ld.segment /\ ld'.call = 1
        BY <2>1 DEF TypeOK, Loader
      <3>2. \A k \in DOMAIN machine'.segments : k < ld'.segment => Owned(fw, SegmentPages(k))'
        BY <2>1, <2>2, <3>1 DEF LoadedOwned, SegmentPages
      <3>3. pc' = "load_file"
        BY <2>1
      <3>4. ~(ld'.call > 7)
        BY <3>1
      <3> QED BY <3>2, <3>3, <3>4 DEF LoadedOwned
    <2>7. BuffersOwned'
      BY <2>1, <2>2 DEF TypeOK, Loader, BuffersOwned
    <2>8. Mapped'
      BY <2>1 DEF TypeOK, Loader, Mapped
    <2>9. ModesDrawable' /\ InfoTrue'
      BY <2>1, <2>2 DEF TypeOK, Loader, ModesDrawable, Drawable, InfoTrue
    <2> QED BY <2>4, <2>5, <2>6, <2>7, <2>8, <2>9
  <1> QED BY <1>2, <1>3

\* load_file, at whichever call it is: what it holds is given back when it
\* ends, and the file's size is the one GetInfo told.
LEMMA LoadKeeps ==
    ASSUME IInv, LoadFails \/ LoadProceeds \/ LoadDone
    PROVE  IInv'
  <1> USE DEF IInv, AfterTables, AfterLoad, AfterSegments, AfterHandoff, AfterMap, Entered
  <1>1. /\ pc = "load_file" /\ ld.call \in 1 .. 10 /\ ld.file \in {"kernel", "ramdisk"}
        /\ "Handles" \notin ld.held /\ "Info" \notin ld.held /\ ld.held \subseteq Held
    BY DEF LoadFails, LoadProceeds, LoadDone, HeldFits, TypeOK, Loader
  <1>2. FilePages(ld.file) \in Nat
    BY <1>1, MachineTyped DEF FilePages
  <1>3. (ld.held \ Released(ld.call)) \cap Pools = {}
    <2>1. CASE ld.call <= 3
      BY <1>1, <2>1 DEF HeldFits
    <2>2. CASE ld.call = 4
      BY <1>1, <2>2 DEF HeldFits, Released
    <2>3. CASE ld.call >= 5
      BY <1>1, <2>3 DEF Released, Pools
    <2> QED BY <1>1, <2>1, <2>2, <2>3
  <1>4. CASE LoadFails
    <2> DEFINE z == [ld.size EXCEPT ![ld.file] = 0]
    <2>1. /\ pc' = "panic" /\ machine' = machine /\ fw' = fw
          /\ ld' = [ld EXCEPT !.held = ld.held \ Released(ld.call), !.size = z]
      BY <1>4 DEF LoadFails
    <2>2. z \in [{"kernel", "ramdisk"} -> Nat]
      BY DEF TypeOK, Loader
    <2> HIDE DEF z
    <2>3. TypeOK'
      BY <2>1, <2>2 DEF TypeOK, Loader
    <2>4. HeldFits'
      BY <1>1, <1>3, <2>1 DEF TypeOK, Loader, HeldFits
    <2>5. LoadedOwned' /\ BuffersOwned'
      BY <2>1 DEF TypeOK, Loader, LoadedOwned, SegmentPages, Owned, BuffersOwned
    <2>6. Mapped' /\ ModesDrawable' /\ InfoTrue'
      BY <2>1 DEF TypeOK, Loader, Mapped, ModesDrawable, Drawable, InfoTrue
    <2> QED BY <2>3, <2>4, <2>5, <2>6
  <1>5. CASE LoadProceeds
    <2> DEFINE z == [ld.size EXCEPT ![ld.file] = IF LoadCalls[ld.call].name = "GetInfo"
                                                 THEN FilePages(ld.file) ELSE @]
               h == ld.held \cup LoadCalls[ld.call].gives
    <2>1. /\ pc' = "load_file" /\ machine' = machine /\ fw' = fw
          /\ ld' = [ld EXCEPT !.held = h, !.call = ld.call + 1, !.size = z]
      BY <1>5 DEF LoadProceeds, Does
    <2>2. ld.call \in 1 .. 9 /\ (ld.call = 7 => FilePages(ld.file) > 0)
      BY <1>1, <1>5, LoadCallsFacts DEF LoadProceeds
    <2>3. z \in [{"kernel", "ramdisk"} -> Nat]
      BY <1>1, <1>2 DEF TypeOK, Loader
    <2>4. z[ld.file] = IF ld.call = 7 THEN FilePages(ld.file) ELSE ld.size[ld.file]
      BY <1>1, LoadCallsFacts DEF TypeOK, Loader
    <2>5. h \subseteq Held /\ "Handles" \notin h /\ "Info" \notin h
      <3>1. LoadCalls[ld.call].gives \subseteq Pools
        BY <1>1, LoadCallsFacts
      <3> QED BY <1>1, <3>1 DEF Held, Pools
    <2>6. \A x \in Pools \cap h : ld.call + 1 >= (IF x = "root" THEN 4 ELSE 5)
      <3>1. CASE ld.call < 3
        BY <1>1, <3>1, LoadCallsFacts DEF HeldFits
      <3>2. CASE ld.call = 3
        BY <1>1, <3>2, LoadCallsFacts DEF HeldFits
      <3>3. CASE ld.call > 3
        BY <1>1, <3>3
      <3> QED BY <1>1, <3>1, <3>2, <3>3
    <2> HIDE DEF z, h
    <2>7. TypeOK'
      <3>1. ld' \in Loader
        <4>1. ld.call + 1 \in Nat /\ h \in SUBSET Held
          BY <1>1, <2>5
        <4> QED BY <2>1, <2>3, <4>1 DEF TypeOK, Loader
      <3> QED BY <2>1, <3>1 DEF TypeOK
    <2>8. HeldFits'
      BY <1>1, <2>1, <2>2, <2>5, <2>6, SMTT(30) DEF TypeOK, Loader, HeldFits
    <2>9. LoadedOwned'
      <3>1. /\ ld'.call = ld.call + 1 /\ ld'.file = ld.file /\ ld'.size = z
            /\ ld'.segment = ld.segment
        BY <2>1 DEF TypeOK, Loader
      <3>2. ld'.call > 7 => FilePages(ld.file) > 0 /\ z[ld.file] = FilePages(ld.file)
        BY <1>1, <2>2, <2>4, <3>1 DEF LoadedOwned
      <3> QED BY <1>1, <2>1, <3>1, <3>2 DEF LoadedOwned, Owned, SegmentPages, FilePages
    <2>10. BuffersOwned' /\ Mapped' /\ ModesDrawable' /\ InfoTrue'
      BY <1>1, <2>1 DEF TypeOK, Loader, BuffersOwned, Owned, Mapped, ModesDrawable, Drawable, InfoTrue
    <2> QED BY <2>7, <2>8, <2>9, <2>10
  <1>6. CASE LoadDone
    <2> DEFINE h == ld.held \ Released(ld.call)
    <2>1. ld.call = 10 /\ machine' = machine /\ fw' = Allocate(LoadedAt(ld.file))
      BY <1>6, LoadCallsFacts DEF LoadDone
    <2>2. fw' \in [owner : [Pages -> Owners], mode : Nat] /\ fw'.mode = fw.mode
      BY <1>6, AllocateGives DEF LoadDone
    <2>3. Owned(fw', LoadedAt(ld.file)) /\ \A T : Owned(fw, T) => Owned(fw', T)
      BY <1>6, AllocateGives DEF LoadDone
    <2>4. FilePages(ld.file) > 0 /\ ld.size[ld.file] = FilePages(ld.file)
      BY <1>1, <2>1 DEF LoadedOwned
    <2>5. h \subseteq Held /\ h \cap Pools = {} /\ "Handles" \notin h /\ "Info" \notin h
      BY <1>1, <1>3 DEF TypeOK, Loader
    <2>6. PICK f \in {"none", "ramdisk"}, c \in {0, 1} :
            /\ ld' = [ld EXCEPT !.held = h, !.keyValid = FALSE, !.file = f, !.call = c]
            /\ \/ ld.file = "kernel" /\ pc' = "load_file" /\ f = "ramdisk" /\ c = 1
               \/ ld.file = "ramdisk" /\ pc' = "elf"
      BY <1>6 DEF LoadDone
    <2> HIDE DEF h
    <2>7. /\ ld'.held = h /\ ld'.keyValid = FALSE /\ ld'.file = f /\ ld'.call = c
          /\ ld'.segment = ld.segment /\ ld'.size = ld.size /\ ld'.mapped = ld.mapped
          /\ ld'.tables = ld.tables /\ ld'.bootInfo = ld.bootInfo /\ ld'.mapBuffer = ld.mapBuffer
          /\ ld'.foundMode = ld.foundMode /\ ld'.choosenMode = ld.choosenMode
      BY <2>6 DEF TypeOK, Loader
    <2>8. TypeOK'
      <3>1. ld' \in Loader
        <4>1. c \in Nat /\ f \in {"none", "kernel", "ramdisk"} /\ h \in SUBSET Held
          BY <2>5
        <4> QED BY <2>6, <4>1 DEF TypeOK, Loader
      <3> QED BY <2>1, <2>2, <3>1 DEF TypeOK
    <2>9. HeldFits'
      BY <2>5, <2>6, <2>7 DEF HeldFits
    <2>10. LoadedOwned'
      <3>1. \A k \in DOMAIN machine'.segments : k < ld'.segment => Owned(fw, SegmentPages(k))'
        BY <2>1, <2>3, <2>7 DEF LoadedOwned, SegmentPages
      <3>2. CASE pc' = "load_file"
        BY <2>6, <2>7, <3>1, <3>2 DEF LoadedOwned
      <3>3. CASE pc' = "elf"
        <4>1. ld.file = "ramdisk"
          BY <2>6, <3>3
        <4>2. machine.ramdisk > 0 /\ ld.size["ramdisk"] = machine.ramdisk
          BY <2>4, <4>1 DEF FilePages
        <4>3. Owned(fw', LoadedAt("ramdisk")')
          BY <2>1, <2>3, <4>1 DEF LoadedAt, FilePages
        <4> QED BY <2>1, <2>7, <3>1, <3>3, <4>2, <4>3 DEF LoadedOwned
      <3> QED BY <2>6, <3>2, <3>3
    <2>11. BuffersOwned' /\ Mapped'
      BY <1>1, <2>1, <2>3, <2>6, <2>7 DEF BuffersOwned, Mapped
    <2>12. ModesDrawable' /\ InfoTrue'
      BY <1>1, <2>1, <2>2, <2>6, <2>7 DEF ModesDrawable, Drawable, InfoTrue
    <2> QED BY <2>8, <2>9, <2>10, <2>11, <2>12
  <1> QED BY <1>4, <1>5, <1>6

\* Loading a segment, and the end of the loop over the program headers.
LEMMA SegmentsKeep ==
    ASSUME IInv, CheckElf \/ LoadSegment \/ SegmentsDone
    PROVE  IInv'
  <1> USE DEF IInv, AfterTables, AfterLoad, AfterSegments, AfterHandoff, AfterMap, Entered
  <1>1. pc \in {"elf", "segments"}
    BY DEF CheckElf, LoadSegment, SegmentsDone
  <1>2. CASE Panics
    BY <1>1, <1>2, PanicKeeps DEF Panics
  <1>3. CASE ~Panics /\ (CheckElf \/ SegmentsDone)
    <2>1. /\ UNCHANGED <<machine, fw, ld>>
          /\ \/ pc' = "segments"
             \/ pc = "segments" /\ pc' = "edid" /\ ld.segment > Len(machine.segments)
      BY <1>3 DEF CheckElf, SegmentsDone, Does
    <2>2. TypeOK' /\ HeldFits'
      BY <1>1, <2>1 DEF TypeOK, HeldFits
    <2>3. LoadedOwned'
      BY <1>1, <2>1 DEF LoadedOwned, SegmentPages, Owned, LoadedAt, FilePages
    <2>4. BuffersOwned' /\ Mapped' /\ ModesDrawable' /\ InfoTrue'
      BY <1>1, <2>1 DEF BuffersOwned, Owned, Mapped, ModesDrawable, Drawable, InfoTrue
    <2> QED BY <2>2, <2>3, <2>4
  <1>4. CASE ~Panics /\ LoadSegment
    <2> DEFINE seg == machine.segments[ld.segment]
               where == Span(seg.start, seg.pages)
               low == IF seg.start < ld.phys_start THEN seg.start ELSE ld.phys_start
               high == IF seg.start + seg.pages > ld.phys_end THEN seg.start + seg.pages ELSE ld.phys_end
    <2>1. /\ pc = "segments" /\ pc' = "segments" /\ machine' = machine
          /\ ld.segment <= Len(machine.segments)
          /\ \A p \in where : Free(p)
          /\ fw' = Allocate(where)
          /\ ld' = [ld EXCEPT !.segment = ld.segment + 1, !.keyValid = FALSE,
                              !.phys_start = low, !.phys_end = high]
      BY <1>4 DEF LoadSegment
    <2>2. fw' \in [owner : [Pages -> Owners], mode : Nat] /\ fw'.mode = fw.mode
      BY <2>1, AllocateGives
    <2>3. Owned(fw', where) /\ \A T : Owned(fw, T) => Owned(fw', T)
      BY <2>1, AllocateGives
    <2>4. ld.segment \in Nat \ {0} /\ ld.phys_start \in Nat /\ ld.phys_end \in Nat
      BY DEF TypeOK, Loader
    <2>5. low \in Nat /\ high \in Nat
      <3>1. ld.segment \in DOMAIN machine.segments
        BY <2>1, <2>4, MachineTyped
      <3>2. seg \in Area
        BY <3>1, MachineTyped
      <3>3. seg.start \in Nat /\ seg.pages \in Nat
        BY <3>2 DEF Area
      <3> QED BY <2>4, <3>3
    <2> HIDE DEF low, high
    <2>6. /\ ld'.segment = ld.segment + 1 /\ ld'.keyValid = FALSE
          /\ ld'.held = ld.held /\ ld'.call = ld.call /\ ld'.file = ld.file
          /\ ld'.size = ld.size /\ ld'.mapped = ld.mapped
          /\ ld'.tables = ld.tables /\ ld'.bootInfo = ld.bootInfo /\ ld'.mapBuffer = ld.mapBuffer
          /\ ld'.foundMode = ld.foundMode /\ ld'.choosenMode = ld.choosenMode
      BY <2>1 DEF TypeOK, Loader
    <2>7. TypeOK'
      <3>1. ld.segment + 1 \in Nat \ {0}
        BY <2>4
      <3>2. ld' \in Loader
        BY <2>1, <2>5, <3>1 DEF TypeOK, Loader
      <3> QED BY <2>1, <2>2, <3>2 DEF TypeOK
    <2>8. HeldFits'
      BY <2>1, <2>6 DEF HeldFits
    <2>9. LoadedOwned'
      <3>1. ASSUME NEW k \in DOMAIN machine.segments, k < ld.segment + 1
            PROVE  Owned(fw', SegmentPages(k))
        <4>1. CASE k = ld.segment
          BY <2>3, <4>1 DEF SegmentPages
        <4>2. CASE k < ld.segment
          BY <2>3, <4>2 DEF LoadedOwned
        <4> QED BY <2>4, <3>1, <4>1, <4>2, MachineTyped
      <3>2. \A k \in DOMAIN machine'.segments : k < ld'.segment => Owned(fw, SegmentPages(k))'
        BY <2>1, <2>6, <3>1 DEF SegmentPages
      <3>3. Owned(fw', LoadedAt("ramdisk")')
        BY <2>1, <2>3 DEF LoadedOwned, LoadedAt, FilePages
      <3>4. pc = "segments" /\ pc' = "segments" /\ machine' = machine
        BY <2>1
      <3> QED BY <2>6, <3>2, <3>3, <3>4 DEF LoadedOwned
    <2>10. BuffersOwned' /\ Mapped'
      BY <2>1, <2>3, <2>6 DEF BuffersOwned, Mapped
    <2>11. ModesDrawable' /\ InfoTrue'
      BY <2>1, <2>2, <2>6 DEF ModesDrawable, Drawable, InfoTrue
    <2> QED BY <2>7, <2>8, <2>9, <2>10, <2>11
  <1> QED BY <1>2, <1>3, <1>4

\* A step between the EDID and SetMode that leaves a drawable choice keeps the
\* invariant.
LEMMA ModeStepKeeps ==
    ASSUME IInv, pc \in {"edid", "gop_pick", "gop_info", "key", "set_mode"},
           pc' \in {"gop_pick", "gop_info", "key", "set_mode", "map_handoff"}, machine' = machine,
           NEW mode \in Nat, fw' = [fw EXCEPT !.mode = mode], Drawable(mode),
           NEW n \in Nat, NEW c \in Nat, NEW b \in BOOLEAN, NEW s \in BOOLEAN,
           NEW h \in SUBSET Held, h \ {"Info"} \subseteq ld.held, "Info" \in h => pc' = "gop_info",
           ld' = [ld EXCEPT !.i = n, !.choosenMode = c, !.foundMode = b, !.skip_monitor = s, !.held = h],
           b => Drawable(c), pc' \in {"key", "set_mode"} => b
    PROVE  IInv'
  <1> USE DEF IInv, AfterTables, AfterLoad, AfterSegments, AfterHandoff, AfterMap, Entered
  <1>1. fw'.mode = mode /\ fw'.owner = fw.owner /\ fw' \in [owner : [Pages -> Owners], mode : Nat]
    BY DEF TypeOK
  <1>2. /\ ld'.choosenMode = c /\ ld'.foundMode = b
        /\ ld'.held = h /\ ld'.call = ld.call /\ ld'.file = ld.file
        /\ ld'.size = ld.size /\ ld'.mapped = ld.mapped /\ ld'.segment = ld.segment
        /\ ld'.tables = ld.tables /\ ld'.bootInfo = ld.bootInfo /\ ld'.mapBuffer = ld.mapBuffer
        /\ ld'.map = ld.map /\ ld'.keyValid = ld.keyValid
    BY DEF TypeOK, Loader
  <1>3. TypeOK'
    <2>1. ld' \in Loader
      BY DEF TypeOK, Loader
    <2> QED BY <1>1, <2>1 DEF TypeOK
  <1>4. HeldFits'
    BY <1>2 DEF HeldFits, Pools
  <1>5. LoadedOwned'
    BY <1>1, <1>2 DEF LoadedOwned, Owned, SegmentPages, LoadedAt, FilePages
  <1>6. BuffersOwned' /\ Mapped'
    BY <1>1, <1>2 DEF BuffersOwned, Owned, Mapped
  <1>7. ModesDrawable'
    BY <1>1, <1>2 DEF ModesDrawable, Drawable
  <1>8. InfoTrue'
    BY <1>1, <1>2 DEF InfoTrue
  <1> QED BY <1>3, <1>4, <1>5, <1>6, <1>7, <1>8

\* The graphics mode: the steps from the EDID to SetMode.
LEMMA ModeKeeps ==
    ASSUME IInv, ReadEdid \/ QueryMode \/ PickMode \/ ModePicked \/ KeyPressed \/ SetMode
    PROVE  IInv'
  <1>1. pc \in {"edid", "gop_pick", "gop_info", "key", "set_mode"}
    BY DEF ReadEdid, QueryMode, PickMode, ModePicked, KeyPressed, SetMode
  <1>2. /\ ld.i \in Nat /\ ld.choosenMode \in Nat /\ ld.foundMode \in BOOLEAN
        /\ ld.skip_monitor \in BOOLEAN /\ fw.mode \in Nat /\ ld.held \in SUBSET Held
    BY DEF IInv, TypeOK, Loader
  <1>3. /\ Drawable(fw.mode) /\ (ld.foundMode => Drawable(ld.choosenMode))
        /\ pc \in {"key", "set_mode"} => ld.foundMode
    BY DEF IInv, ModesDrawable
  <1>4. fw = [fw EXCEPT !.mode = fw.mode]
    BY DEF IInv, TypeOK
  <1>5. ld.held \ {"Info"} \subseteq ld.held /\ ("Info" \in ld.held => pc = "gop_info")
    BY DEF IInv, HeldFits
  <1>6. PICK h : h = ld.held
    OBVIOUS
  <1>7. CASE Panics /\ (ReadEdid \/ ModePicked)
    <2>1. pc \in {"edid", "gop_pick"}
      BY <1>7 DEF ReadEdid, ModePicked
    <2> QED BY <1>7, <2>1, PanicKeeps DEF Panics
  <1>8. CASE ~Panics /\ ReadEdid
    <2> DEFINE skip == (machine.edid = "none")
    <2>1. /\ pc' = "gop_pick" /\ fw' = fw /\ machine' = machine
          /\ ld' = [ld EXCEPT !.skip_monitor = skip]
      BY <1>8 DEF ReadEdid, Does
    <2>2. skip \in BOOLEAN
      OBVIOUS
    <2> HIDE DEF skip
    <2>3. ld' = [ld EXCEPT !.i = ld.i, !.choosenMode = ld.choosenMode, !.foundMode = ld.foundMode,
                           !.skip_monitor = skip, !.held = h]
      BY <1>6, <2>1, <2>2 DEF IInv, TypeOK, Loader
    <2>4. fw' = [fw EXCEPT !.mode = fw.mode]
      BY <1>4, <2>1
    <2>5. h \in SUBSET Held /\ h \ {"Info"} \subseteq ld.held /\ "Info" \notin h
      BY <1>2, <1>5, <1>6, <1>8 DEF ReadEdid
    <2>6. pc' = "gop_pick" /\ machine' = machine
      BY <2>1
    <2> QED BY <1>1, <1>2, <1>3, <2>2, <2>3, <2>4, <2>5, <2>6, ModeStepKeeps
  <1>9. CASE QueryMode
    <2>1. /\ fw' = fw /\ machine' = machine
          /\ \/ pc' = "gop_pick" /\ ld' = [ld EXCEPT !.i = ld.i + 1]
             \/ pc' = "gop_info" /\ ld' = [ld EXCEPT !.held = ld.held \cup {"Info"}]
      BY <1>9 DEF QueryMode, Does
    <2>2. PICK n \in Nat, g \in SUBSET Held :
            /\ ld' = [ld EXCEPT !.i = n, !.choosenMode = ld.choosenMode, !.foundMode = ld.foundMode,
                                !.skip_monitor = ld.skip_monitor, !.held = g]
            /\ g \ {"Info"} \subseteq ld.held /\ ("Info" \in g => pc' = "gop_info")
      <3>1. "Info" \notin ld.held
        BY <1>5, <1>9 DEF QueryMode
      <3>2. CASE ld' = [ld EXCEPT !.i = ld.i + 1]
        <4>1. ld' = [ld EXCEPT !.i = ld.i + 1, !.choosenMode = ld.choosenMode,
                               !.foundMode = ld.foundMode, !.skip_monitor = ld.skip_monitor,
                               !.held = ld.held]
          BY <3>2 DEF IInv, TypeOK, Loader
        <4>2. ld.i + 1 \in Nat
          BY <1>2
        <4> QED BY <1>2, <1>5, <3>1, <4>1, <4>2
      <3>3. CASE pc' = "gop_info" /\ ld' = [ld EXCEPT !.held = ld.held \cup {"Info"}]
        <4>1. ld' = [ld EXCEPT !.i = ld.i, !.choosenMode = ld.choosenMode,
                               !.foundMode = ld.foundMode, !.skip_monitor = ld.skip_monitor,
                               !.held = ld.held \cup {"Info"}]
          BY <3>3 DEF IInv, TypeOK, Loader
        <4>2. ld.held \cup {"Info"} \in SUBSET Held /\ (ld.held \cup {"Info"}) \ {"Info"} \subseteq ld.held
          BY <1>2 DEF Held
        <4> QED BY <1>2, <3>3, <4>1, <4>2
      <3> QED BY <2>1, <3>2, <3>3
    <2>3. fw' = [fw EXCEPT !.mode = fw.mode] /\ pc' \in {"gop_pick", "gop_info"} /\ machine' = machine
      BY <1>4, <2>1
    <2> QED BY <1>1, <1>2, <1>3, <2>2, <2>3, ModeStepKeeps
  <1>10. CASE PickMode
    <2> DEFINE mode == machine.modes[ld.i]
               exact == ~ld.skip_monitor /\ mode.resolution = machine.edid
               stops == Usable(mode) /\ (exact \/ mode.resolution = "1920x1080")
               takes == Usable(mode) /\ (stops \/ ~ld.foundMode)
               n == IF stops THEN Len(machine.modes) + 1 ELSE ld.i + 1
               c == IF takes THEN ld.i ELSE ld.choosenMode
               b == ld.foundMode \/ Usable(mode)
               g == ld.held \ {"Info"}
    <2>1. /\ pc' = "gop_pick" /\ fw' = fw /\ machine' = machine
          /\ ld' = [ld EXCEPT !.i = n, !.foundMode = b, !.choosenMode = c, !.held = g]
      BY <1>10 DEF PickMode, Does
    <2>2. n \in Nat /\ c \in Nat /\ b \in BOOLEAN
      BY <1>2, MachineTyped DEF IInv
    <2>3. b => Drawable(c)
      BY <1>3 DEF Drawable
    <2>4. fw' = [fw EXCEPT !.mode = fw.mode]
      BY <1>4, <2>1
    <2>5. pc' = "gop_pick" /\ machine' = machine
      BY <2>1
    <2>6. g \in SUBSET Held /\ g \ {"Info"} \subseteq ld.held /\ "Info" \notin g
      BY <1>2
    <2> HIDE DEF n, c, b, g
    <2>7. ld' = [ld EXCEPT !.i = n, !.choosenMode = c, !.foundMode = b,
                           !.skip_monitor = ld.skip_monitor, !.held = g]
      BY <2>1 DEF IInv, TypeOK, Loader
    <2> QED BY <1>1, <1>2, <1>3, <2>2, <2>3, <2>4, <2>5, <2>6, <2>7, ModeStepKeeps
  <1>11. CASE ~Panics /\ ModePicked
    <2> DEFINE c == IF ld.skip_monitor THEN fw.mode ELSE ld.choosenMode
    <2>1. /\ pc' = "key" /\ fw' = fw /\ machine' = machine /\ ld.foundMode
          /\ ld' = [ld EXCEPT !.choosenMode = c]
      BY <1>11 DEF ModePicked, Does
    <2>2. c \in Nat /\ Drawable(c)
      BY <1>2, <1>3, <2>1
    <2> HIDE DEF c
    <2>3. ld' = [ld EXCEPT !.i = ld.i, !.choosenMode = c, !.foundMode = ld.foundMode,
                           !.skip_monitor = ld.skip_monitor, !.held = h]
      BY <1>6, <2>1 DEF IInv, TypeOK, Loader
    <2>4. fw' = [fw EXCEPT !.mode = fw.mode]
      BY <1>4, <2>1
    <2>5. h \in SUBSET Held /\ h \ {"Info"} \subseteq ld.held /\ "Info" \notin h
      BY <1>2, <1>5, <1>6, <1>11 DEF ModePicked
    <2> QED BY <1>1, <1>2, <1>3, <2>1, <2>2, <2>3, <2>4, <2>5, ModeStepKeeps
  <1>12. CASE KeyPressed \/ SetMode
    <2>1. PICK mode \in {fw.mode, ld.choosenMode} : fw' = [fw EXCEPT !.mode = mode]
      BY <1>4, <1>12 DEF SetMode, KeyPressed, Does
    <2>2. mode \in Nat /\ Drawable(mode)
      BY <1>2, <1>3, <1>12 DEF SetMode, KeyPressed
    <2>3. ld' = [ld EXCEPT !.i = ld.i, !.choosenMode = ld.choosenMode, !.foundMode = ld.foundMode,
                           !.skip_monitor = ld.skip_monitor, !.held = h]
      BY <1>6, <1>12 DEF SetMode, KeyPressed, Does, IInv, TypeOK, Loader
    <2>4. pc' \in {"set_mode", "map_handoff"} /\ machine' = machine /\ ld.foundMode
      BY <1>3, <1>12 DEF SetMode, KeyPressed, Does
    <2>5. h \in SUBSET Held /\ h \ {"Info"} \subseteq ld.held /\ "Info" \notin h
      BY <1>2, <1>5, <1>6, <1>12 DEF SetMode, KeyPressed
    <2> QED BY <1>1, <1>2, <1>3, <2>1, <2>2, <2>3, <2>4, <2>5, ModeStepKeeps
  <1> QED BY <1>7, <1>8, <1>9, <1>10, <1>11, <1>12

\* The range check of map_handoff_range and the identity map leave no page of
\* a range out.
LEMMA HandoffCovers ==
    ASSUME NEW r \in Area
    PROVE  \A p \in Span(r.start, r.pages) : p \in 0 .. IDENTITY - 1 \/ p \in map_handoff_range(r)
  BY BootAssumption DEF Area, Span, map_handoff_range

\* A step between SetMode and the memory map that takes the pages S for its
\* tables t and its buffers bi and mb, and maps at least what was mapped.
BufferStep(S, t, bi, mb, kv, m) ==
    /\ pc \in {"map_handoff", "boot_info", "map_buffer"}
    /\ pc' \in {"boot_info", "map_buffer", "get_map"}
    /\ machine' = machine
    /\ fw' \in [owner : [Pages -> Owners], mode : Nat] /\ fw'.mode = fw.mode
    /\ Owned(fw', S) /\ \A T : Owned(fw, T) => Owned(fw', T)
    /\ t \in SUBSET Pages /\ t \subseteq ld.tables \cup S
    /\ bi \in SUBSET Pages /\ bi \subseteq ld.bootInfo \cup S
    /\ mb \in SUBSET Pages /\ mb \subseteq ld.mapBuffer \cup S
    /\ \A p \in bi \cup mb : p < FOUR_GIB
    /\ kv \in BOOLEAN /\ (kv => fw' = fw /\ ld.keyValid)
    /\ m \in SUBSET Int /\ ld.mapped \subseteq m
    /\ \A r \in {machine.image, machine.stack, machine.framebuffer} :
          Span(r.start, r.pages) \subseteq m
    /\ ld' = [ld EXCEPT !.tables = t, !.bootInfo = bi, !.mapBuffer = mb, !.mapped = m,
                        !.keyValid = kv]

\* Such a step keeps the invariant.
LEMMA BufferStepKeeps ==
    ASSUME IInv, NEW S, NEW t, NEW bi, NEW mb, NEW kv, NEW m, BufferStep(S, t, bi, mb, kv, m)
    PROVE  IInv'
  <1> USE DEF IInv, AfterTables, AfterLoad, AfterSegments, AfterHandoff, AfterMap, Entered, BufferStep
  <1>1. /\ ld'.tables = t /\ ld'.bootInfo = bi /\ ld'.mapBuffer = mb /\ ld'.mapped = m
        /\ ld'.keyValid = kv /\ ld'.map = ld.map
        /\ ld'.held = ld.held /\ ld'.call = ld.call /\ ld'.file = ld.file
        /\ ld'.size = ld.size /\ ld'.segment = ld.segment
        /\ ld'.foundMode = ld.foundMode /\ ld'.choosenMode = ld.choosenMode
    BY DEF TypeOK, Loader
  <1>2. TypeOK'
    <2>1. ld' \in Loader
      BY DEF TypeOK, Loader
    <2> QED BY <2>1 DEF TypeOK
  <1>3. HeldFits'
    BY <1>1 DEF HeldFits
  <1>4. LoadedOwned'
    <2>1. \A k \in DOMAIN machine'.segments : k < ld'.segment => Owned(fw, SegmentPages(k))'
      BY <1>1 DEF LoadedOwned, SegmentPages
    <2>2. Owned(fw', LoadedAt("ramdisk")')
      BY DEF LoadedOwned, LoadedAt, FilePages
    <2> QED BY <1>1, <2>1, <2>2 DEF LoadedOwned
  <1>5. BuffersOwned'
    <2>1. Owned(fw', ld.tables) /\ Owned(fw', ld.bootInfo) /\ Owned(fw', ld.mapBuffer)
      BY DEF BuffersOwned
    <2> QED BY <1>1, <2>1 DEF BuffersOwned, Owned
  <1>6. Mapped'
    BY <1>1 DEF Mapped
  <1>7. ModesDrawable' /\ InfoTrue'
    BY <1>1 DEF ModesDrawable, Drawable, InfoTrue
  <1> QED BY <1>2, <1>3, <1>4, <1>5, <1>6, <1>7

\* The hand-over: the ranges the loader runs in and the frame buffer are
\* mapped before BootInfo and the map buffer are allocated.
LEMMA HandoffKeeps ==
    ASSUME IInv, MapHandoff \/ AllocBootInfo \/ AllocMapBuffer
    PROVE  IInv'
  <1> DEFINE ranges == {machine.image, machine.stack, machine.framebuffer}
             far == UNION {map_handoff_range(r) : r \in ranges}
             m == ld.mapped \cup far
  <1>1. pc \in {"map_handoff", "boot_info", "map_buffer"}
    BY DEF MapHandoff, AllocBootInfo, AllocMapBuffer
  <1>2. /\ ld.tables \in SUBSET Pages /\ ld.bootInfo \in SUBSET Pages
        /\ ld.mapBuffer \in SUBSET Pages /\ ld.mapped \in SUBSET Int /\ ld.keyValid \in BOOLEAN
        /\ \A p \in ld.bootInfo \cup ld.mapBuffer : p < FOUR_GIB
        /\ fw \in [owner : [Pages -> Owners], mode : Nat]
    BY DEF IInv, TypeOK, Loader, BuffersOwned
  <1>3. \A p \in Pages : Free(p) /\ fw' = Allocate({p}) =>
            /\ fw' \in [owner : [Pages -> Owners], mode : Nat] /\ fw'.mode = fw.mode
            /\ Owned(fw', {p}) /\ \A T : Owned(fw, T) => Owned(fw', T)
    <2> SUFFICES ASSUME NEW p \in Pages, Free(p), fw' = Allocate({p})
                 PROVE  /\ fw' \in [owner : [Pages -> Owners], mode : Nat] /\ fw'.mode = fw.mode
                        /\ Owned(fw', {p}) /\ \A T : Owned(fw, T) => Owned(fw', T)
      OBVIOUS
    <2>1. \A q \in {p} : Free(q)
      OBVIOUS
    <2> QED BY <2>1, AllocateGives DEF IInv
  <1>4. CASE Panics
    BY <1>1, <1>4, PanicKeeps DEF Panics
  <1>5. CASE ~Panics /\ MapHandoff
    <2>1. \A r \in ranges : map_handoff_range(r) \subseteq Int
      BY MachineTyped DEF IInv, map_handoff_range, Span, Area
    <2>2. m \in SUBSET Int /\ ld.mapped \subseteq m
      BY <1>2, <2>1
    <2>3. \A r \in ranges : Span(r.start, r.pages) \subseteq m
      <3> SUFFICES ASSUME NEW r \in ranges, NEW p \in Span(r.start, r.pages) PROVE p \in m
        OBVIOUS
      <3>1. p \in 0 .. IDENTITY - 1 \/ p \in map_handoff_range(r)
        BY MachineTyped, HandoffCovers DEF IInv
      <3>2. 0 .. IDENTITY - 1 \subseteq ld.mapped
        BY <1>5 DEF MapHandoff, IInv, Mapped, AfterTables, AfterLoad, AfterSegments
      <3> QED BY <3>1, <3>2
    <2>4. /\ pc' = "boot_info" /\ machine' = machine
          /\ \/ fw' = fw /\ ld' = [ld EXCEPT !.mapped = m]
             \/ \E p \in Pages : /\ Free(p) /\ fw' = Allocate({p})
                                 /\ ld' = [ld EXCEPT !.mapped = m, !.tables = @ \cup {p},
                                                     !.keyValid = FALSE]
      BY <1>5 DEF MapHandoff, Does
    <2> HIDE DEF m, ranges
    <2>5. CASE fw' = fw /\ ld' = [ld EXCEPT !.mapped = m]
      <3>1. ld' = [ld EXCEPT !.tables = ld.tables, !.bootInfo = ld.bootInfo,
                             !.mapBuffer = ld.mapBuffer, !.mapped = m, !.keyValid = ld.keyValid]
        BY <2>2, <2>5 DEF IInv, TypeOK, Loader
      <3>2. Owned(fw', {}) /\ \A T : Owned(fw, T) => Owned(fw', T)
        BY <2>5 DEF Owned
      <3>3. BufferStep({}, ld.tables, ld.bootInfo, ld.mapBuffer, ld.keyValid, m)
        BY <1>1, <1>2, <2>2, <2>3, <2>4, <2>5, <3>1, <3>2 DEF ranges, BufferStep
      <3> QED BY <3>3, BufferStepKeeps
    <2>6. CASE \E p \in Pages : /\ Free(p) /\ fw' = Allocate({p})
                                /\ ld' = [ld EXCEPT !.mapped = m, !.tables = @ \cup {p},
                                                    !.keyValid = FALSE]
      <3>1. PICK p \in Pages : /\ Free(p) /\ fw' = Allocate({p})
                               /\ ld' = [ld EXCEPT !.mapped = m, !.tables = @ \cup {p},
                                                   !.keyValid = FALSE]
        BY <2>6
      <3> DEFINE t == ld.tables \cup {p}
      <3>2. t \in SUBSET Pages /\ t \subseteq ld.tables \cup {p} /\ {p} \in SUBSET Pages
        BY <1>2
      <3>3. ld' = [ld EXCEPT !.tables = t, !.bootInfo = ld.bootInfo,
                             !.mapBuffer = ld.mapBuffer, !.mapped = m, !.keyValid = FALSE]
        BY <2>2, <3>1, <3>2 DEF IInv, TypeOK, Loader
      <3> HIDE DEF t
      <3>4. BufferStep({p}, t, ld.bootInfo, ld.mapBuffer, FALSE, m)
        BY <1>1, <1>2, <1>3, <2>2, <2>3, <2>4, <3>1, <3>2, <3>3 DEF ranges, BufferStep
      <3> QED BY <3>4, BufferStepKeeps
    <2> QED BY <2>4, <2>5, <2>6
  <1>6. CASE ~Panics /\ (AllocBootInfo \/ AllocMapBuffer)
    <2>1. PICK p \in Pages :
            /\ Free(p) /\ p < FOUR_GIB /\ fw' = Allocate({p})
            /\ \/ ld' = [ld EXCEPT !.bootInfo = {p}, !.keyValid = FALSE]
               \/ ld' = [ld EXCEPT !.mapBuffer = {p}, !.keyValid = FALSE]
      BY <1>6 DEF AllocBootInfo, AllocMapBuffer
    <2>2. pc' \in {"map_buffer", "get_map"} /\ machine' = machine /\ {p} \in SUBSET Pages
      BY <1>6 DEF AllocBootInfo, AllocMapBuffer
    <2>3. \A r \in ranges : Span(r.start, r.pages) \subseteq ld.mapped
      BY <1>6 DEF AllocBootInfo, AllocMapBuffer, IInv, Mapped, AfterHandoff
    <2> HIDE DEF ranges
    <2>4. CASE ld' = [ld EXCEPT !.bootInfo = {p}, !.keyValid = FALSE]
      <3>1. ld' = [ld EXCEPT !.tables = ld.tables, !.bootInfo = {p},
                             !.mapBuffer = ld.mapBuffer, !.mapped = ld.mapped, !.keyValid = FALSE]
        BY <2>4 DEF IInv, TypeOK, Loader
      <3>2. BufferStep({p}, ld.tables, {p}, ld.mapBuffer, FALSE, ld.mapped)
        BY <1>1, <1>2, <1>3, <2>1, <2>2, <2>3, <3>1 DEF ranges, BufferStep
      <3> QED BY <3>2, BufferStepKeeps
    <2>5. CASE ld' = [ld EXCEPT !.mapBuffer = {p}, !.keyValid = FALSE]
      <3>1. ld' = [ld EXCEPT !.tables = ld.tables, !.bootInfo = ld.bootInfo,
                             !.mapBuffer = {p}, !.mapped = ld.mapped, !.keyValid = FALSE]
        BY <2>5 DEF IInv, TypeOK, Loader
      <3>2. BufferStep({p}, ld.tables, ld.bootInfo, {p}, FALSE, ld.mapped)
        BY <1>1, <1>2, <1>3, <2>1, <2>2, <2>3, <3>1 DEF ranges, BufferStep
      <3> QED BY <3>2, BufferStepKeeps
    <2> QED BY <2>1, <2>4, <2>5
  <1> QED BY <1>4, <1>5, <1>6

\* Reading the memory map, for the first time or again, makes buffer, key and
\* BootInfo agree with the firmware.
LEMMA MapKeeps ==
    ASSUME IInv, GetMap \/ RefreshMap
    PROVE  IInv'
  <1> USE DEF IInv, AfterTables, AfterLoad, AfterSegments, AfterHandoff, AfterMap, Entered
  <1> DEFINE rd == Span(RAMDISK_AT, ld.size["ramdisk"])
             kn == ld.phys_start .. ld.phys_end - 1
             new == [map_size |-> MapSize(fw.owner), mode |-> fw.mode, initramfs |-> rd, kernel |-> kn]
  <1>1. pc \in {"get_map", "refresh"}
    BY DEF GetMap, RefreshMap
  <1>2. CASE Panics
    BY <1>1, <1>2, PanicKeeps DEF Panics
  <1>3. CASE ~Panics
    <2>1. /\ pc' = "exit" /\ machine' = machine /\ fw' = fw
          /\ ld' = [ld EXCEPT !.map = fw.owner, !.keyValid = TRUE, !.info = new]
      <3>1. CASE GetMap
        BY <1>3, <3>1 DEF GetMap, Does
      <3>2. CASE RefreshMap
        <4>1. ld.info = [map_size |-> MapSize(ld.map), mode |-> fw.mode, initramfs |-> rd, kernel |-> kn]
          BY <3>2 DEF RefreshMap, InfoTrue
        <4>2. RefreshedInfo = new
          BY <4>1 DEF RefreshedInfo
        <4> HIDE DEF new
        <4> QED BY <1>3, <3>2, <4>2 DEF RefreshMap, Does
      <3> QED BY <3>1, <3>2
    <2>2. new \in BootInfo /\ fw.owner \in [Pages -> Owners]
      <3>1. rd \in SUBSET Int /\ kn \in SUBSET Int
        BY BootAssumption DEF TypeOK, Loader, Span
      <3> HIDE DEF rd, kn
      <3> QED BY <3>1, MapSizeNat DEF BootInfo, TypeOK
    <2>3. /\ ld'.tables = ld.tables /\ ld'.bootInfo = ld.bootInfo /\ ld'.mapBuffer = ld.mapBuffer
          /\ ld'.mapped = ld.mapped /\ ld'.keyValid = TRUE /\ ld'.map = fw.owner /\ ld'.info = new
          /\ ld'.phys_start = ld.phys_start /\ ld'.phys_end = ld.phys_end
          /\ ld'.held = ld.held /\ ld'.call = ld.call /\ ld'.file = ld.file
          /\ ld'.size = ld.size /\ ld'.segment = ld.segment
          /\ ld'.foundMode = ld.foundMode /\ ld'.choosenMode = ld.choosenMode
      <3> HIDE DEF new
      <3> QED BY <2>1 DEF TypeOK, Loader
    <2>4. TypeOK'
      <3> HIDE DEF new
      <3>1. ld' \in Loader
        BY <2>1, <2>2 DEF TypeOK, Loader
      <3> QED BY <2>1, <3>1 DEF TypeOK
    <2>5. HeldFits'
      BY <1>1, <2>1, <2>3 DEF HeldFits
    <2>6. LoadedOwned'
      BY <1>1, <2>1, <2>3 DEF LoadedOwned, SegmentPages, LoadedAt, FilePages
    <2>7. BuffersOwned' /\ Mapped' /\ ModesDrawable'
      BY <1>1, <2>1, <2>3 DEF BuffersOwned, Mapped, ModesDrawable, Drawable
    <2>8. InfoTrue'
      BY <1>1, <2>1, <2>2, <2>3 DEF InfoTrue
    <2> QED BY <2>4, <2>5, <2>6, <2>7, <2>8
  <1> QED BY <1>2, <1>3

\* ExitBootServices succeeds only with a valid key; a failure changes nothing
\* but the count of attempts.  The kernel hangs only over a BootInfo it does
\* not accept.
LEMMA ExitKeeps ==
    ASSUME IInv, ExitBootServices \/ EnterKernel
    PROVE  IInv'
  <1> USE DEF IInv, AfterTables, AfterLoad, AfterSegments, AfterHandoff, AfterMap, Entered
  <1>1. pc \in {"exit", "enter"}
    BY DEF ExitBootServices, EnterKernel
  <1>2. CASE Panics
    BY <1>1, <1>2, PanicKeeps DEF Panics
  <1>3. CASE ~Panics
    <2>1. /\ machine' = machine /\ fw' = fw
          /\ pc' \in AfterMap
          /\ pc' \in Entered => ld.keyValid
          /\ pc' = "hang" => ~KernelAccepts
          /\ \E b \in BOOLEAN : ld' = [ld EXCEPT !.retried = b]
      <3>0. ld = [ld EXCEPT !.retried = ld.retried] /\ ld.retried \in BOOLEAN
        BY DEF TypeOK, Loader
      <3>1. CASE ExitBootServices
        BY <1>3, <3>0, <3>1 DEF ExitBootServices, Does, FirstFailure
      <3>2. CASE EnterKernel
        BY <3>0, <3>2 DEF EnterKernel, Does, InfoTrue
      <3> QED BY <3>1, <3>2
    <2>2. PICK b \in BOOLEAN : ld' = [ld EXCEPT !.retried = b]
      BY <2>1
    <2>3. /\ ld'.tables = ld.tables /\ ld'.bootInfo = ld.bootInfo /\ ld'.mapBuffer = ld.mapBuffer
          /\ ld'.mapped = ld.mapped /\ ld'.keyValid = ld.keyValid /\ ld'.map = ld.map
          /\ ld'.info = ld.info /\ ld'.phys_start = ld.phys_start /\ ld'.phys_end = ld.phys_end
          /\ ld'.held = ld.held /\ ld'.call = ld.call /\ ld'.file = ld.file
          /\ ld'.size = ld.size /\ ld'.segment = ld.segment
          /\ ld'.foundMode = ld.foundMode /\ ld'.choosenMode = ld.choosenMode
      BY <2>2 DEF TypeOK, Loader
    <2>4. TypeOK'
      <3>1. ld' \in Loader
        BY <2>2 DEF TypeOK, Loader
      <3> QED BY <2>1, <3>1 DEF TypeOK
    <2>5. HeldFits'
      BY <1>1, <2>1, <2>3 DEF HeldFits
    <2>6. LoadedOwned'
      BY <1>1, <2>1, <2>3 DEF LoadedOwned, SegmentPages, LoadedAt, FilePages
    <2>7. BuffersOwned' /\ Mapped' /\ ModesDrawable'
      BY <1>1, <2>1, <2>3 DEF BuffersOwned, Mapped, ModesDrawable, Drawable
    <2>8. InfoTrue'
      BY <1>1, <2>1, <2>3 DEF InfoTrue, KernelAccepts
    <2> QED BY <2>4, <2>5, <2>6, <2>7, <2>8
  <1> QED BY <1>2, <1>3

\* An event of the firmware, wherever the loader is.
LEMMA EventKeeps ==
    ASSUME IInv, FirmwareEvent
    PROVE  IInv'
  <1> USE DEF IInv, AfterTables, AfterLoad, AfterSegments, AfterHandoff, AfterMap, Entered
  <1>1. /\ pc' = pc /\ machine' = machine /\ ld' = [ld EXCEPT !.keyValid = FALSE]
        /\ pc \notin Entered
    BY DEF FirmwareEvent
  <1>2. fw' \in [owner : [Pages -> Owners], mode : Nat] /\ fw'.mode = fw.mode
    BY EventSpares
  <1>3. \A T : Owned(fw, T) => Owned(fw', T)
    BY EventSpares
  <1>4. /\ ld'.tables = ld.tables /\ ld'.bootInfo = ld.bootInfo /\ ld'.mapBuffer = ld.mapBuffer
        /\ ld'.mapped = ld.mapped /\ ld'.keyValid = FALSE /\ ld'.map = ld.map
        /\ ld'.info = ld.info /\ ld'.phys_start = ld.phys_start /\ ld'.phys_end = ld.phys_end
        /\ ld'.held = ld.held /\ ld'.call = ld.call /\ ld'.file = ld.file
        /\ ld'.size = ld.size /\ ld'.segment = ld.segment
        /\ ld'.foundMode = ld.foundMode /\ ld'.choosenMode = ld.choosenMode
    BY <1>1 DEF TypeOK, Loader
  <1>5. TypeOK'
    <2>1. ld' \in Loader
      BY <1>1 DEF TypeOK, Loader
    <2> QED BY <1>1, <1>2, <2>1 DEF TypeOK
  <1>6. HeldFits'
    BY <1>1, <1>4 DEF HeldFits
  <1>7. LoadedOwned'
    <2>1. \A k \in DOMAIN machine'.segments : k < ld'.segment => Owned(fw, SegmentPages(k))'
      BY <1>1, <1>3, <1>4 DEF LoadedOwned, SegmentPages
    <2>2. pc \in AfterLoad => Owned(fw', LoadedAt("ramdisk")')
      BY <1>1, <1>3 DEF LoadedOwned, LoadedAt, FilePages
    <2> QED BY <1>1, <1>4, <2>1, <2>2 DEF LoadedOwned, FilePages
  <1>8. BuffersOwned'
    BY <1>3, <1>4 DEF BuffersOwned
  <1>9. Mapped' /\ ModesDrawable' /\ InfoTrue'
    BY <1>1, <1>2, <1>4 DEF Mapped, ModesDrawable, Drawable, InfoTrue
  <1> QED BY <1>5, <1>6, <1>7, <1>8, <1>9

\* The invariant holds when efi_main starts.
LEMMA InitEstablishes == Init => IInv
  <1> SUFFICES ASSUME Init PROVE IInv
    OBVIOUS
  <1> USE DEF IInv, AfterTables, AfterLoad, AfterSegments, AfterHandoff, AfterMap, Entered
  <1>1. machine \in Machines /\ machine.active \in Nat
    BY BootAssumption DEF Init, Machine
  <1>2. fw \in [owner : [Pages -> Owners], mode : Nat] /\ fw.mode = machine.active
    BY <1>1 DEF Init, Owners
  <1>3. ld \in Loader
    <2>1. [f \in {"kernel", "ramdisk"} |-> 0] \in [{"kernel", "ramdisk"} -> Nat]
      OBVIOUS
    <2> QED BY <2>1, BootAssumption DEF Init, Loader
  <1>4. TypeOK
    BY <1>1, <1>2, <1>3 DEF TypeOK
  <1>5. HeldFits
    BY DEF Init, HeldFits
  <1>6. LoadedOwned
    <2>1. \A k \in DOMAIN machine.segments : k \in Nat \ {0}
      BY <1>4, MachineTyped
    <2> QED BY <2>1 DEF Init, LoadedOwned
  <1>7. BuffersOwned /\ Mapped /\ ModesDrawable /\ InfoTrue
    BY <1>2 DEF Init, BuffersOwned, Owned, Mapped, ModesDrawable, Drawable, InfoTrue
  <1> QED BY <1>4, <1>5, <1>6, <1>7

\* Every step keeps it.
LEMMA NextKeeps == IInv /\ [Next]_vars => IInv'
  <1> SUFFICES ASSUME IInv, [Next]_vars PROVE IInv'
    OBVIOUS
  <1>1. CASE LoaderStep
    BY <1>1, ScanKeeps, TablesKeep, LoadKeeps, SegmentsKeep, ModeKeeps, HandoffKeeps, MapKeeps,
       ExitKeeps DEF LoaderStep
  <1>2. CASE KeyPressed
    BY <1>2, ModeKeeps
  <1>3. CASE KeyToShutdown
    BY <1>3, PanicKeeps DEF KeyToShutdown, Does
  <1>4. CASE FirmwareEvent
    BY <1>4, EventKeeps
  <1>5. CASE Over \/ UNCHANGED vars
    <2>1. UNCHANGED vars
      BY <1>5 DEF Over
    <2> QED BY <2>1 DEF vars, IInv, TypeOK, HeldFits, LoadedOwned, BuffersOwned, Mapped, ModesDrawable,
               InfoTrue, SegmentPages, Drawable, LoadedAt, FilePages, KernelAccepts
  <1> QED BY <1>1, <1>2, <1>3, <1>4, <1>5 DEF Next

-----------------------------------------------------------------------------
(* The theorems.                                                           *)

\* load_file gives back every handle and pool at whichever call it fails, and
\* the kernel is entered with only the list of graphics devices held.
THEOREM LoadFileAlwaysReleases == Spec => []LoadFileReleases
  <1>1. IInv => LoadFileReleases
    BY DEF IInv, HeldFits, TypeOK, Loader, LoadFileReleases, Held, Pools
  <1> QED BY <1>1, InitEstablishes, NextKeeps, PTL DEF Spec

\* What a kernel that is entered is handed lies in pages of the loader, and
\* all of it below 4 GiB but the page tables.
LEMMA HandedOverOwned ==
    ASSUME IInv, pc \in Entered
    PROVE  /\ Owned(fw, HandedOver)
           /\ \A p \in HandedOver \ ld.tables : p \in 0 .. IDENTITY - 1
  <1> USE DEF IInv, AfterTables, AfterLoad, AfterSegments, AfterHandoff, AfterMap, Entered
  <1>1. /\ ld.info.initramfs = LoadedAt("ramdisk") /\ Owned(fw, LoadedAt("ramdisk"))
        /\ \A p \in LoadedAt("ramdisk") : p < FOUR_GIB
    <2>1. ld.info.initramfs = Span(RAMDISK_AT, machine.ramdisk)
      BY DEF InfoTrue, LoadedOwned
    <2>2. LoadedAt("ramdisk") = Span(RAMDISK_AT, machine.ramdisk)
      BY DEF LoadedAt, FileAt, FilePages
    <2>3. RAMDISK_AT + machine.ramdisk <= FOUR_GIB /\ machine.ramdisk \in Nat
      BY MachineTyped, BootAssumption DEF TypeOK
    <2>4. \A p \in Span(RAMDISK_AT, machine.ramdisk) : p < FOUR_GIB
      BY <2>3, BootAssumption DEF Span
    <2> QED BY <2>1, <2>2, <2>4 DEF LoadedOwned
  <1>2. ASSUME NEW k \in DOMAIN machine.segments
        PROVE  Owned(fw, SegmentPages(k)) /\ \A p \in SegmentPages(k) : p < FOUR_GIB
    <2>1. k < ld.segment
      BY MachineTyped DEF LoadedOwned, TypeOK, Loader
    <2>2. machine.segments[k].start + machine.segments[k].pages <= FOUR_GIB
      BY BootAssumption DEF TypeOK
    <2>3. machine.segments[k].start \in Nat /\ machine.segments[k].pages \in Nat
      BY MachineTyped DEF Area
    <2>4. \A p \in SegmentPages(k) : p < FOUR_GIB
      BY <2>2, <2>3, BootAssumption DEF SegmentPages, Span
    <2> QED BY <2>1, <2>4 DEF LoadedOwned
  <1>3. \A p \in HandedOver :
            \/ p \in ld.tables \cup ld.bootInfo \cup ld.mapBuffer \cup LoadedAt("ramdisk")
            \/ \E k \in DOMAIN machine.segments : p \in SegmentPages(k)
    BY <1>1 DEF HandedOver, SegmentPages
  <1>4. Owned(fw, HandedOver)
    BY <1>1, <1>2, <1>3 DEF BuffersOwned, Owned
  <1>5. \A p \in HandedOver \ ld.tables : p < FOUR_GIB
    BY <1>1, <1>2, <1>3 DEF BuffersOwned
  <1>6. \A p \in HandedOver : p \in Nat
    BY <1>4, BootAssumption DEF Owned
  <1> QED BY <1>4, <1>5, <1>6, BootAssumption

\* The kernel's memory map is the firmware's last one, to the last descriptor,
\* and shows nothing it is handed as free, whatever firmware events came
\* between the two calls of GetMemoryMap and ExitBootServices.
THEOREM HandoffMapAlwaysTrue == Spec => []HandoffMapTrue
  <1>1. IInv => HandoffMapTrue
    <2> SUFFICES ASSUME IInv, pc \in Entered
                 PROVE  /\ ld.map = fw.owner
                        /\ ld.info.map_size = MapSize(ld.map)
                        /\ \A p \in HandedOver : ld.map[p] # "conventional"
      BY DEF HandoffMapTrue, Entered
    <2>1. ld.map = fw.owner /\ ld.info.map_size = MapSize(ld.map)
      BY DEF IInv, InfoTrue, Entered, AfterMap
    <2>2. \A p \in HandedOver : fw.owner[p] = "loader"
      BY HandedOverOwned DEF Owned
    <2> QED BY <2>1, <2>2
  <1> QED BY <1>1, InitEstablishes, NextKeeps, PTL DEF Spec

\* The tables CR3 is loaded with map the running code, its stack, the frame
\* buffer and all that is handed over, wherever the firmware put them.
THEOREM HandoffAlwaysReachable == Spec => []HandoffReachable
  <1>1. IInv => HandoffReachable
    <2> SUFFICES ASSUME IInv, pc \in Entered,
                        NEW r \in {machine.image, machine.stack, machine.framebuffer}
                 PROVE  Span(r.start, r.pages) \cup (HandedOver \ ld.tables) \subseteq ld.mapped
      BY DEF HandoffReachable, Entered
    <2>1. 0 .. IDENTITY - 1 \subseteq ld.mapped /\ Span(r.start, r.pages) \subseteq ld.mapped
      BY DEF IInv, Mapped, AfterTables, AfterLoad, AfterSegments, AfterHandoff, AfterMap
    <2> QED BY <2>1, HandedOverOwned
  <1> QED BY <1>1, InitEstablishes, NextKeeps, PTL DEF Spec

\* BootInfo names the active mode, and the kernel hangs over it only if the
\* firmware was in that mode from the start.
THEOREM KernelAlwaysGetsActiveMode == Spec => []KernelGetsActiveMode
  <1>1. IInv => KernelGetsActiveMode
    <2> SUFFICES ASSUME IInv, pc \in Entered
                 PROVE  ld.info.mode = fw.mode /\ (pc = "hang" => fw.mode = machine.active)
      BY DEF KernelGetsActiveMode, Entered
    <2>1. ld.info.mode = fw.mode /\ ld.info.initramfs = Span(RAMDISK_AT, machine.ramdisk)
      BY DEF IInv, InfoTrue, LoadedOwned, Entered, AfterMap, AfterHandoff, AfterSegments, AfterLoad
    <2>2. ld.info.initramfs # {}
      <3>1. machine.ramdisk \in Nat /\ machine.ramdisk > 0
        BY MachineTyped DEF IInv, LoadedOwned, Entered, AfterMap, AfterHandoff, AfterSegments, AfterLoad
      <3>2. RAMDISK_AT \in Span(RAMDISK_AT, machine.ramdisk)
        BY <3>1, BootAssumption DEF Span
      <3> QED BY <2>1, <3>2
    <2>3. ASSUME pc = "hang" PROVE fw.mode = machine.active
      BY <2>1, <2>2, <2>3 DEF IInv, InfoTrue, KernelAccepts, ModesDrawable, Drawable, Usable
    <2> QED BY <2>1, <2>3
  <1> QED BY <1>1, InitEstablishes, NextKeeps, PTL DEF Spec

====

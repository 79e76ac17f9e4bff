------------------------------ MODULE Initramfs -----------------------------
(***************************************************************************)
(* The initial ramdisk: kernel/fs/drivers/initramfs.c unpacks a cpio       *)
(* archive into the RAM file system, called by init_fs; after that the     *)
(* file system is used as in Fs.                                           *)
(*                                                                         *)
(* The archive is kept as its entries together with where each begins on   *)
(* the disk; the parser only has a byte offset, and what it finds at an    *)
(* offset where no entry begins is not a header.  A name is its path, the  *)
(* number of slashes at its end and its length in bytes; names with an     *)
(* empty component in the middle are left out.  The error codes all end in *)
(* a panic.                                                                *)
(***************************************************************************)
EXTENDS Fs

CONSTANTS
    Archives,    \* the archives considered: sequences of entries
    Cuts         \* how many bytes may be missing at the end of the disk

HEADER == 110
MAX_PATH == 4096

\* an entry: what of it the parser tells apart
Entry ==
    [magic : BOOLEAN, hex : BOOLEAN, namesize : Nat, ended : BOOLEAN, trailer : BOOLEAN,
     absolute : BOOLEAN, path : Seq(Components), slashes : Nat, type : STRING,
     data : Seq(Nat), filesize : Nat]

VARIABLES
    pc,        \* where init_fs is, then "mounted" and "running"
    disk,      \* the entries and the size in bytes; fixed until unpacked
    offset,    \* parse_cpio_disk's offset
    depth,     \* in ensure_parent_directories: components gone through
    read       \* history: the end of the furthest read

ivars == <<pc, disk, offset, depth, read>>
allvars == <<vars, ivars>>

-----------------------------------------------------------------------------
(* The disk.                                                               *)

\* mutant: rounds to the next multiple of 4 beyond n
Padded_always(n) == n + 4 - (n % 4)

\* n with the padding (4 - (n & 3)) & 3
Padded(n) == n + ((4 - (n % 4)) % 4)

\* where the i-th entry begins in an archive; the last one ends at EntryAt of
\* the number after it
EntryAt(entries, i) ==
    LET at[k \in 1 .. i] ==
            IF k = 1 THEN 0
            ELSE LET e == entries[k - 1]
                     up4(n) == 4 * ((n + 3) \div 4)
                 IN  up4(up4(at[k - 1] + HEADER + e.namesize) + Len(e.data))
    IN  at[i]

\* the entry whose header is at the offset, if there is one
EntriesAt(o) == {i \in DOMAIN disk.entries : EntryAt(disk.entries, i) = o}
Current == disk.entries[CHOOSE i \in EntriesAt(offset) : TRUE]

\* mutant: one byte more than there is
Fits_one_more(o, n) == o <= disk.size /\ disk.size - o >= n - 1

\* the checks disk_size - offset < n: at least n bytes from o on
Fits(o, n) == o <= disk.size /\ disk.size - o >= n

-----------------------------------------------------------------------------
(* Names.                                                                  *)

\* each leading "./" is removed
Stripped(e) ==
    LET real == {k \in DOMAIN e.path : e.path[k] # Dot}
        first == CHOOSE k \in real : \A j \in real : k <= j
    IN  IF real # {} THEN SubSeq(e.path, first, Len(e.path))
        ELSE IF e.slashes > 0 THEN <<>> ELSE <<Dot>>

\* "" and ".", the root's own entry
IsRoot(e) == Stripped(e) \in {<<>>, <<Dot>>}

\* what is left once each leading "./" is removed begins with a slash; a path
\* of dots uses up one of the slashes at its end
SlashFirst(e) ==
    \/ e.absolute
    \/ (\A k \in DOMAIN e.path : e.path[k] = Dot) /\ e.slashes > (IF e.path = <<>> THEN 0 ELSE 1)

FileTypes == {"regular", "link", "none"}

\* of a file's name one slash is removed at the end, of a directory's all are
SlashedFile(e) == e.type \in FileTypes /\ e.slashes > 1

\* entries that become a node; devices and the like are passed over
Creates(e) == ~e.trailer /\ ~IsRoot(e) /\ e.type \in FileTypes \cup {"directory"}

-----------------------------------------------------------------------------
(* parse_cpio_disk.                                                        *)

\* the header's thirteen fields are hexadecimal
hex8(e) == e.hex

\* one after the other: room for a header, its magic, its fields, the name's
\* length, room for the name, the zero byte at its end and nowhere before
HeaderOK == Fits(offset, HEADER) /\ EntriesAt(offset) # {} /\ Current.magic /\ hex8(Current)
NameLengthOK == Current.namesize \in 1 .. MAX_PATH + 1 /\ Fits(offset + HEADER, Current.namesize)
NameEnd == Padded(offset + HEADER + Current.namesize)
NameOK == Current.ended /\ Fits(offset + HEADER + Current.namesize,
                                NameEnd - offset - HEADER - Current.namesize)

\* the entry's data, and where the next header is
DataOK == Fits(NameEnd, Current.filesize)
DataEnd == NameEnd + Current.filesize
NextOK == Fits(DataEnd, Padded(DataEnd) - DataEnd)

Reads(to) == read' = IF to > read THEN to ELSE read

\* kernel_panic("Failed to retrive initial ramdisk.")
InitFsPanics == pc' = "panic" /\ UNCHANGED <<disk, offset, depth>>

\* no (further) header
BadHeader ==
    /\ pc = "header" /\ ~HeaderOK
    /\ InitFsPanics
    /\ Reads(IF Fits(offset, HEADER) THEN offset + HEADER ELSE 0)
    /\ UNCHANGED vars

\* a bad name, one that begins with a slash, or data that does not fit
BadEntry ==
    /\ pc = "header" /\ HeaderOK
    /\ \/ ~(NameLengthOK /\ NameOK)
       \/ ~Current.trailer /\ (SlashFirst(Current) \/ ~DataOK)
    /\ InitFsPanics
    /\ Reads(offset + HEADER + IF NameLengthOK THEN Current.namesize ELSE 0)
    /\ UNCHANGED vars

\* on to the next header, if its padding is there
Advance ==
    /\ IF NextOK THEN pc' = "header" /\ offset' = Padded(DataEnd)
                 ELSE pc' = "panic" /\ offset' = offset
    /\ depth' = 0
    /\ UNCHANGED disk

\* a good header; the trailer ends the archive: parse_cpio_disk returns 0
GoodEntry ==
    /\ pc = "header" /\ HeaderOK /\ NameLengthOK /\ NameOK
    /\ Reads(offset + HEADER + Current.namesize)
    /\ \/ /\ Current.trailer
          /\ pc' = "mounted"
          /\ UNCHANGED <<disk, offset, depth>>
       \/ /\ ~Current.trailer /\ ~SlashFirst(Current) /\ DataOK
          /\ IF Creates(Current) THEN pc' = "parents" /\ depth' = 1 /\ UNCHANGED <<disk, offset>>
                                 ELSE Advance
    /\ UNCHANGED vars

\* FS_ALR_EXIST is as good as FS_SUCCESS
Accepted(result) == result.ret \in {"FS_SUCCESS", "FS_ALR_EXIST"}

\* ensure_parent_directories: create_folder for each proper prefix
EnsureParent ==
    /\ pc = "parents" /\ depth < Len(Stripped(Current))
    /\ \E m \in 0 .. PLENTY :
          LET prefix == SubSeq(Stripped(Current), 1, depth)
              result == create_folder(fs, prefix, m)
          IN  /\ Calls("create_file", prefix, <<>>, TRUE, result)
              /\ \/ Accepted(result) /\ depth' = depth + 1 /\ UNCHANGED <<pc, disk, offset>>
                 \/ ~Accepted(result) /\ InitFsPanics
    /\ UNCHANGED read

\* create_folder or create_file for the entry itself; then the next header
CreateEntry ==
    /\ pc = "parents" /\ depth = Len(Stripped(Current)) /\ ~SlashedFile(Current)
    /\ \E m \in 0 .. PLENTY :
          LET path == Stripped(Current)
              isDir == Current.type = "directory"
              data == IF isDir THEN <<>> ELSE Current.data
              result == create_file(fs, path, m, data, isDir)
          IN  /\ Calls("create_file", path, data, isDir, result)
              /\ \/ Accepted(result) /\ Advance
                 \/ ~Accepted(result) /\ InitFsPanics
              /\ Reads(IF isDir \/ result.ret # "FS_SUCCESS" THEN 0 ELSE DataEnd)

\* a file whose name still ends in a slash: its whole path is taken for a
\* parent and made a folder, and then the name is refused (FS_INV_PATH)
CreateSlashed ==
    /\ pc = "parents" /\ depth = Len(Stripped(Current)) /\ SlashedFile(Current)
    /\ \E m \in 0 .. PLENTY :
          Calls("create_file", Stripped(Current), <<>>, TRUE, create_folder(fs, Stripped(Current), m))
    /\ InitFsPanics
    /\ UNCHANGED read

Unpacking == BadHeader \/ BadEntry \/ GoodEntry \/ EnsureParent \/ CreateEntry \/ CreateSlashed

-----------------------------------------------------------------------------
\* the disk with an archive on it, cut off at the end
DiskOf(archive, cut) == [entries |-> archive, size |-> EntryAt(archive, Len(archive) + 1) - cut]

ASSUME InitramfsAssumption ==
    /\ Archives \subseteq Seq(Entry)
    /\ \A archive \in Archives, cut \in Cuts : DiskOf(archive, cut).size \in Nat

\* an entry's data is what its header claims, unless that is not on the disk
ASSUME ClaimsAssumption ==
    \A archive \in Archives, cut \in Cuts : \A i \in DOMAIN archive :
        LET e == archive[i]
        IN  \/ e.filesize = Len(e.data)
            \/ EntryAt(archive, i) + HEADER + e.namesize + e.filesize > DiskOf(archive, cut).size

NoDisk == [entries |-> <<>>, size |-> 0]

InitramfsInit ==
    /\ Init
    /\ pc = "header"
    /\ \E archive \in Archives, cut \in Cuts : disk = DiskOf(archive, cut)
    /\ offset = 0 /\ depth = 0 /\ read = 0

\* the file system in use; the disk is not looked at again
Use(operation) ==
    /\ pc \in {"mounted", "running"}
    /\ operation
    /\ pc' = "running"
    /\ disk' = NoDisk /\ offset' = 0 /\ depth' = 0 /\ read' = 0

Panicked == pc = "panic" /\ UNCHANGED allvars

InitramfsNext ==
    \/ Unpacking
    \/ Use(CreateFile) \/ Use(CreateFolder) \/ Use(DeleteFile) \/ Use(WriteFile) \/ Use(CreateFileForce)
    \/ Panicked

InitramfsSpec == InitramfsInit /\ [][InitramfsNext]_allvars

-----------------------------------------------------------------------------
(* Properties.                                                             *)

\* parse_cpio_disk never reads beyond the disk, wherever the archive is cut
\* off and whatever sizes its headers claim.
ParserInBounds == read <= disk.size \/ pc = "running"

\* the entries before the trailer that become nodes
Listed == {i \in DOMAIN disk.entries :
             Creates(disk.entries[i]) /\ \A j \in 1 .. i : ~disk.entries[j].trailer}
PathOf(i) == Stripped(disk.entries[i])
Below(path, dir) == Len(dir) <= Len(path) /\ SubSeq(path, 1, Len(dir)) = dir

\* a well-formed archive with only ordinary names, none of them below a file
Sound ==
    LET n == Len(disk.entries)
    IN  /\ disk.size = EntryAt(disk.entries, n + 1)
        /\ n > 0 /\ disk.entries[n].trailer
        /\ \A i \in 1 .. n : LET e == disk.entries[i]
                             IN  /\ e.magic /\ e.hex /\ e.ended
                                 /\ ~SlashFirst(e) /\ ~SlashedFile(e)
                                 /\ e.namesize \in 1 .. MAX_PATH + 1
                                 /\ e.filesize = Len(e.data)
        /\ \A i \in Listed : \A k \in DOMAIN PathOf(i) : PathOf(i)[k] \in Names
        /\ \A i, j \in Listed : i # j /\ disk.entries[i].type # "directory"
                                      => ~Below(PathOf(j), PathOf(i))

\* Once the ramdisk is mounted, every entry is found under its name, with the
\* kind and content of the first entry of that name unless it was already made
\* as a parent directory; nothing else is in the file system; and a sound
\* archive is refused for want of memory only.
ArchiveUnpacked ==
    /\ pc = "mounted" =>
         /\ \A i \in Listed :
              LET found == parse_path(fs, PathOf(i))
                  e == disk.entries[i]
              IN  /\ found.status = "FS_SUCCESS"
                  /\ (\A j \in Listed : j < i => ~Below(PathOf(j), PathOf(i))) =>
                        /\ fs.node[found.file].dir = (e.type = "directory")
                        /\ e.type # "directory" => fs.node[found.file].data = e.data
         /\ \A f \in Files : \E i \in Listed : \E k \in DOMAIN PathOf(i) :
              parse_path(fs, SubSeq(PathOf(i), 1, k)).file = f
    /\ pc = "panic" => ~Sound \/ ret = "FS_FAIL"

=============================================================================

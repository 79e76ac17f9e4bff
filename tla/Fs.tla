--------------------------------- MODULE Fs ---------------------------------
(***************************************************************************)
(* The RAM file system: kernel/fs/fs.c.                                    *)
(*                                                                         *)
(* A tree of struct file nodes under the static root, every node, name and *)
(* data buffer a kmalloc block.  A path is the sequence of its components  *)
(* (leading and doubled slashes do not matter to the code; a trailing one  *)
(* only makes create_file return FS_INV_PATH); a file's content is the     *)
(* sequence of its cells.  The functions map a tree t to the tree and the  *)
(* status after the call: t holds the nodes, each directory's child list   *)
(* (newest first, as link_child builds it) and the number of heap blocks   *)
(* the file system has taken and not returned.  A function that allocates  *)
(* also takes the number m of its kmalloc calls that succeed, so that      *)
(* memory can run out at each of them.  NULL arguments are not modelled.   *)
(***************************************************************************)
EXTENDS Integers, Sequences, FiniteSets

CONSTANTS
    Names,       \* file names
    Nodes,       \* addresses kcalloc may give a new struct file
    Contents,    \* what callers store: sequences of cells
    Paths,       \* the paths callers use
    PLENTY       \* bound: kmalloc calls that succeed when memory is not short

Dot == "."
DotDot == ".."
root == 0

\* what a path is made of
Components == Names \cup {Dot, DotDot}

ASSUME FsAssumption ==
    /\ root \notin Nodes
    /\ Dot \notin Names /\ DotDot \notin Names
    /\ Paths \subseteq Seq(Components)
    /\ \A c \in Contents : c \in Seq(Nat)
    /\ PLENTY \in Nat

VARIABLES
    fs,      \* [node, children, blocks] as described above
    ret,     \* what the last call returned
    call     \* the last call: its function and, if it succeeded, what it was to achieve

vars == <<fs, ret, call>>

-----------------------------------------------------------------------------
(* Paths.                                                                  *)

Child(t, dir, name) ==
    {c \in {t.children[dir][i] : i \in DOMAIN t.children[dir]} : t.node[c].name = name}

\* one component of parse_path: ".." needs no directory, a name does
Step(t, at, comp) ==
    IF at.status # "FS_SUCCESS" \/ comp = Dot THEN at
    ELSE IF comp = DotDot THEN [at EXCEPT !.file = t.node[@].parent]
    ELSE IF ~t.node[at.file].dir THEN [at EXCEPT !.status = "FS_NOT_A_DIR"]
    ELSE IF Child(t, at.file, comp) = {} THEN [at EXCEPT !.status = "FS_NOT_FOUND"]
    ELSE [at EXCEPT !.file = CHOOSE c \in Child(t, at.file, comp) : TRUE]

\* where parse_path is after each of the components
Walk(t, path) ==
    LET after[n \in 0 .. Len(path)] ==
            IF n = 0 THEN [status |-> "FS_SUCCESS", file |-> root]
            ELSE Step(t, after[n - 1], path[n])
    IN  after

parse_path(t, path) == Walk(t, path)[Len(path)]

-----------------------------------------------------------------------------
(* create_file and delete_file.                                            *)

\* leave a function with a status, having taken and returned heap blocks
Exit(t, status, taken, freed) ==
    [fs |-> [t EXCEPT !.blocks = @ + taken - freed], ret |-> status]

\* the heap blocks a linked node holds: struct file, name, data if any
NodeBlocks(data) == IF data = <<>> THEN 2 ELSE 3

\* find_child
find_child(t, dir, name) == Child(t, dir, name) # {}

\* mutant: the name is not looked up in the parent
NameTaken_ignored(t, dir, name) == FALSE

\* create_file refuses a name the parent already has
NameTaken(t, dir, name) == find_child(t, dir, name)

\* mutant: the new node is not put into the directory's list
link_child_lost(t, dir, f, file) ==
    [t EXCEPT !.node = [n \in DOMAIN @ \cup {f} |-> IF n = f THEN file ELSE @[n]],
              !.children = [n \in DOMAIN @ \cup {f} |-> IF n = f THEN <<>> ELSE @[n]]]

\* link_child: in front of the directory's other children
link_child(t, dir, f, file) ==
    [t EXCEPT !.node = [n \in DOMAIN @ \cup {f} |-> IF n = f THEN file ELSE @[n]],
              !.children = [n \in DOMAIN @ \cup {f} |->
                              IF n = f THEN <<>> ELSE IF n = dir THEN <<f>> \o @[n] ELSE @[n]]]

\* mutant: a failed data allocation forgets the name
FreedOnDataFailure_short == 2

\* blocks returned when the data buffer cannot be allocated: the parent path,
\* the name, the node
FreedOnDataFailure == 3

\* create_file with m successful allocations, in the order parent path, name,
\* struct file, data; no struct file either once every node is in use
create_file(t, path, m, data, dir) ==
    LET name == path[Len(path)]
        parent == parse_path(t, SubSeq(path, 1, Len(path) - 1))
        unused == Nodes \ DOMAIN t.node
        f == CHOOSE n \in unused : TRUE
        file == [name |-> name, parent |-> parent.file, dir |-> dir, data |-> data]
    IN  IF path = <<>> THEN Exit(t, "FS_INV_PATH", 0, 0)
        ELSE IF m = 0 THEN Exit(t, "FS_FAIL", 0, 0)
        ELSE IF m = 1 THEN Exit(t, "FS_FAIL", 1, 1)
        ELSE IF name \in {Dot, DotDot} THEN Exit(t, "FS_FAIL", 2, 2)
        ELSE IF parent.status # "FS_SUCCESS" THEN Exit(t, parent.status, 2, 2)
        ELSE IF ~t.node[parent.file].dir THEN Exit(t, "FS_NOT_A_DIR", 2, 2)
        ELSE IF NameTaken(t, parent.file, name) THEN Exit(t, "FS_ALR_EXIST", 2, 2)
        ELSE IF m = 2 \/ unused = {} THEN Exit(t, "FS_FAIL", 2, 2)
        ELSE IF m = 3 /\ data # <<>> THEN Exit(t, "FS_FAIL", 3, FreedOnDataFailure)
        ELSE Exit(link_child(t, parent.file, f, file), "FS_SUCCESS", 1 + NodeBlocks(data), 1)

create_folder(t, path, m) == create_file(t, path, m, <<>>, TRUE)

\* where unlink_child finds f in its directory's list: the first place, if any
Places(list, f) == {i \in DOMAIN list : list[i] = f /\ \A j \in 1 .. i - 1 : list[j] # f}

\* unlink_child
unlink_child(list, f) ==
    LET i == CHOOSE i \in Places(list, f) : TRUE
    IN  SubSeq(list, 1, i - 1) \o SubSeq(list, i + 1, Len(list))

\* the tree without f, unlinked and freed
Unlinked(t, f) ==
    LET dir == t.node[f].parent
        keep == DOMAIN t.node \ {f}
    IN  [t EXCEPT !.node = [n \in keep |-> @[n]],
                  !.children = [n \in keep |-> IF n = dir THEN unlink_child(@[n], f) ELSE @[n]]]

\* mutant: a directory goes whatever it holds
DirNotEmpty_ignored(t, f) == FALSE

DirNotEmpty(t, f) == t.node[f].dir /\ t.children[f] # <<>>

\* mutant: the data buffer is not freed
Released_header(data) == 2

\* delete_file frees the name, the data (kfree(NULL) if there is none), the node
Released(data) == NodeBlocks(data)

delete_file(t, path) ==
    LET target == parse_path(t, path)
        f == target.file
    IN  IF target.status # "FS_SUCCESS" THEN Exit(t, target.status, 0, 0)
        ELSE IF f = root THEN Exit(t, "FS_PERMISSION_DENIED", 0, 0)
        ELSE IF DirNotEmpty(t, f) THEN Exit(t, "FS_DIR_NOT_EMPTY", 0, 0)
        ELSE IF Places(t.children[t.node[f].parent], f) = {} THEN Exit(t, "FS_INVALID_FS", 0, 0)
        ELSE Exit(Unlinked(t, f), "FS_SUCCESS", 0, Released(t.node[f].data))

\* write_file_content: into the buffer create_file allocated, never past it
write_file_content(t, path, data) ==
    LET target == parse_path(t, path)
        f == target.file
        rest(old) == SubSeq(old, Len(data) + 1, Len(old))
    IN  IF target.status # "FS_SUCCESS" THEN Exit(t, target.status, 0, 0)
        ELSE IF t.node[f].dir THEN Exit(t, "FS_IS_A_DIR", 0, 0)
        ELSE IF Len(data) > Len(t.node[f].data) THEN Exit(t, "FS_FILE_TOO_SMALL", 0, 0)
        ELSE Exit([t EXCEPT !.node[f].data = data \o rest(@)], "FS_SUCCESS", 0, 0)

\* create_file_force at the n-th component: it looks at the REST of the path
\* after that component, and creates the rest (the last time the empty path,
\* which is always found); each folder made since the tree was t has used up
\* three of the m allocations
ForceStep(t, before, path, n, m, data, dir) ==
    LET rest == SubSeq(path, n + 1, Len(path))
        left == m - 3 * Cardinality(DOMAIN before.fs.node \ DOMAIN t.node)
        made == IF n = Len(path) THEN create_file(before.fs, rest, left, data, dir)
                ELSE create_folder(before.fs, rest, left)
    IN  IF before.ret # "FS_SUCCESS" \/ parse_path(before.fs, rest).status = "FS_SUCCESS" THEN before
        ELSE [made EXCEPT !.ret = IF @ = "FS_SUCCESS" THEN @ ELSE "FS_FAIL"]

\* the tree and the status after each of the components
Forced(t, path, m, data, dir) ==
    LET after[n \in 0 .. Len(path)] ==
            IF n = 0 THEN Exit(t, "FS_SUCCESS", 0, 0)
            ELSE ForceStep(t, after[n - 1], path, n, m, data, dir)
    IN  after

create_file_force(t, path, m, data, dir) == Forced(t, path, m, data, dir)[Len(path)]

-----------------------------------------------------------------------------
(* The calls.  read_file_content and list_files change nothing.            *)

NoArguments == [path |-> <<>>, data |-> <<>>, dir |-> FALSE]

\* a call: its result becomes the file system and the status
Calls(function, path, data, dir, result) ==
    /\ fs' = result.fs
    /\ ret' = result.ret
    /\ call' = [fn |-> function,
                args |-> IF result.ret # "FS_SUCCESS" THEN NoArguments
                         ELSE [path |-> path, data |-> data, dir |-> dir]]

\* init_fs up to the ramdisk
Init ==
    /\ fs = [node |-> [n \in {root} |-> [name |-> "root", parent |-> root, dir |-> TRUE, data |-> <<>>]],
             children |-> [n \in {root} |-> <<>>],
             blocks |-> 0]
    /\ ret = "none"
    /\ call = [fn |-> "init_fs", args |-> NoArguments]

CreateFile == \E path \in Paths, m \in 0 .. PLENTY, data \in Contents, dir \in BOOLEAN :
    Calls("create_file", path, data, dir, create_file(fs, path, m, data, dir))

CreateFolder == \E path \in Paths, m \in 0 .. PLENTY :
    Calls("create_file", path, <<>>, TRUE, create_folder(fs, path, m))

\* delete_file; delete_folder only hands its path on
DeleteFile == \E path \in Paths :
    Calls("delete_file", path, <<>>, FALSE, delete_file(fs, path))

WriteFile == \E path \in Paths, data \in Contents :
    Calls("write_file_content", <<>>, <<>>, FALSE, write_file_content(fs, path, data))

CreateFileForce == \E path \in Paths, m \in 0 .. 2 * PLENTY, data \in Contents :
    Calls("create_file_force", path, <<>>, FALSE, create_file_force(fs, path, m, data, FALSE))

Next == CreateFile \/ CreateFolder \/ DeleteFile \/ WriteFile \/ CreateFileForce

Spec == Init /\ [][Next]_vars

-----------------------------------------------------------------------------
(* Properties.                                                             *)

FilesOf(t) == DOMAIN t.node \ {root}
Files == FilesOf(fs)

\* each node is in the child list of its parent, a directory, exactly once, and
\* in no other list; lists hold no freed node and no two children of one name;
\* and walking up from any node ends at the root
IsTree(t) ==
    /\ DOMAIN t.children = DOMAIN t.node
    /\ \A d \in DOMAIN t.children : \A i \in DOMAIN t.children[d] :
          /\ t.children[d][i] \in FilesOf(t) /\ t.node[t.children[d][i]].parent = d
          /\ \A j \in DOMAIN t.children[d] : t.children[d][i] = t.children[d][j] => i = j
    /\ \A f \in FilesOf(t) :
          LET p == t.node[f].parent
          IN  /\ p \in DOMAIN t.node /\ t.node[p].dir
              /\ \E i \in DOMAIN t.children[p] : t.children[p][i] = f
              /\ \A g \in FilesOf(t) \ {f} : t.node[g].parent = p => t.node[g].name # t.node[f].name
    /\ \A S \in SUBSET FilesOf(t) : S # {} => \E f \in S : t.node[f].parent \notin S

\* The nodes form a tree.  link_child, unlink_child and the checks of
\* create_file and delete_file must keep it through every order of calls and
\* address reuse.
TreeOK == IsTree(fs)

\* the blocks of the linked nodes: a struct file and a name for each, data for
\* those that have any
HeldBlocks(t) ==
    2 * Cardinality(FilesOf(t)) + Cardinality({f \in FilesOf(t) : t.node[f].data # <<>>})

\* Every heap block the file system took and did not return belongs to a linked
\* node: no error path of create_file leaks a path, a name or a node, and
\* delete_file returns everything.
NoLeak == fs.blocks = HeldBlocks(fs)

\* A create_file (or create_folder) that returned FS_SUCCESS made its path
\* resolve, to a node of the kind and the content it was given.
CreatedResolves ==
    call.fn = "create_file" /\ ret = "FS_SUCCESS" =>
        LET found == parse_path(fs, call.args.path)
        IN  /\ found.status = "FS_SUCCESS"
            /\ fs.node[found.file].data = call.args.data
            /\ fs.node[found.file].dir = call.args.dir

\* After a delete_file that returned FS_SUCCESS its path no longer resolves:
\* no second node of that name was hidden behind the deleted one.
DeletedGone ==
    call.fn = "delete_file" /\ ret = "FS_SUCCESS" =>
        parse_path(fs, call.args.path).status # "FS_SUCCESS"

\* A call that returns an error leaves the tree, the contents and the heap as
\* they were, at whichever allocation or check it failed (create_file_force
\* excepted, which keeps the folders it made before it failed).
RefusedUnchanged ==
    [][ret' # "FS_SUCCESS" /\ call'.fn # "create_file_force" => fs' = fs]_vars

\* What create_file_force is for: once it returns FS_SUCCESS, the path it was
\* given exists.
ForcedPathExists ==
    call.fn = "create_file_force" /\ ret = "FS_SUCCESS" =>
        parse_path(fs, call.args.path).status = "FS_SUCCESS"

=============================================================================

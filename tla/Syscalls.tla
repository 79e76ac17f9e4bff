----------------------------- MODULE Syscalls ------------------------------
(***************************************************************************)
(* The system call table: kernel/arch/x86_64/syscalls/syscalls.c.          *)
(*                                                                         *)
(* syscalls[0 .. SYSCALL_COUNT - 1] holds an ID, flags and a function per  *)
(* entry.  Kernel code and, through the services of configuration mode,    *)
(* user code assign and remove entries; syscall_dispatch calls them.  A    *)
(* function is a name; the four functions of this file have an effect, the *)
(* ones other code registers have none on the table.                       *)
(***************************************************************************)
EXTENDS Integers

CONSTANTS
    SYSCALL_COUNT,   \* entries in the table (2048)
    Drivers,         \* functions other parts of the system register
    None             \* the null function

Config == "syscall_config_mode"
Assign == "assign_syscall_usermode"
Remove == "remove_syscall_usermode"
Return == "return_syscall_usermode"

Services == {Config, Assign, Remove, Return}

\* the word that lies where the function of an entry past the table would
Stray == "stray"

\* syscalls.h declares none of the four functions of this file, so nobody
\* outside it registers one of them
ASSUME SyscallsAssumption ==
    /\ SYSCALL_COUNT \in Nat /\ SYSCALL_COUNT > 2
    /\ None \notin Drivers
    /\ (Drivers \cup {None, Stray}) \cap Services = {}

EXISTS == "EXISTS"
KERNEL_ONLY == "KERNEL_ONLY"
WRITE_PROTECTED == "WRITE_PROTECTED"
Flags == {{}, {EXISTS}, {EXISTS, KERNEL_ONLY}}

IDs == 0 .. (SYSCALL_COUNT - 1)
Empty == [ID |-> 0, FLAGS |-> {}, function |-> None]

\* the handlers the rest of the kernel and its drivers offer
Handler == [ID : 0 .. SYSCALL_COUNT, FLAGS : Flags, function : Drivers \cup {None}]

VARIABLES
    syscalls,    \* the table
    beyond,      \* what lies in memory right after the table
    initialised, \* init_syscalls has run
    removed,     \* the IDs that were registered, then removed, and not assigned since
    called       \* the last dispatch: its ID, whether that had been removed, the result

vars == <<syscalls, beyond, initialised, removed, called>>

INVALID == "SYSCALL_INVALID"

-----------------------------------------------------------------------------
(* The table operations, on a table t.                                     *)

assign_syscall(t, id, function, flags) ==
    IF id >= SYSCALL_COUNT \/ function = None \/ EXISTS \in t[id].FLAGS THEN t
    ELSE [t EXCEPT ![id] = [ID |-> id, FLAGS |-> flags, function |-> function]]

\* mutant: a handler without a function is accepted
assign_syscall_handler_null(t, h) ==
    IF h.ID >= SYSCALL_COUNT \/ EXISTS \in t[h.ID].FLAGS THEN t
    ELSE [t EXCEPT ![h.ID] = h]

assign_syscall_handler(t, h) ==
    IF h.ID >= SYSCALL_COUNT \/ h.function = None \/ EXISTS \in t[h.ID].FLAGS THEN t
    ELSE [t EXCEPT ![h.ID] = h]

\* remove_syscall and remove_syscall_handler: only the flags are cleared
remove_syscall(t, id) ==
    IF id >= SYSCALL_COUNT THEN t ELSE [t EXCEPT ![id].FLAGS = {}]

\* the three services take over the last two entries and the one past them
syscall_config_mode(t) ==
    LET services == {EXISTS, KERNEL_ONLY}
        n == SYSCALL_COUNT
        cleared == remove_syscall(remove_syscall(remove_syscall(t, n - 2), n - 1), n)
    IN  assign_syscall(assign_syscall(assign_syscall(cleared,
            n - 2, Assign, services), n - 1, Remove, services), n, Return, services)

\* what calling function with a handler as its argument does to the table
Effect(t, function, h) ==
    CASE function = Config -> syscall_config_mode(t)
      [] function = Assign -> assign_syscall(t, h.ID, h.function, h.FLAGS)
      [] function = Remove -> remove_syscall(t, h.ID)
      [] OTHER -> t

-----------------------------------------------------------------------------
\* What follows the table in memory is not determined by the source: an entry
\* read there has some ID, flags and function, the last none of this file's.
Init ==
    /\ syscalls = [id \in IDs |-> Empty]
    /\ beyond \in [ID : {0, SYSCALL_COUNT}, FLAGS : Flags, function : {None, Stray}]
    /\ initialised = FALSE
    /\ removed = {}
    /\ called = [id |-> 0, wasRemoved |-> FALSE, result |-> INVALID]

\* the history of the table over a step that assigned the entries of assigned
Remember(assigned) ==
    removed' = {id \in IDs \ assigned :
                  \/ id \in removed /\ syscalls'[id] = syscalls[id]
                  \/ EXISTS \in syscalls[id].FLAGS /\ syscalls'[id].FLAGS = {}}

\* mutant: configuration mode goes to the last ID of the table
InitSyscalls_last ==
    /\ ~initialised
    /\ initialised' = TRUE
    /\ syscalls' = assign_syscall(syscalls, SYSCALL_COUNT - 1, Config, {EXISTS, WRITE_PROTECTED})
    /\ UNCHANGED <<beyond, removed, called>>

\* the table is clear at boot; configuration mode goes to an ID past its end,
\* and the SYSCALL_INVALID that assign_syscall answers is not looked at
InitSyscalls ==
    /\ ~initialised
    /\ initialised' = TRUE
    /\ syscalls' = assign_syscall(syscalls, SYSCALL_COUNT + 1, Config, {EXISTS, WRITE_PROTECTED})
    /\ UNCHANGED <<beyond, removed, called>>

AssignSyscall(h) ==
    /\ initialised
    /\ syscalls' = assign_syscall(syscalls, h.ID, h.function, h.FLAGS)
    /\ Remember(IF h.function = None THEN {} ELSE {h.ID})
    /\ UNCHANGED <<beyond, initialised, called>>

AssignHandler(h) ==
    /\ initialised
    /\ syscalls' = assign_syscall_handler(syscalls, h)
    /\ Remember(IF h.function = None THEN {} ELSE {h.ID})
    /\ UNCHANGED <<beyond, initialised, called>>

RemoveSyscall(id) ==
    /\ initialised
    /\ syscalls' = remove_syscall(syscalls, id)
    /\ Remember({})
    /\ UNCHANGED <<beyond, initialised, called>>

\* the entries syscall_dispatch turns away
Rejects(e) == e.ID = 0 \/ EXISTS \in e.FLAGS

\* the syscall instruction with RAX = id and RDI = h; ID SYSCALL_COUNT passes
\* the range check and reads past the table
SyscallDispatch(id, h) ==
    LET e == IF id \in IDs THEN syscalls[id] ELSE beyond
        refused == id > SYSCALL_COUNT \/ Rejects(e)
    IN  /\ initialised
        /\ called' = [id |-> id, wasRemoved |-> id \in removed,
                      result |-> IF refused THEN INVALID ELSE e.function]
        /\ syscalls' = IF refused THEN syscalls ELSE Effect(syscalls, e.function, h)
        /\ Remember({})
        /\ UNCHANGED <<beyond, initialised>>

Next ==
    \/ InitSyscalls
    \/ \E h \in Handler : AssignSyscall(h) \/ AssignHandler(h)
    \/ \E id \in 0 .. SYSCALL_COUNT : RemoveSyscall(id)
    \/ \E id \in 0 .. (SYSCALL_COUNT + 1), h \in Handler : SyscallDispatch(id, h)

Spec == Init /\ [][Next]_vars

-----------------------------------------------------------------------------
(* Properties.                                                             *)

\* An entry dispatch would look at twice (its ID is not 0) names its own slot
\* and has a function: a call with an ID of the table never jumps to 0.
EntriesCallable ==
    \A id \in IDs : syscalls[id].ID # 0 => /\ syscalls[id].ID = id
                                            /\ syscalls[id].function # None

\* Configuration mode cannot be entered, and the services it would force into
\* the table never appear there: init_syscalls registers it under the ID 2049
\* (syscalls.c:206), which assign_syscall refuses and syscall_dispatch too.  So
\* no system call, in whatever order calls are registered, removed and made,
\* changes the table.  The comments at syscalls.c:142-147 ("3 services will
\* appear") and :205 ("ID 2049 is reserved for configuration mode") say
\* otherwise.
ConfigModeNeverReached ==
    /\ called.result \notin Services
    /\ \A id \in IDs : syscalls[id].function \notin {Assign, Remove, Return}

\* remove_syscall leaves the entry "None existent / unassigned"
\* (syscalls.c:96), so a call of an ID that was registered, removed and not
\* assigned since is refused.
RemovedNotCalled ==
    called.wasRemoved => called.result = INVALID

=============================================================================

---- MODULE SyscallsProofs ----
(* Proofs about Syscalls, for a table of any size and any set of drivers.  *)
EXTENDS Syscalls, TLAPS

Entry == [ID : IDs, FLAGS : Flags, function : Drivers \cup {None}]

\* An entry holds what a driver registered: in particular none holds one of
\* the configuration services, and neither does the memory past the table.
TypeOK ==
    /\ syscalls \in [IDs -> Entry]
    /\ beyond.function \in {None, Stray}

IInv == TypeOK /\ EntriesCallable /\ ConfigModeNeverReached

\* No entry of such a table runs one of the services.
LEMMA NoServiceHeld ==
    ASSUME NEW e \in Entry
    PROVE  e.function \notin Services
  BY SyscallsAssumption DEF Entry

\* Assigning keeps the table's type and leaves it callable.
LEMMA AssignKeeps ==
    ASSUME NEW t \in [IDs -> Entry], NEW id \in Nat,
           NEW function \in Drivers \cup {None}, NEW flags \in Flags,
           \A i \in IDs : t[i].ID # 0 => t[i].ID = i /\ t[i].function # None
    PROVE  LET new == assign_syscall(t, id, function, flags)
           IN  /\ new \in [IDs -> Entry]
               /\ \A i \in IDs : new[i].ID # 0 => new[i].ID = i /\ new[i].function # None
  <1>1. CASE id >= SYSCALL_COUNT \/ function = None \/ EXISTS \in t[id].FLAGS
    BY <1>1 DEF assign_syscall
  <1>2. CASE ~(id >= SYSCALL_COUNT \/ function = None \/ EXISTS \in t[id].FLAGS)
    <2>1. id \in IDs
      BY <1>2, SyscallsAssumption DEF IDs
    <2>2. assign_syscall(t, id, function, flags)
            = [t EXCEPT ![id] = [ID |-> id, FLAGS |-> flags, function |-> function]]
      BY <1>2 DEF assign_syscall
    <2> QED BY <1>2, <2>1, <2>2 DEF Entry
  <1> QED BY <1>1, <1>2

\* So does registering a whole handler, which is assigning its parts.
LEMMA HandlerIsAssign ==
    ASSUME NEW t, NEW h \in Handler
    PROVE  assign_syscall_handler(t, h) = assign_syscall(t, h.ID, h.function, h.FLAGS)
  <1>1. h = [ID |-> h.ID, FLAGS |-> h.FLAGS, function |-> h.function]
    BY DEF Handler
  <1> QED BY <1>1 DEF assign_syscall_handler, assign_syscall

\* Removing clears the flags of one entry and nothing else.
LEMMA RemoveKeeps ==
    ASSUME NEW t \in [IDs -> Entry], NEW id \in Nat
    PROVE  LET new == remove_syscall(t, id)
           IN  /\ new \in [IDs -> Entry]
               /\ \A i \in IDs : new[i] = t[i] \/ new[i] = [t[i] EXCEPT !.FLAGS = {}]
  <1>1. CASE id >= SYSCALL_COUNT
    BY <1>1 DEF remove_syscall
  <1>2. CASE ~(id >= SYSCALL_COUNT)
    <2>1. id \in IDs
      BY <1>2, SyscallsAssumption DEF IDs
    <2>2. remove_syscall(t, id) = [t EXCEPT ![id] = [t[id] EXCEPT !.FLAGS = {}]]
      BY <1>2 DEF remove_syscall
    <2>3. [t[id] EXCEPT !.FLAGS = {}] \in Entry
      BY <2>1 DEF Entry, Flags
    <2> QED BY <2>1, <2>2, <2>3
  <1> QED BY <1>1, <1>2

\* A dispatch runs a driver's function or a stray one, so it never changes
\* the table.
LEMMA DispatchKeeps ==
    ASSUME TypeOK, NEW id \in 0 .. (SYSCALL_COUNT + 1), NEW h \in Handler,
           SyscallDispatch(id, h)
    PROVE  /\ UNCHANGED <<syscalls, beyond>>
           /\ called'.result \notin Services
  <1> DEFINE e == IF id \in IDs THEN syscalls[id] ELSE beyond
             refused == id > SYSCALL_COUNT \/ Rejects(e)
  <1>1. e.function \notin Services
    <2>1. CASE id \in IDs
      BY <2>1, NoServiceHeld DEF TypeOK
    <2>2. CASE id \notin IDs
      BY <2>2, SyscallsAssumption DEF TypeOK
    <2> QED BY <2>1, <2>2
  <1>2. Effect(syscalls, e.function, h) = syscalls
    BY <1>1 DEF Effect, Services
  <1>3. /\ syscalls' = IF refused THEN syscalls ELSE Effect(syscalls, e.function, h)
        /\ beyond' = beyond
        /\ called'.result = IF refused THEN INVALID ELSE e.function
    BY DEF SyscallDispatch
  <1>4. INVALID \notin Services
    BY DEF INVALID, Services, Config, Assign, Remove, Return
  <1> QED BY <1>1, <1>2, <1>3, <1>4

\* Every step keeps the invariant.
LEMMA StepKeeps ==
    ASSUME IInv, [Next]_vars
    PROVE  IInv'
  <1> USE DEF IInv
  <1>1. ASSUME TypeOK', EntriesCallable', called' = called \/ called'.result \notin Services
        PROVE  IInv'
    <2>1. \A id \in IDs : syscalls'[id].function \notin {Assign, Remove, Return}
      BY <1>1, NoServiceHeld DEF TypeOK, Services
    <2> QED BY <1>1, <2>1 DEF ConfigModeNeverReached
  <1>2. ASSUME UNCHANGED <<syscalls, beyond>>, called' = called \/ called'.result \notin Services
        PROVE  IInv'
    BY <1>1, <1>2 DEF TypeOK, EntriesCallable
  <1>3. CASE UNCHANGED vars
    BY <1>2, <1>3 DEF vars
  <1>4. CASE InitSyscalls
    <2>1. syscalls' = syscalls
      BY <1>4, SyscallsAssumption DEF InitSyscalls, assign_syscall
    <2> QED BY <1>2, <1>4, <2>1 DEF InitSyscalls
  <1>5. ASSUME NEW h \in Handler, AssignSyscall(h) \/ AssignHandler(h)
        PROVE  IInv'
    <2>1. /\ syscalls' = assign_syscall(syscalls, h.ID, h.function, h.FLAGS)
          /\ beyond' = beyond /\ called' = called
      BY <1>5, HandlerIsAssign DEF AssignSyscall, AssignHandler
    <2>2. h.ID \in Nat /\ h.function \in Drivers \cup {None} /\ h.FLAGS \in Flags
      BY SyscallsAssumption DEF Handler
    <2>3. syscalls' \in [IDs -> Entry] /\ EntriesCallable'
      BY <2>1, <2>2, AssignKeeps DEF TypeOK, EntriesCallable
    <2> QED BY <1>1, <2>1, <2>3 DEF TypeOK
  <1>6. ASSUME NEW id \in 0 .. SYSCALL_COUNT, RemoveSyscall(id)
        PROVE  IInv'
    <2>1. syscalls' = remove_syscall(syscalls, id) /\ beyond' = beyond /\ called' = called
      BY <1>6 DEF RemoveSyscall
    <2>2. /\ syscalls' \in [IDs -> Entry]
          /\ \A i \in IDs : syscalls'[i] = syscalls[i]
                              \/ syscalls'[i] = [syscalls[i] EXCEPT !.FLAGS = {}]
      BY <2>1, RemoveKeeps, SyscallsAssumption DEF TypeOK
    <2>3. EntriesCallable'
      BY <2>2 DEF TypeOK, EntriesCallable, Entry
    <2> QED BY <1>1, <2>1, <2>2, <2>3 DEF TypeOK
  <1>7. ASSUME NEW id \in 0 .. (SYSCALL_COUNT + 1), NEW h \in Handler, SyscallDispatch(id, h)
        PROVE  IInv'
    BY <1>2, <1>7, DispatchKeeps
  <1> QED BY <1>3, <1>4, <1>5, <1>6, <1>7 DEF Next

\* The table is clear at boot.
LEMMA InitEstablishes == Init => IInv
  <1>1. 0 \in IDs /\ Empty \in Entry
    BY SyscallsAssumption DEF IDs, Empty, Entry, Flags
  <1>2. Init => TypeOK /\ EntriesCallable
    BY <1>1, SyscallsAssumption DEF Init, TypeOK, EntriesCallable, Empty
  <1>3. Init => ConfigModeNeverReached
    BY <1>1, <1>2, NoServiceHeld
       DEF Init, TypeOK, ConfigModeNeverReached, Services, INVALID, Config, Assign, Remove, Return
  <1> QED BY <1>2, <1>3 DEF IInv

\* Every entry dispatch may jump through names its own slot and has a
\* function, whatever handlers are offered to assign_syscall and
\* assign_syscall_handler and in whatever order entries are removed.
THEOREM EntriesCallableAlways == Spec => []EntriesCallable
  <1>1. IInv /\ [Next]_vars => IInv'
    BY StepKeeps
  <1> QED BY <1>1, InitEstablishes, PTL DEF Spec, IInv

\* Configuration mode is never entered and its services are never in the
\* table, for a table of any size, any drivers and any order of registering,
\* removing and calling: assign_syscall refuses the ID that init_syscalls
\* reserves for it.
THEOREM ConfigModeUnreachable == Spec => []ConfigModeNeverReached
  <1>1. IInv /\ [Next]_vars => IInv'
    BY StepKeeps
  <1> QED BY <1>1, InitEstablishes, PTL DEF Spec, IInv

====

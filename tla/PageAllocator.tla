--------------------------- MODULE PageAllocator ---------------------------
(***************************************************************************)
(* What a page allocator promises its clients, whatever its bookkeeping:   *)
(* a page it hands out is free and then belongs to the caller alone, a     *)
(* freed page can be handed out again, and a request is refused only when  *)
(* no page is free.  Pmm implements it.                                    *)
(***************************************************************************)
EXTENDS Naturals

CONSTANT Managed     \* the page numbers the allocator may ever hand out

VARIABLES free,      \* pages nobody has
          held,      \* pages handed out and not freed since
          ret        \* what the last request returned, 0 for a refusal

Init == free = {} /\ held = {} /\ ret = 0

\* the allocator learns which pages exist
Open ==
    /\ held = {}
    /\ free' \in SUBSET Managed
    /\ UNCHANGED <<held, ret>>

Allocate ==
    \E p \in free : /\ ret' = p
                    /\ free' = free \ {p}
                    /\ held' = held \cup {p}

Refuse ==
    /\ free = {}
    /\ ret' = 0
    /\ UNCHANGED <<free, held>>

Release ==
    \E p \in held : /\ held' = held \ {p}
                    /\ free' = free \cup {p}
                    /\ UNCHANGED ret

\* some free pages are taken out of circulation for good
Withdraw ==
    /\ free' \in SUBSET free
    /\ UNCHANGED <<held, ret>>

Next == Open \/ Allocate \/ Refuse \/ Release \/ Withdraw

Spec == Init /\ [][Next]_<<free, held, ret>>

=============================================================================

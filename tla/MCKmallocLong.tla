---- MODULE MCKmallocLong ----
(* A long legal use of the heap: Kmalloc with 64 words, and one client      *)
(* that makes the calls below in turn, frees each block at most once and     *)
(* writes nothing.                                                          *)
EXTENDS Kmalloc, Sequences

MCSizes == {2, 10}

Malloc(size) == [op |-> "kmalloc", arg |-> size]
Free(ptr) == [op |-> "kfree", arg |-> ptr]

Calls ==
    <<Malloc(2), Malloc(2), Malloc(2), Malloc(2), Malloc(2),
      Free(116), Free(104), Malloc(10), Free(110), Free(128), Free(122), Free(134),
      Malloc(10), Free(122)>>

VARIABLE done   \* calls made so far

Call(c) ==
    IF c.op = "kfree" THEN c.arg \in {b.ptr : b \in live} /\ Kfree(c.arg)
    ELSE Kmalloc(c.arg, FALSE) \/ KmallocGrow(c.arg, FALSE)

LongNext ==
    \/ done < Len(Calls) /\ Call(Calls[done + 1]) /\ done' = done + 1
    \/ done = Len(Calls) /\ UNCHANGED <<vars, done>>

LongSpec == Init /\ done = 0 /\ [][LongNext]_<<vars, done>>

====

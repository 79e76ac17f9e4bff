---- MODULE MCSyscalls ----
(* Syscalls with a table of three entries; the two drivers, which register *)
(* their handlers in it, may be exchanged for each other.                  *)
EXTENDS Syscalls, TLC

CONSTANTS d1, d2

MCDrivers == {d1, d2}
Symmetry == Permutations(MCDrivers)

====

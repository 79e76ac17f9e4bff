---- MODULE MCKmalloc ----
(* Kmalloc with room for two growths of 16 words each.  The sizes, in      *)
(* words: a request for nothing, one that is rounded up, one as large as a  *)
(* chunk's header and one larger.                                           *)
EXTENDS Kmalloc

MCSizes == {0, 1, 4, 6}

====

----------------------------- MODULE MCMemDbg -----------------------------
(***************************************************************************)
(* MemDbg on small instances.  The addresses are alike, and the threads.   *)
(***************************************************************************)
EXTENDS MemDbg, TLC

CONSTANTS t1, t2, a1, a2, a3

Alike == Permutations(Thread) \cup Permutations(Addr)
=============================================================================

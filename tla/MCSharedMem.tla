----------------------------- MODULE MCSharedMem -----------------------------
(* Two processes with four heap pages each, of which one is out of reach.  *)
EXTENDS SharedMem

Symmetry == Permutations(Procs)
==============================================================================

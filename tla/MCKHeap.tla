------------------------------- MODULE MCKHeap -------------------------------
(* A heap of a few pages.  Clients are interchangeable.                    *)
EXTENDS KHeap

Symmetry == Permutations(Clients)
==============================================================================

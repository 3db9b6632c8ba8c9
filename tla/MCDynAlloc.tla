----------------------------- MODULE MCDynAlloc -----------------------------
(* Three pages, for blocks of three sizes of which the largest is a page.  *)
EXTENDS DynAlloc, TLC

Symmetry == Permutations(PageIds)
==============================================================================

---------------------------- MODULE MCPageFaults ----------------------------
(* A page of the program, one of the stack, two of the heap and one of     *)
(* none of these, in a working set of three.  The page file has room for   *)
(* one page of the heap.                                                   *)
EXTENDS PageFaults

CONSTANTS c1, s1

LoadedPages == <<c1, s1>>
Bits == [k \in 0..(StampBits - 1) |-> 2^(StampBits - 1 - k)]
Symmetry == Permutations(Heap)
==============================================================================

------------------------------ MODULE MCLoader -------------------------------
(* Programs of one or two segments in five pages of two parts.  The third  *)
(* page is one whose segments are not loaded.                              *)
EXTENDS Loader

Seg(va, fileSize, memSize, start) ==
  [va |-> va, fileSize |-> fileSize, memSize |-> memSize, start |-> start]

(* A whole page, a part of zeros and then only zeros, from inside a page;  *)
(* from inside a page over its end, with zeros behind.                     *)
MCImages == << <<Seg(0, 2, 3, 0), Seg(5, 0, 3, 2)>>, <<Seg(1, 3, 5, 0)>> >>
MCLimits == [p \in {2} |-> 0]
MCArrays == [frames |-> 3, disk |-> 2, envs |-> 1]
==============================================================================

------------------------------ MODULE Allocator ------------------------------
(***************************************************************************)
(* What an allocator promises: the parts it has given out do not overlap,  *)
(* each is at least as large as was asked, and stays what it is until its  *)
(* holder frees it.                                                        *)
(***************************************************************************)
EXTENDS FiniteSets, Integers

CONSTANTS Units, Requests  \* what is given out, and the sizes asked for

VARIABLE taken             \* the parts given out, with what was asked

Init == taken = {}

Alloc(t) ==
  /\ t.asked \in Requests
  /\ t.part \subseteq Units /\ Cardinality(t.part) >= t.asked
  /\ \A other \in taken : t.part \cap other.part = {}
  /\ taken' = taken \cup {t}

Free(t) == taken' = taken \ {t}

Next == (\E t \in taken' \ taken : Alloc(t)) \/ (\E t \in taken : Free(t))

Spec == Init /\ [][Next]_taken
==============================================================================

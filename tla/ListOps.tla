------------------------------- MODULE ListOps -------------------------------
(***************************************************************************)
(* The kernel keeps every queue of processes in one kind of doubly linked  *)
(* list (inc/queue.h, not part of the repository) and only ever inserts at *)
(* its head and takes from its tail.  Here a queue is a sequence with the  *)
(* OLDEST element first: the C list read from its tail to its head.        *)
(*                                                                         *)
(* The filter below is written with ranks rather than with SelectSeq: a    *)
(* recursive definition would put every module that uses it out of reach   *)
(* of the proofs.                                                          *)
(***************************************************************************)
EXTENDS Naturals, Integers, Sequences, FiniteSets, Functions

(* The positions of q that hold a member of S, and how many of them come   *)
(* at or before position i.                                                *)
PositionsOf(q, S) == {i \in DOMAIN q : q[i] \in S}
RankIn(I, i) == Cardinality({j \in I : j <= i})

(* The members of S in q, in the order q has them.                         *)
Keep(q, S) ==
  LET I == PositionsOf(q, S)
  IN  [k \in 1..Cardinality(I) |-> q[CHOOSE i \in I : RankIn(I, i) = k]]

(* LIST_REMOVE: q without e.                                               *)
Without(q, e) == Keep(q, Range(q) \ {e})

(* LIST_FOREACH walks a list from its head to its tail, that is from the   *)
(* youngest element to the oldest.                                         *)
ForEachOrder(q) == [i \in 1..Len(q) |-> q[Len(q) - i + 1]]
==============================================================================

---------------------------- MODULE OptimalFaults ----------------------------
(***************************************************************************)
(* OPTIMAL of kern/trap/fault_handler.c: the handler gives the process     *)
(* every page and records the faults of an active set that is emptied when *)
(* it is full; get_optimal_num_faults then counts the faults that the best *)
(* replacement would have had on the recorded references.                  *)
(***************************************************************************)
EXTENDS SequencesExt

CONSTANTS
  Pages,          \* pages that the process may use
  InitialLists,   \* working sets that the loader may leave
  MaxSize,        \* page_WS_max_size
  MaxReferences   \* bound on the references of the process

ASSUME OptimalConstants ==
  /\ MaxSize \in Nat \ {0} /\ MaxReferences \in Nat
  /\ \A list \in InitialLists :
       /\ list \in Seq(Pages) /\ Len(list) \in 1..MaxSize
       /\ \A i, j \in DOMAIN list : list[i] = list[j] => i = j

VARIABLES
  initial_list,     \* page_WS_list, which OPTIMAL leaves alone
  first_fault,      \* the first fault has been handled
  frames,           \* pages that have a frame
  present,          \* pages with PERM_PRESENT
  ActiveList,
  referenceStream,  \* referenceStreamList
  referenced        \* history: the references of the process

vars == <<initial_list, first_fault, frames, present, ActiveList,
          referenceStream, referenced>>

TypeOK ==
  /\ initial_list \in InitialLists
  /\ first_fault \in BOOLEAN
  /\ frames \subseteq Pages /\ present \subseteq frames
  /\ ActiveList \in Seq(Pages) /\ Len(ActiveList) <= MaxSize
  /\ referenceStream \in Seq(Pages) /\ referenced \in Seq(Pages)

Init ==
  /\ initial_list \in InitialLists
  /\ first_fault = FALSE
  /\ frames = Range(initial_list) /\ present = frames
  /\ ActiveList = <<>> /\ referenceStream = <<>> /\ referenced = <<>>

-----------------------------------------------------------------------------
(* The handler.                                                            *)

(* The first fault finds the initial working set.                          *)
Active == IF first_fault THEN ActiveList ELSE initial_list

(* A full active set is emptied for a page that is not in it.              *)
Flushed(list) == IF Len(list) = MaxSize THEN <<>> ELSE list

(* LIST_INSERT_TAIL.                                                       *)
Recorded(p) == Append(referenceStream, p)

Fault(p) ==
  /\ p \notin present
  /\ first_fault' = TRUE
  /\ frames' = frames \cup {p}
  /\ IF p \in Range(Active) /\ p \in frames
     THEN /\ present' = present \cup {p}
          /\ ActiveList' = Active
     ELSE /\ present' =
               {p} \cup IF Flushed(Active) = Active THEN present
                       ELSE present \ Range(Active)
          /\ ActiveList' = Append(Flushed(Active), p)
  /\ referenceStream' = Recorded(p)

Hit(p) ==
  /\ p \in present
  /\ UNCHANGED <<first_fault, frames, present, ActiveList, referenceStream>>

Reference(p) ==
  /\ Len(referenced) < MaxReferences
  /\ Fault(p) \/ Hit(p)
  /\ referenced' = Append(referenced, p)
  /\ UNCHANGED initial_list

Next == \E p \in Pages : Reference(p)

Spec == Init /\ [][Next]_vars

-----------------------------------------------------------------------------
(* get_optimal_num_faults.                                                 *)

(* Where p is used next, or after the end.                                 *)
NextUse(p, rest) ==
  Min({i \in DOMAIN rest : rest[i] = p} \cup {Len(rest) + 1})

(* Fault: the page whose next use is the nearest.                          *)
Farthest_Nearest(list, rest) ==
  CHOOSE i \in DOMAIN list : \A j \in DOMAIN list :
    NextUse(list[i], rest) <= NextUse(list[j], rest)

(* The first page that is not used again, else the one used last.          *)
Farthest(list, rest) ==
  Min({i \in DOMAIN list : \A j \in DOMAIN list :
         NextUse(list[i], rest) >= NextUse(list[j], rest)})

Count(list, maxWSSize, refs) ==
  LET Step(c, i) ==
        LET rest == SubSeq(refs, i, Len(refs))
        IN  IF refs[i] \in Range(c.list) THEN c
            ELSE [faults |-> c.faults + 1,
                  list |-> Append(
                    IF Len(c.list) < maxWSSize THEN c.list
                    ELSE RemoveAt(c.list, Farthest(c.list, rest)), refs[i])]
  IN  FoldLeft(Step, [list |-> list, faults |-> 0],
               [i \in DOMAIN refs |-> i]).faults

-----------------------------------------------------------------------------
(* Properties.                                                             *)

(* The reference: the smallest number of faults that any choice of the     *)
(* pages to keep can have.                                                 *)
RECURSIVE Fewest(_, _)
Fewest(S, refs) ==
  IF refs = <<>> THEN 0
  ELSE IF Head(refs) \in S THEN Fewest(S, Tail(refs))
  ELSE 1 + Min({Fewest(kept \cup {Head(refs)}, Tail(refs)) :
                  kept \in IF Cardinality(S) < MaxSize THEN {S}
                           ELSE {S \ {p} : p \in S}})

(* get_optimal_num_faults counts the faults of the best replacement there  *)
(* is for the references it is given.  The handler does not see every      *)
(* reference; the number that OPTIMAL reports is still a lower bound for   *)
(* every real algorithm on this process.                                   *)
CountIsOptimal ==
  LET reported == Count(initial_list, MaxSize, referenceStream)
  IN  /\ TypeOK
      /\ reported = Fewest(Range(initial_list), referenceStream)
      /\ reported <= Fewest(Range(initial_list), referenced)
==============================================================================

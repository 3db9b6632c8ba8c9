----------------------------- MODULE PageFaults -----------------------------
(***************************************************************************)
(* Demand paging of one process: page_fault_handler of                     *)
(* kern/trap/fault_handler.c with placement, CLOCK, LRU with aging and     *)
(* modified CLOCK, the working set list, the page file and the system      *)
(* calls that give and take pages of the user heap.                        *)
(*                                                                         *)
(* A trap runs with interrupts off, hence one action for a fault.  The     *)
(* content of a page is only compared with what the process wrote last.    *)
(***************************************************************************)
EXTENDS SequencesExt

CONSTANTS
  Code, Stack,                 \* pages of the program and of its stack
  Heap, Outside,               \* pages of the user heap and of none of these
  NoPage,                      \* NULL
  Loaded,                      \* the working set the loader leaves
  MaxSize,                     \* page_WS_max_size
  DiskFrames,                  \* frames of the page file
  StampBits,                   \* width of time_stamp
  BitAt                        \* the value of each of its bits, highest first

Pages == Code \cup Stack \cup Heap \cup Outside

ASSUME PageFaultsConstants ==
  /\ NoPage \notin Pages
  /\ (Code \cup Stack) \cap Heap = {}
  /\ Outside \cap (Code \cup Stack \cup Heap) = {}
  /\ MaxSize \in Nat
  /\ Loaded \in Seq(Code \cup Stack) /\ Len(Loaded) \in 1..MaxSize
  /\ \A i, j \in DOMAIN Loaded : Loaded[i] = Loaded[j] => i = j
  /\ DiskFrames \in Nat /\ StampBits \in Nat \ {0}
  /\ BitAt \in [0..(StampBits - 1) -> Nat \ {0}] /\ BitAt[StampBits - 1] = 1
  /\ \A k \in 1..(StampBits - 1) : BitAt[k - 1] = 2 * BitAt[k]

Algorithms == {"clock", "lru", "modified clock"}
Ends == {"no", "exited", "panic", "repeated"}
Entry == [present : BOOLEAN, used : BOOLEAN,
          modified : BOOLEAN, heap : BOOLEAN]
Content == {"none", "blank", "old", "new"}

VARIABLES
  algorithm,  \* _PageRepAlgoType
  m,          \* [ws, hand, pte, memory, disk]: what the handler changes
  last,       \* last_fault_va and num_repeated_fault
  retry,      \* the page whose fault the process returns from
  idle,       \* history: time stamp updates since the last use of a page
  written,    \* history: pages whose content the process relies on
  end         \* how the process or the kernel has ended

vars == <<algorithm, m, last, retry, idle, written, end>>

TopBit == BitAt[0]
MaxStamp == 2 * TopBit - 1

State == [ws : Seq([page : Pages, stamp : 0..MaxStamp]),
          hand : Pages \cup {NoPage},
          pte : [Pages -> Entry],
          memory : [Pages -> Content], disk : [Pages -> Content]]

TypeOK ==
  /\ algorithm \in Algorithms
  /\ m \in State
  /\ last \in [page : Pages \cup {NoPage}, times : 0..3]
  /\ retry \in Pages \cup {NoPage}
  /\ idle \in [Pages -> 0..StampBits]
  /\ written \subseteq Pages
  /\ end \in Ends

Absent ==
  [present |-> FALSE, used |-> FALSE, modified |-> FALSE, heap |-> FALSE]
HandAt(ws) == IF Len(ws) = MaxSize THEN ws[1].page ELSE NoPage

(* The loader writes every page of the program and of the stack to the     *)
(* page file and some to memory.                                           *)
Init ==
  /\ algorithm \in Algorithms
  /\ LET ws == [i \in DOMAIN Loaded |-> [page |-> Loaded[i], stamp |-> 0]]
         inside == Code \cup {p \in Stack : p \in Range(Loaded)}
     IN  m = [ws |-> ws, hand |-> HandAt(ws),
              pte |-> [p \in Pages |-> IF p \in Range(Loaded)
                         THEN [Absent EXCEPT !.present = TRUE, !.used = TRUE,
                                             !.modified = p \in Stack]
                         ELSE Absent],
              memory |-> [p \in Pages |->
                            IF p \in Range(Loaded) THEN "new" ELSE "none"],
              disk |-> [p \in Pages |->
                          IF p \in inside THEN "new" ELSE "none"]]
  /\ last = [page |-> NoPage, times |-> 0]
  /\ retry = NoPage
  /\ idle = [p \in Pages |-> 0]
  /\ written = Code \cup (Stack \cap Range(Loaded))
  /\ end = "no"

-----------------------------------------------------------------------------
(* Page table, working set and page file.                                  *)

InWs(s) == {s.ws[i].page : i \in DOMAIN s.ws}
UsedBit(s, i) == s.pte[s.ws[i].page].used
ModifiedBit(s, i) == s.pte[s.ws[i].page].modified

(* unmap_frame keeps the available bits, of which PERM_UHPAGE is one.      *)
Unmap(s, p) ==
  [s EXCEPT !.pte[p] = [Absent EXCEPT !.heap = s.pte[p].heap],
            !.memory[p] = "none"]

(* env_page_ws_invalidate; LIST_NEXT of the last element is NULL.          *)
Invalidate(s, p) ==
  IF p \notin InWs(s) THEN s
  ELSE LET i == CHOOSE j \in DOMAIN s.ws : s.ws[j].page = p
           next == IF i = Len(s.ws) THEN NoPage ELSE s.ws[i + 1].page
       IN  [Unmap(s, p) EXCEPT
              !.hand = IF s.hand = p THEN next ELSE s.hand,
              !.ws = RemoveAt(s.ws, i)]

DiskFull(s) == Cardinality({p \in Pages : s.disk[p] # "none"}) = DiskFrames

(* pf_update_env_page: a page of the heap or the stack may be new in the   *)
(* page file; a panic, which ends the process, follows when it is full.    *)
WriteBackFails(s, p) ==
  /\ s.pte[p].modified /\ s.disk[p] = "none"
  /\ DiskFull(s) \/ p \notin Heap \cup Stack

(* Fault: only a page that the page file knows is written to it.           *)
WriteBack_NotNew(s, p) ==
  IF s.pte[p].modified /\ s.disk[p] # "none"
  THEN [s EXCEPT !.disk[p] = s.memory[p], !.pte[p].modified = FALSE] ELSE s

WriteBack(s, p) ==
  IF s.pte[p].modified
  THEN [s EXCEPT !.disk[p] = s.memory[p], !.pte[p].modified = FALSE] ELSE s

(* allocate_frame, map_frame and pf_read_env_page: reading into the page   *)
(* marks it used; its modified bit is reset.                               *)
Map(s, p) ==
  [s EXCEPT
     !.pte[p] = [present |-> TRUE, used |-> s.disk[p] # "none",
                 modified |-> FALSE, heap |-> s.pte[p].heap],
     !.memory[p] = IF s.disk[p] = "none" THEN "blank" ELSE s.disk[p]]

(* A page that is not in the page file must be of the heap or the stack.   *)
Legal(s, p) == s.disk[p] # "none" \/ p \in Heap \cup Stack

(* Fault: the hand is not set.                                             *)
Placed_HandStays(s, p) ==
  IF ~Legal(s, p) THEN [to |-> s, end |-> "exited"]
  ELSE [to |-> [Map(s, p) EXCEPT
                  !.ws = Append(s.ws, [page |-> p, stamp |-> 0])],
        end |-> "no"]

(* Placement, and the second half of a replacement.                        *)
Placed(s, p) ==
  LET ws == Append(s.ws, [page |-> p, stamp |-> 0])
  IN  IF ~Legal(s, p) THEN [to |-> s, end |-> "exited"]
      ELSE [to |-> [Map(s, p) EXCEPT !.ws = ws, !.hand = HandAt(ws)],
            end |-> "no"]

-----------------------------------------------------------------------------
(* The victim: its place in the list and what the search has done to the   *)
(* used bits.                                                              *)
ClearUsed(s, S) ==
  [s EXCEPT !.pte = [p \in Pages |->
     IF \E i \in S : s.ws[i].page = p THEN [s.pte[p] EXCEPT !.used = FALSE]
     ELSE s.pte[p]]]

Unused(s) == {i \in DOMAIN s.ws : ~UsedBit(s, i)}
Clean(s) == {i \in DOMAIN s.ws : ~ModifiedBit(s, i)}

(* The first unused page from the hand; after a round all are.             *)
ClockVictim(s) ==
  IF Unused(s) = {} THEN [to |-> ClearUsed(s, DOMAIN s.ws), at |-> 1]
  ELSE [to |-> ClearUsed(s, 1..(Min(Unused(s)) - 1)), at |-> Min(Unused(s))]

(* Fault: the second round takes the first page whatever its modified bit. *)
ModifiedClockVictim_OneRound(s) ==
  IF Unused(s) # {} THEN ClockVictim(s)
  ELSE [to |-> ClearUsed(s, DOMAIN s.ws), at |-> 1]

(* Rounds that look for an unused and clean page take turns with rounds    *)
(* that look for an unused one and clear what they pass.                   *)
ModifiedClockVictim(s) ==
  LET second == ClearUsed(s, DOMAIN s.ws)
  IN  IF Unused(s) \cap Clean(s) # {}
      THEN [to |-> s, at |-> Min(Unused(s) \cap Clean(s))]
      ELSE IF Unused(s) # {} THEN ClockVictim(s)
      ELSE IF Clean(s) # {} THEN [to |-> second, at |-> Min(Clean(s))]
      ELSE [to |-> second, at |-> 1]

(* The first with the smallest time stamp.                                 *)
LruVictim(s) ==
  [to |-> s,
   at |-> Min({i \in DOMAIN s.ws :
                 \A j \in DOMAIN s.ws : s.ws[i].stamp <= s.ws[j].stamp})]

Victim(s) == CASE algorithm = "clock" -> ClockVictim(s)
               [] algorithm = "lru" -> LruVictim(s)
               [] algorithm = "modified clock" -> ModifiedClockVictim(s)

(* The clocks turn the list until the victim is first.                     *)
Rotated(s, i) ==
  IF algorithm = "lru" THEN s
  ELSE [s EXCEPT !.ws = SubSeq(s.ws, i, Len(s.ws)) \o SubSeq(s.ws, 1, i - 1)]

(* The clocks start at the hand and turn the list from there: both loops   *)
(* run off the list, or for ever, if the hand is not the first element.    *)
Replaced(s, p) ==
  LET v == Victim(s)
      page == s.ws[v.at].page
      out == Invalidate(Rotated(WriteBack(v.to, page), v.at), page)
  IN  IF \/ algorithm # "lru" /\ s.hand # s.ws[1].page
         \/ WriteBackFails(v.to, page)
      THEN [to |-> v.to, end |-> "panic"]
      ELSE Placed(out, p)

-----------------------------------------------------------------------------
(* Actions.                                                                *)

(* update_WS_time_stamps.                                                  *)
Aged(s) ==
  [ClearUsed(s, DOMAIN s.ws) EXCEPT !.ws = [i \in DOMAIN s.ws |->
     [s.ws[i] EXCEPT
        !.stamp = @ \div 2 + (IF UsedBit(s, i) THEN TopBit ELSE 0)]]]

OlderIdle(p) == IF idle[p] < StampBits THEN idle[p] + 1 ELSE idle[p]

(* A quantum of the process ends.                                          *)
ClockInterrupt ==
  /\ end = "no" /\ algorithm = "lru"
  /\ m' = Aged(m)
  /\ idle' = [p \in Pages |-> IF m.pte[p].present THEN OlderIdle(p) ELSE 0]
  /\ UNCHANGED <<algorithm, last, retry, written, end>>

(* An instruction of the process, or of a system call for it, uses a page  *)
(* that is present.                                                        *)
Access(p, write) ==
  /\ end = "no" /\ m.pte[p].present
  /\ retry \in {p, NoPage}
  /\ m' = IF write
          THEN [m EXCEPT !.pte[p].used = TRUE, !.pte[p].modified = TRUE,
                         !.memory[p] = "new",
                         !.disk[p] = IF @ = "new" THEN "old" ELSE @]
          ELSE [m EXCEPT !.pte[p].used = TRUE]
  /\ retry' = NoPage
  /\ idle' = IF algorithm = "lru" THEN [idle EXCEPT ![p] = 0] ELSE idle
  /\ written' = IF write THEN written \cup {p} ELSE written
  /\ UNCHANGED <<algorithm, last, end>>

(* Successive faults on one page; a fault of another process would only    *)
(* start the count anew.                                                   *)
Repeats(p) == IF last.page = p THEN last.times + 1 ELSE 0

(* A page that is not present: fault_handler and page_fault_handler.  A    *)
(* page of the heap that was not allocated ends the process.               *)
Fault(p) ==
  LET s == IF algorithm = "lru" THEN Aged(m) ELSE m
      handled == IF Repeats(p) = 3 THEN [to |-> s, end |-> "repeated"]
                 ELSE IF p \in Heap /\ ~s.pte[p].heap
                      THEN [to |-> s, end |-> "exited"]
                 ELSE IF Len(s.ws) < MaxSize THEN Placed(s, p)
                 ELSE Replaced(s, p)
  IN  /\ end = "no" /\ ~m.pte[p].present /\ retry # p
      /\ last' = [page |-> p, times |-> Repeats(p)]
      /\ \E done \in {handled} : m' = done.to /\ end' = done.end
      /\ retry' = IF end' = "no" THEN p ELSE NoPage
      /\ idle' = IF algorithm = "lru"
                 THEN [q \in Pages |-> IF ~m'.pte[q].present THEN 0
                                       ELSE IF q # p THEN OlderIdle(q)
                                       ELSE IF m.disk[p] = "none"
                                            THEN StampBits ELSE 0]
                 ELSE idle
      /\ UNCHANGED <<algorithm, written>>

(* allocate_user_mem, for a page of the region that malloc chose.          *)
Allocate(p) ==
  /\ end = "no" /\ retry = NoPage /\ ~m.pte[p].heap
  /\ m' = [m EXCEPT !.pte[p] = [Absent EXCEPT !.heap = TRUE]]
  /\ UNCHANGED <<algorithm, last, retry, idle, written, end>>

(* free_user_mem, for a page.                                              *)
Free(p) ==
  /\ end = "no" /\ retry = NoPage /\ m.pte[p].heap
  /\ m' = [Unmap(Invalidate([m EXCEPT !.disk[p] = "none"], p), p) EXCEPT
             !.pte[p] = Absent]
  /\ written' = written \ {p}
  /\ idle' = [idle EXCEPT ![p] = 0]
  /\ UNCHANGED <<algorithm, last, retry, end>>

Next ==
  \/ ClockInterrupt
  \/ \E p \in Pages : Fault(p) \/ (\E write \in BOOLEAN : Access(p, write))
  \/ \E p \in Heap : Allocate(p) \/ Free(p)

Spec == Init /\ [][Next]_vars
-----------------------------------------------------------------------------
(* Properties.                                                             *)

(* The working set lists the pages that are present, each once and no more *)
(* than allowed; while it is full the hand is its first element, on which  *)
(* the loops of both clocks rely.                                          *)
WorkingSet ==
  /\ TypeOK
  /\ Len(m.ws) <= MaxSize
  /\ InWs(m) = {p \in Pages : m.pte[p].present}
  /\ \A i, j \in DOMAIN m.ws : m.ws[i].page = m.ws[j].page => i = j
  /\ end = "no" /\ Len(m.ws) = MaxSize => m.hand = m.ws[1].page

(* What the process wrote last to a page, or the loader for it, is in      *)
(* memory or, when the page is out, in the page file, until the page is    *)
(* freed.                                                                  *)
NoLostWrites ==
  \A p \in written :
    IF m.pte[p].present THEN m.memory[p] = "new" ELSE m.disk[p] = "new"

(* The page that goes is the one the algorithm is for.  Modified CLOCK     *)
(* never writes a page back while it could take a clean one that was not   *)
(* used either.  The time stamps approximate LRU: no page that stays has   *)
(* been idle for longer.                                                   *)
EvictedAt(i) ==
  /\ ~m'.pte[m.ws[i].page].present
  /\ \E p \in Pages : ~m.pte[p].present /\ m'.pte[p].present

Best(s) ==
  IF Unused(s) \cap Clean(s) # {} THEN Unused(s) \cap Clean(s)
  ELSE IF Unused(s) # {} THEN Unused(s)
  ELSE IF Clean(s) # {} THEN Clean(s)
  ELSE DOMAIN s.ws

VictimAsPromised ==
  \A v \in DOMAIN m.ws : EvictedAt(v) =>
    CASE algorithm = "clock" ->
           v = Min(IF Unused(m) = {} THEN DOMAIN m.ws ELSE Unused(m))
      [] algorithm = "modified clock" -> v \in Best(m)
      [] algorithm = "lru" ->
           \A r \in DOMAIN m.ws :
             OlderIdle(m.ws[r].page) <= OlderIdle(m.ws[v].page)

VictimChoice == [][VictimAsPromised]_vars

(* "Failed to handle fault!" says the panic by which fault_handler ends a  *)
(* process for a page that faults again and again.  It could handle a      *)
(* fault on a page that was allocated.                                     *)
FaultsAreHandled == end = "repeated" => ~m.pte[last.page].heap
==============================================================================

------------------------------- MODULE UserHeap -------------------------------
(***************************************************************************)
(* The page allocator of a process, lib/uheap.c: its list of regions, its  *)
(* break, and how malloc, smalloc and sget choose a region.  Addresses and *)
(* sizes are in pages.  The descriptors of regions are blocks of the       *)
(* dynamic allocator, of which only the number left matters here.          *)
(*                                                                         *)
(* The operators work on a record h with the fields                        *)
(*    regions   RegionList                                                 *)
(*    break     uheapPageAllocBreak                                        *)
(*    blocks    blocks the dynamic allocator can still give                *)
(***************************************************************************)
EXTENDS SequencesExt

CONSTANTS
  HeapStart,   \* uheapPageAllocStart
  HeapMax,     \* USER_HEAP_MAX
  Blocks       \* descriptors the dynamic allocator has room for

ASSUME UserHeapConstants ==
  /\ HeapStart \in Nat \ {0} /\ HeapMax \in Nat /\ HeapStart < HeapMax
  /\ Blocks \in Nat

Region == [va : HeapStart..(HeapMax - 1),
           size : 1..(HeapMax - HeapStart), isFree : BOOLEAN]
HeapState == [regions : Seq(Region), break : HeapStart..HeapMax, blocks : 0..Blocks]

(* uheap_init, on the first call that needs the heap.                      *)
EmptyHeap == [regions |-> <<>>, break |-> HeapStart, blocks |-> Blocks]

-----------------------------------------------------------------------------
(* An answer is the heap after the choice and the address chosen.  A       *)
(* region may be "granted", there may be no "room" below USER_HEAP_MAX, or *)
(* no "block" for the descriptor of the rest of a split region or of a new *)
(* region at the break ("top block").                                      *)
Granted(h, a) == [heap |-> h, va |-> a, answer |-> "granted"]
Refused(h, why) == [heap |-> h, va |-> 0, answer |-> why]

(* e_ff.                                                                   *)
ExactFit(h, i) ==
  Granted([h EXCEPT !.regions[i].isFree = FALSE], h.regions[i].va)

(* w_ff.                                                                   *)
WorstFit(h, i, n) ==
  LET r == h.regions[i]
      cut == [h EXCEPT !.regions[i].isFree = FALSE, !.regions[i].size = n,
                       !.blocks = @ - 1]
  IN  IF h.blocks = 0 THEN Refused(h, "block")
      ELSE Granted([cut EXCEPT !.regions = InsertAt(@, i + 1,
                      [va |-> r.va + n, size |-> r.size - n, isFree |-> TRUE])],
                   r.va)

(* Fault: the break is lowered only, never raised.                         *)
ExtendBreak_KeepsBreak(h, n) ==
  IF h.break + n > HeapMax THEN Refused(h, "room")
  ELSE IF h.blocks = 0 THEN Refused(h, "top block")
  ELSE Granted([h EXCEPT !.regions = Append(@,
                  [va |-> h.break, size |-> n, isFree |-> FALSE]),
                !.blocks = @ - 1], h.break)

ExtendBreak(h, n) ==
  IF h.break + n > HeapMax THEN Refused(h, "room")
  ELSE IF h.blocks = 0 THEN Refused(h, "top block")
  ELSE Granted([regions |-> Append(h.regions,
                  [va |-> h.break, size |-> n, isFree |-> FALSE]),
                break |-> h.break + n, blocks |-> h.blocks - 1],
               h.break)

(* The first region that fits exactly, or the first of the largest, or new *)
(* room at the break.                                                      *)
ChooseRegion(h, n) ==
  LET size(i) == h.regions[i].size
      fits  == {i \in DOMAIN h.regions : h.regions[i].isFree /\ size(i) >= n}
      exact == {i \in fits : size(i) = n}
      worst == {i \in fits : \A j \in fits : size(j) <= size(i)}
  IN  IF exact # {} THEN ExactFit(h, Min(exact))
      ELSE IF worst # {} THEN WorstFit(h, Min(worst), n)
      ELSE ExtendBreak(h, n)

-----------------------------------------------------------------------------
(* free.                                                                   *)
DropRegion(h, i) ==
  [h EXCEPT !.regions = RemoveAt(h.regions, i), !.blocks = @ + 1]

(* Regions i and i+1 become one when i+1 is free and starts where i ends.  *)
Merge(h, i) ==
  IF /\ i \in DOMAIN h.regions /\ i + 1 \in DOMAIN h.regions
     /\ h.regions[i].isFree /\ h.regions[i + 1].isFree
     /\ h.regions[i].va + h.regions[i].size = h.regions[i + 1].va
  THEN [DropRegion(h, i + 1) EXCEPT !.regions[i].size = @ + h.regions[i + 1].size]
  ELSE h

LowerBreak(h) ==
  LET last == Len(h.regions)
  IN  IF last > 0 /\ h.regions[last].isFree
      THEN [DropRegion(h, last) EXCEPT !.break = h.regions[last].va] ELSE h

UsedAt(h, a) ==
  {i \in DOMAIN h.regions : h.regions[i].va = a /\ ~h.regions[i].isFree}

(* Fault: a free region before the one that is freed stays apart.          *)
FreeRegion_NoMergeBack(h, a) ==
  LET i == Min(UsedAt(h, a))
  IN  LowerBreak(Merge([h EXCEPT !.regions[i].isFree = TRUE], i))

(* The region at a, which is in use, is merged with the one after and the  *)
(* one before; a free region at the top lowers the break.                  *)
FreeRegion(h, a) ==
  LET i == Min(UsedAt(h, a))
      next == Merge([h EXCEPT !.regions[i].isFree = TRUE], i)
  IN  LowerBreak(Merge(next, i - 1))

-----------------------------------------------------------------------------
(* What the list must always be: regions side by side from the start to    *)
(* the break, the last one in use, no two free ones in a row.              *)
Tiled(h) ==
  LET ends(i) == h.regions[i].va + h.regions[i].size
      n == Len(h.regions)
  IN  /\ IF n = 0 THEN h.break = HeapStart
         ELSE h.regions[1].va = HeapStart /\ ends(n) = h.break
      /\ \A i \in 1..(n - 1) :
           /\ ends(i) = h.regions[i + 1].va
           /\ ~(h.regions[i].isFree /\ h.regions[i + 1].isFree)
      /\ n > 0 => ~h.regions[n].isFree
      /\ h.blocks + n = Blocks
==============================================================================

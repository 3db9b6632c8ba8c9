-------------------------------- MODULE KHeap --------------------------------
(***************************************************************************)
(* The kernel heap, kern/mem/kheap.c: the page allocator with its list of  *)
(* regions, its break and its page table entries, and the calls of         *)
(* kmalloc, kfree and krealloc one after another.  Sizes and addresses are *)
(* counted in pages from kheapPageAllocStart.                              *)
(*                                                                         *)
(* Requests of at most half a page go to the dynamic allocator, and so do  *)
(* the descriptors of regions; what matters of it here is how many blocks  *)
(* it can still give.                                                      *)
(***************************************************************************)
EXTENDS SequencesExt

CONSTANTS
  NPages,     \* pages between kheapPageAllocStart and KERNEL_HEAP_MAX
  Frames,     \* physical frames
  NoFrame,    \* an empty page table entry
  Blocks,     \* blocks the dynamic allocator has for descriptors and others
  Clients     \* parts of the kernel that hold an allocation

ASSUME KHeapConstants ==
  /\ NPages \in Nat \ {0} /\ Blocks \in Nat
  /\ NoFrame \notin Frames
  /\ IsFiniteSet(Frames) /\ Cardinality(Frames) >= NPages

VARIABLES
  heap,     \* what kheap.c and the page table keep
  owned,    \* the address and size each client holds, or nothing
  small,    \* blocks handed out to clients
  panic     \* the kernel has followed a NULL descriptor

vars == <<heap, owned, small, panic>>

Pages == 0..(NPages - 1)
NoPage == NPages                      \* the field va of a frame not in the heap
Span(a, n) == a..(a + n - 1)
Region == [va : Pages, size : 1..NPages, isFree : BOOLEAN]
Nothing == [va |-> NoPage, size |-> 0]
Zero == <<>>                          \* the content of a page set to zero

TypeOK ==
  /\ heap.regions \in Seq(Region) /\ heap.break \in 0..NPages
  /\ heap.table \in [Pages -> Frames \cup {NoFrame}]
  /\ heap.va \in [Frames -> Pages \cup {NoPage}]
  /\ heap.data \in [Frames -> (Clients \X Pages) \cup {Zero}]
  /\ heap.blocks \in 0..Blocks
  /\ owned \in [Clients -> [va : Pages, size : 1..NPages] \cup {Nothing}]
  /\ small \in 0..Blocks
  /\ panic \in BOOLEAN

Init ==
  /\ heap = [regions |-> <<>>, break |-> 0,
             table |-> [p \in Pages |-> NoFrame],
             va |-> [f \in Frames |-> NoPage],
             data |-> [f \in Frames |-> Zero],
             blocks |-> Blocks]
  /\ owned = [c \in Clients |-> Nothing]
  /\ small = 0 /\ panic = FALSE

-----------------------------------------------------------------------------
(* Pages and frames.  Which free frame a page gets makes no difference.    *)

(* alloc_page on the pages of S: a page that has a frame keeps it, another *)
(* gets one that is set to zero and remembers its address.                 *)
AllocPages(h, S) ==
  LET new == {p \in S : h.table[p] = NoFrame}
      get == CHOOSE f \in Injection(new, Frames \ Range(h.table)) : TRUE
  IN  [h EXCEPT
         !.table = [p \in Pages |-> IF p \in new THEN get[p] ELSE h.table[p]],
         !.va = [f \in Frames |-> IF f \in Range(get)
                                  THEN CHOOSE p \in new : get[p] = f ELSE h.va[f]],
         !.data = [f \in Frames |-> IF f \in Range(get) THEN Zero ELSE h.data[f]]]

(* return_page on the pages of S.                                          *)
ReturnPages(h, S) ==
  [h EXCEPT
     !.table = [p \in Pages |-> IF p \in S THEN NoFrame ELSE h.table[p]],
     !.va = [f \in Frames |-> IF \E p \in S : h.table[p] = f THEN NoPage
                              ELSE h.va[f]]]

(* kheap_virtual_address and kheap_physical_address, for whole pages.      *)
VirtualAddress(h, f) == h.va[f]
PhysicalAddress(h, p) == h.table[p]

-----------------------------------------------------------------------------
(* The list of regions.                                                    *)

(* A descriptor leaves the list and its block goes back.                   *)
DropRegion(h, i) ==
  [h EXCEPT !.regions = RemoveAt(h.regions, i), !.blocks = @ + 1]

(* A descriptor taken from the dynamic allocator enters the list at i.     *)
AddRegion(h, i, region) ==
  [h EXCEPT !.regions = InsertAt(h.regions, i, region), !.blocks = @ - 1]

(* Regions i and i+1 become one if i+1 is free and starts where i ends.    *)
Joins(h, i) ==
  /\ i \in DOMAIN h.regions /\ i + 1 \in DOMAIN h.regions
  /\ h.regions[i + 1].isFree
  /\ h.regions[i].va + h.regions[i].size = h.regions[i + 1].va

MergeNext(h, i) ==
  IF Joins(h, i)
  THEN [DropRegion(h, i + 1) EXCEPT
          !.regions[i].size = @ + h.regions[i + 1].size]
  ELSE h

-----------------------------------------------------------------------------
(* kmalloc.  A call ends well, with NULL, or with a NULL descriptor.       *)
Done(h, a) == [heap |-> h, va |-> a, end |-> "done"]
Null(h)    == [heap |-> h, va |-> NoPage, end |-> "null"]
Crash(h)   == [heap |-> h, va |-> NoPage, end |-> "crash"]

ExactFit(h, i) ==
  LET r == h.regions[i]
  IN  Done([AllocPages(h, Span(r.va, r.size)) EXCEPT !.regions[i].isFree = FALSE],
           r.va)

(* Fault: the rest of the region goes to the end of the list.              *)
WorstFit_RestToTail(h, i, n) ==
  LET r == h.regions[i]
      cut == [AllocPages(h, Span(r.va, n)) EXCEPT
                !.regions[i].isFree = FALSE, !.regions[i].size = n]
  IN  IF h.blocks = 0 THEN Null(h)
      ELSE Done(AddRegion(cut, Len(h.regions) + 1,
                  [va |-> r.va + n, size |-> r.size - n, isFree |-> TRUE]), r.va)

WorstFit(h, i, n) ==
  LET r == h.regions[i]
      cut == [AllocPages(h, Span(r.va, n)) EXCEPT
                !.regions[i].isFree = FALSE, !.regions[i].size = n]
  IN  IF h.blocks = 0 THEN Null(h)
      ELSE Done(AddRegion(cut, i + 1,
                  [va |-> r.va + n, size |-> r.size - n, isFree |-> TRUE]), r.va)

(* add_reg does not test its descriptor.                                   *)
Extend(h, n) ==
  LET more == [AllocPages(h, Span(h.break, n)) EXCEPT !.break = @ + n]
  IN  IF h.break > NPages - n THEN Null(h)
      ELSE IF h.blocks = 0 THEN Crash(h)
      ELSE Done(AddRegion(more, Len(h.regions) + 1,
                  [va |-> h.break, size |-> n, isFree |-> FALSE]), h.break)

(* The first region that fits exactly, or the first of the largest.        *)
Kmalloc(h, n) ==
  LET size(i) == h.regions[i].size
      fits  == {i \in DOMAIN h.regions : h.regions[i].isFree /\ size(i) >= n}
      exact == {i \in fits : size(i) = n}
      worst == {i \in fits : \A j \in fits : size(j) <= size(i)}
  IN  IF exact # {} THEN ExactFit(h, Min(exact))
      ELSE IF worst # {} THEN WorstFit(h, Min(worst), n)
      ELSE Extend(h, n)

-----------------------------------------------------------------------------
(* kfree, on an address of the page allocator.                             *)
Find(h, a) ==
  {i \in DOMAIN h.regions : h.regions[i].va = a /\ ~h.regions[i].isFree}

(* Shrink heap if top is free.                                             *)
LowerBreak(h, i) ==
  IF h.regions[i].va + h.regions[i].size = h.break
  THEN [DropRegion(h, i) EXCEPT !.break = h.regions[i].va]
  ELSE h

(* Fault: a region before the freed one is not looked at.                  *)
Kfree_NoMergeBack(h, a) ==
  IF Find(h, a) = {} THEN h
  ELSE LET i == Min(Find(h, a))
           r == h.regions[i]
           freed == [ReturnPages(h, Span(r.va, r.size)) EXCEPT
                       !.regions[i].isFree = TRUE]
       IN  LowerBreak(MergeNext(freed, i), i)

Kfree(h, a) ==
  IF Find(h, a) = {} THEN h
  ELSE LET i == Min(Find(h, a))
           r == h.regions[i]
           freed == [ReturnPages(h, Span(r.va, r.size)) EXCEPT
                       !.regions[i].isFree = TRUE]
           ahead == MergeNext(freed, i)
           back == i > 1 /\ ahead.regions[i - 1].isFree /\ Joins(ahead, i - 1)
       IN  IF back THEN LowerBreak(MergeNext(ahead, i - 1), i - 1)
           ELSE LowerBreak(ahead, i)

-----------------------------------------------------------------------------
(* krealloc, on an address of the page allocator.                          *)

(* The tail becomes a region of its own; its descriptor is not tested, and *)
(* the break stays even when the tail is at the top.                       *)
ShrinkTo(h, i, n) ==
  LET r == h.regions[i]
      cut == [ReturnPages(h, Span(r.va + n, r.size - n)) EXCEPT
                !.regions[i].size = n]
      rest == [va |-> r.va + n, size |-> r.size - n, isFree |-> TRUE]
  IN  IF r.size = n THEN Done(h, r.va)
      ELSE IF h.blocks = 0 THEN Crash(h)
      ELSE Done(MergeNext(AddRegion(cut, i + 1, rest), i + 1), r.va)

(* The next region is free and gives the pages that are missing.           *)
CanGrow(h, i, more) ==
  /\ i + 1 \in DOMAIN h.regions
  /\ h.regions[i + 1].isFree /\ h.regions[i + 1].size >= more

Grow(h, i, more) ==
  LET r == h.regions[i]
      grown == [AllocPages(h, Span(r.va + r.size, more)) EXCEPT
                  !.regions[i].size = @ + more,
                  !.regions[i + 1].va = @ + more,
                  !.regions[i + 1].size = @ - more]
  IN  Done(IF grown.regions[i + 1].size = 0 THEN DropRegion(grown, i + 1)
           ELSE grown, r.va)

(* memcpy of n pages.                                                      *)
Copy(h, to, from, n) ==
  [h EXCEPT !.data = [f \in Frames |->
     LET copied == {i \in 0..(n - 1) : h.table[to + i] = f}
     IN  IF copied = {} THEN h.data[f]
         ELSE h.data[h.table[from + CHOOSE i \in copied : TRUE]]]]

(* Fault: the content of the old pages is not copied.                      *)
Move_NoCopy(h, a, old, n) ==
  LET k == Kmalloc(h, n)
  IN  IF k.end # "done" THEN k ELSE [k EXCEPT !.heap = Kfree(k.heap, a)]

Move(h, a, old, n) ==
  LET k == Kmalloc(h, n)
  IN  IF k.end # "done" THEN k
      ELSE [k EXCEPT !.heap = Kfree(Copy(k.heap, k.va, a, old), a)]

Krealloc(h, a, n) ==
  IF Find(h, a) = {} THEN Null(h)
  ELSE LET i == Min(Find(h, a))
           old == h.regions[i].size
       IN  IF n <= old THEN ShrinkTo(h, i, n)
           ELSE IF CanGrow(h, i, n - old) THEN Grow(h, i, n - old)
           ELSE Move(h, a, old, n)

-----------------------------------------------------------------------------
(* The calls of the kernel's other parts.  A client fills the pages it was *)
(* given before anything else happens.                                     *)
Filled(h, c, a, from, n) ==
  [h EXCEPT !.data = [f \in Frames |->
     LET new == {i \in from..(n - 1) : h.table[a + i] = f}
     IN  IF new = {} THEN h.data[f] ELSE <<c, CHOOSE i \in new : TRUE>>]]

(* The call k ends; client c held old pages before.                        *)
Return(c, k, old, n) ==
  /\ panic' = (k.end = "crash")
  /\ IF k.end = "done"
     THEN /\ heap' = Filled(k.heap, c, k.va, old, n)
          /\ owned' = [owned EXCEPT ![c] = [va |-> k.va, size |-> n]]
     ELSE UNCHANGED <<heap, owned>>

KmallocPages(c, n) ==
  /\ ~panic /\ owned[c] = Nothing
  /\ Return(c, Kmalloc(heap, n), 0, n)
  /\ UNCHANGED small

KfreePages(c) ==
  /\ ~panic /\ owned[c] # Nothing
  /\ heap' = Kfree(heap, owned[c].va)
  /\ owned' = [owned EXCEPT ![c] = Nothing]
  /\ UNCHANGED <<small, panic>>

KreallocPages(c, n) ==
  /\ ~panic /\ owned[c] # Nothing
  /\ Return(c, Krealloc(heap, owned[c].va, n),
            IF n < owned[c].size THEN n ELSE owned[c].size, n)
  /\ UNCHANGED small

(* kmalloc and kfree of a block.                                           *)
KmallocBlock ==
  /\ ~panic /\ heap.blocks > 0
  /\ heap' = [heap EXCEPT !.blocks = @ - 1] /\ small' = small + 1
  /\ UNCHANGED <<owned, panic>>

KfreeBlock ==
  /\ ~panic /\ small > 0
  /\ heap' = [heap EXCEPT !.blocks = @ + 1] /\ small' = small - 1
  /\ UNCHANGED <<owned, panic>>

(* krealloc of a block that becomes too small: new pages, then the block   *)
(* goes back.                                                              *)
KreallocBlock(c, n) ==
  /\ ~panic /\ small > 0 /\ owned[c] = Nothing
  /\ LET k == Kmalloc(heap, n)
     IN  /\ Return(c, [k EXCEPT !.heap.blocks = @ + 1], 0, n)
         /\ small' = IF k.end = "done" THEN small - 1 ELSE small

Next ==
  \/ \E c \in Clients, n \in 1..NPages :
       KmallocPages(c, n) \/ KreallocPages(c, n) \/ KreallocBlock(c, n)
  \/ \E c \in Clients : KfreePages(c)
  \/ KmallocBlock \/ KfreeBlock

Spec == Init /\ [][Next]_vars
-----------------------------------------------------------------------------
(* Properties.                                                             *)

(* The regions stand in the list in the order of their addresses and tile  *)
(* the heap up to the break; a page has a frame exactly when it is in a    *)
(* region that is not free.                                                *)
RegionsTile ==
  LET r == heap.regions
  IN  /\ \A i \in DOMAIN r :
           r[i].va = IF i = 1 THEN 0 ELSE r[i - 1].va + r[i - 1].size
      /\ heap.break = IF r = <<>> THEN 0
                      ELSE r[Len(r)].va + r[Len(r)].size
      /\ \A p \in Pages : heap.table[p] # NoFrame <=>
           \E i \in DOMAIN r : ~r[i].isFree /\ p \in Span(r[i].va, r[i].size)

(* Each descriptor is a block of its own: none is leaked, none given back  *)
(* twice, whatever merges, splits and shrinks.                             *)
DescriptorsAccounted ==
  heap.blocks + small + Len(heap.regions) = Blocks

(* The regions that are not free are what the clients hold, one each.      *)
RegionsAreOwned ==
  /\ {[va |-> r.va, size |-> r.size] : r \in {x \in Range(heap.regions) : ~x.isFree}}
       = {owned[c] : c \in Clients} \ {Nothing}
  /\ \A c, d \in Clients : owned[c] = owned[d] => c = d \/ owned[c] = Nothing

(* The two address calls are inverse to each other on the heap, and a      *)
(* frame the heap does not use has no address in it.                       *)
AddressesInverse ==
  /\ \A p \in Pages : LET f == PhysicalAddress(heap, p)
                     IN  f # NoFrame => VirtualAddress(heap, f) = p
  /\ \A f \in Frames : LET p == VirtualAddress(heap, f)
                      IN  p # NoPage => PhysicalAddress(heap, p) = f

HeapInvariant ==
  TypeOK /\ RegionsTile /\ DescriptorsAccounted /\ RegionsAreOwned /\ AddressesInverse

(* kmalloc refuses only a request for which there is no room: free regions *)
(* never stand next to each other, so that pages that are free together    *)
(* can be had together.  Not when krealloc has left a free region at the   *)
(* top, which only a later kfree beside it joins with the rest.            *)
TopInUse ==
  heap.regions # <<>> => ~heap.regions[Len(heap.regions)].isFree

RefusesOnlyWhenFull ==
  \A n \in 1..NPages :
    Kmalloc(heap, n).end = "null" /\ heap.blocks > 0 /\ TopInUse =>
      \A a \in Pages : a + n <= NPages =>
        \E p \in Span(a, n) : heap.table[p] # NoFrame

(* What a client wrote is what it finds, at the address krealloc gave it   *)
(* last, whatever the others do.                                           *)
ContentsKept ==
  \A c \in Clients : owned[c] # Nothing =>
    \A i \in 0..(owned[c].size - 1) :
      LET f == heap.table[owned[c].va + i]
      IN  f # NoFrame /\ heap.data[f] = <<c, i>>

==============================================================================

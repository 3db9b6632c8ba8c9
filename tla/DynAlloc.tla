------------------------------ MODULE DynAlloc ------------------------------
(***************************************************************************)
(* The dynamic allocator of lib/dynamic_allocator.c: pages divided into    *)
(* blocks of one size each, a list of free blocks for every size, and a    *)
(* list of free pages.                                                     *)
(*                                                                         *)
(* Lists are sets here: which of the free blocks of a size is given out    *)
(* depends on the order of the calls and is left open.                     *)
(***************************************************************************)
EXTENDS FiniteSetsExt, Integers

CONSTANTS
  PageIds,     \* pages between dynAllocStart and dynAllocEnd
  PageSize,    \* PAGE_SIZE, a multiple of every block size
  BlockSizes,  \* powers of two from DYN_ALLOC_MIN_BLOCK_SIZE to the largest
  Requests     \* sizes that callers ask for

ASSUME DynAllocConstants ==
  /\ PageSize \in Nat \ {0}
  /\ BlockSizes \subseteq Nat \ {0}
  /\ \A s \in BlockSizes : PageSize % s = 0
  /\ Requests \subseteq Nat \ {0}
  /\ \A r \in Requests : \E s \in BlockSizes : s >= r

VARIABLES
  pageBlockInfoArr,  \* [block_size, num_of_free_blocks] of each page
  freePagesList,
  freeBlockLists,    \* the free blocks of each size
  mapped,            \* pages for which get_page was called last
  out                \* blocks given out, with the size asked for

vars == <<pageBlockInfoArr, freePagesList, freeBlockLists, mapped, out>>

Blocks(p, s) == {[page |-> p, at |-> s * i] : i \in 0..(PageSize \div s - 1)}
AllBlocks == UNION {Blocks(p, s) : p \in PageIds, s \in BlockSizes}
BlockSize(b) == pageBlockInfoArr[b.page].block_size

TypeOK ==
  /\ pageBlockInfoArr \in [PageIds -> [block_size : {0} \cup BlockSizes,
                                       num_of_free_blocks : 0..PageSize]]
  /\ freePagesList \subseteq PageIds /\ mapped \subseteq PageIds
  /\ freeBlockLists \in [BlockSizes -> SUBSET AllBlocks]
  /\ out \subseteq [block : AllBlocks, asked : Requests]

Init ==
  /\ pageBlockInfoArr = [p \in PageIds |->
                           [block_size |-> 0, num_of_free_blocks |-> 0]]
  /\ freePagesList = PageIds
  /\ freeBlockLists = [s \in BlockSizes |-> {}]
  /\ mapped = {} /\ out = {}

-----------------------------------------------------------------------------
(* nearest_pow2_ceil of the size, at least the smallest block.             *)
Rounded(size) == Min({s \in BlockSizes : s >= size})

(* A free block of the size s.                                             *)
Take(size, s) ==
  \E b \in freeBlockLists[s] :
    /\ freeBlockLists' = [freeBlockLists EXCEPT ![s] = @ \ {b}]
    /\ pageBlockInfoArr' =
         [pageBlockInfoArr EXCEPT ![b.page].num_of_free_blocks = @ - 1]
    /\ out' = out \cup {[block |-> b, asked |-> size]}
    /\ UNCHANGED <<freePagesList, mapped>>

(* Fault: the block given out is counted as free.                          *)
FreeInNewPage_All(s) == PageSize \div s

FreeInNewPage(s) == PageSize \div s - 1

(* A new page is cut up, and its first block given out.                    *)
CutPage(size, s) ==
  \E p \in freePagesList :
    /\ freePagesList' = freePagesList \ {p}
    /\ mapped' = mapped \cup {p}
    /\ \E b \in Blocks(p, s) :
         /\ b.at = 0
         /\ freeBlockLists' =
              [freeBlockLists EXCEPT ![s] = @ \cup (Blocks(p, s) \ {b})]
         /\ out' = out \cup {[block |-> b, asked |-> size]}
    /\ pageBlockInfoArr' =
         [pageBlockInfoArr EXCEPT ![p] =
            [block_size |-> s, num_of_free_blocks |-> FreeInNewPage(s)]]

(* Fault: a smaller block is as good.                                      *)
Larger_Any(s) == {l \in BlockSizes : freeBlockLists[l] # {}}

Larger(s) == {l \in BlockSizes : l > s /\ freeBlockLists[l] # {}}

AllocFromList(size) == Take(size, Rounded(size))

AllocNewPage(size) ==
  /\ freeBlockLists[Rounded(size)] = {}
  /\ CutPage(size, Rounded(size))

AllocLarger(size) ==
  /\ freeBlockLists[Rounded(size)] = {} /\ freePagesList = {}
  /\ Larger(Rounded(size)) # {}
  /\ Take(size, Min(Larger(Rounded(size))))

AllocRefused(size) ==
  /\ freeBlockLists[Rounded(size)] = {} /\ freePagesList = {}
  /\ Larger(Rounded(size)) = {}
  /\ UNCHANGED vars

alloc_block(size) == \/ AllocFromList(size) \/ AllocNewPage(size)
                     \/ AllocLarger(size) \/ AllocRefused(size)

Withdrawn(list, p) == {b \in list : b.page # p}

(* A block goes back to the list of the size of its page; a page without   *)
(* blocks in use is returned.                                              *)
free_block(taken) ==
  LET b == taken.block
      s == BlockSize(b)
      list == freeBlockLists[s] \cup {b}
      free == pageBlockInfoArr[b.page].num_of_free_blocks + 1
      whole == free = PageSize \div s
  IN  /\ freeBlockLists' = [freeBlockLists EXCEPT
           ![s] = IF whole THEN Withdrawn(list, b.page) ELSE list]
      /\ pageBlockInfoArr' = [pageBlockInfoArr EXCEPT ![b.page] =
           IF whole THEN [block_size |-> 0, num_of_free_blocks |-> 0]
           ELSE [@ EXCEPT !.num_of_free_blocks = free]]
      /\ freePagesList' = freePagesList \cup (IF whole THEN {b.page} ELSE {})
      /\ mapped' = mapped \ (IF whole THEN {b.page} ELSE {})
      /\ out' = out \ {taken}

Next == \/ \E size \in Requests : alloc_block(size)
        \/ \E taken \in out : free_block(taken)

Spec == Init /\ [][Next]_vars

-----------------------------------------------------------------------------
(* Properties.                                                             *)

(* A page is free, not mapped and without blocks, or it is divided into    *)
(* blocks of its size, each of which is in use or, once, in the list of    *)
(* that size, and one at least is in use.  num_of_free_blocks counts those *)
(* in the list.                                                            *)
FreeIn(p, s) == {b \in freeBlockLists[s] : b.page = p}
UsedIn(p) == {b \in {t.block : t \in out} : b.page = p}

Divided(p, s) ==
  /\ FreeIn(p, s) \subseteq Blocks(p, s)
  /\ UsedIn(p) = Blocks(p, s) \ FreeIn(p, s)
  /\ UsedIn(p) # {}
  /\ pageBlockInfoArr[p].num_of_free_blocks = Cardinality(FreeIn(p, s))

PageTiled(p) ==
  LET s == pageBlockInfoArr[p].block_size
  IN  /\ p \in freePagesList <=> s = 0
      /\ p \in mapped <=> s # 0
      /\ \A l \in BlockSizes \ {s} : FreeIn(p, l) = {}
      /\ s = 0 => /\ UsedIn(p) = {}
                  /\ pageBlockInfoArr[p].num_of_free_blocks = 0
      /\ s # 0 => Divided(p, s)

PagesTiled == \A p \in PageIds : PageTiled(p)

(* The allocator is an allocator: blocks in use do not overlap and are as  *)
(* large as was asked, whatever page they are in and whatever is freed.    *)
Bytes(b) == {b.page} \X (b.at .. (b.at + BlockSize(b) - 1))

Given == {[part |-> Bytes(t.block), asked |-> t.asked] : t \in out}

A == INSTANCE Allocator WITH
       Units <- PageIds \X (0..(PageSize - 1)), taken <- Given

AllocatorSpec == A!Spec
==============================================================================

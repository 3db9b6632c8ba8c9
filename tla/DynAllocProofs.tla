--------------------------- MODULE DynAllocProofs ---------------------------
(***************************************************************************)
(* For every number of pages and every choice of sizes: the dynamic        *)
(* allocator tiles its pages and implements Allocator.                     *)
(***************************************************************************)
EXTENDS DynAlloc, ListOpsProofs

(* What makes the promise inductive: a block is given out once, and a page *)
(* keeps the size of the blocks that are out.                              *)
OutOnce == \A t, u \in out : t.block = u.block => t = u
LargeEnough == \A t \in out : t.asked <= BlockSize(t.block)

IInv == TypeOK /\ PagesTiled /\ OutOnce /\ LargeEnough

SizesStay ==
  \A t \in out : t \in out' => BlockSize(t.block)' = BlockSize(t.block)

-----------------------------------------------------------------------------
(* Numbers and blocks.                                                     *)

(* Min finds the least member.                                             *)
LEMMA LeastMember ==
  ASSUME NEW S, S \subseteq Nat, S # {}
  PROVE  Min(S) \in S
BY LeastNumber DEF Min

(* A block size divides the page, so at least one block fits.              *)
LEMMA Divides ==
  ASSUME NEW s \in BlockSizes
  PROVE  /\ PageSize \div s \in Nat \ {0}
         /\ s * (PageSize \div s) = PageSize
         /\ s <= PageSize /\ PageSize \div s <= PageSize
<1>1. /\ s \in Nat \ {0} /\ PageSize \in Nat \ {0} /\ PageSize % s = 0
  BY DynAllocConstants
<1>2. PageSize \div s \in Nat
  BY <1>1
<1>3. PageSize = (s * (PageSize \div s)) + (PageSize % s)
  BY <1>1
<1>4. s * (PageSize \div s) = PageSize
  BY <1>1, <1>2, <1>3
<1> QED
  BY <1>1, <1>2, <1>4

(* A page is cut into PageSize \div s blocks, the first at its start.      *)
LEMMA BlocksOfPage ==
  ASSUME NEW p \in PageIds, NEW s \in BlockSizes
  PROVE  /\ IsFiniteSet(Blocks(p, s))
         /\ Cardinality(Blocks(p, s)) = PageSize \div s
         /\ Blocks(p, s) \subseteq AllBlocks
         /\ \A b \in Blocks(p, s) : b.page = p
         /\ [page |-> p, at |-> 0] \in Blocks(p, s)
<1> DEFINE n == PageSize \div s
           f == [i \in 0..(n - 1) |-> [page |-> p, at |-> s * i]]
<1>1. n \in Nat \ {0} /\ s \in Nat \ {0}
  BY Divides, DynAllocConstants
<1> HIDE DEF n
<1>2. Blocks(p, s) = {[page |-> p, at |-> s * i] : i \in 0..(n - 1)}
  BY DEF Blocks, n
<1>3. \A i, j \in 0..(n - 1) : s * i = s * j => i = j
  BY <1>1
<1>4. f \in Bijection(0..(n - 1), Blocks(p, s))
  BY <1>2, <1>3 DEF Bijection, Injection, Surjection, IsInjective
<1>5. IsFiniteSet(0..(n - 1)) /\ Cardinality(0..(n - 1)) = n
  BY <1>1, FS_Interval
<1>6. IsFiniteSet(Blocks(p, s)) /\ Cardinality(Blocks(p, s)) = n
  BY <1>4, <1>5, FS_Bijection DEF ExistsBijection
<1>7. s * 0 = 0 /\ 0 \in 0..(n - 1)
  BY <1>1
<1> QED
  BY <1>2, <1>6, <1>7 DEF n, AllBlocks

-----------------------------------------------------------------------------
(* The invariant.                                                          *)

(* Blocks lie in pages.                                                    *)
LEMMA BlockTypes ==
  ASSUME NEW b \in AllBlocks
  PROVE  b.page \in PageIds
BY DEF AllBlocks, Blocks

(* At the start all pages are free.                                        *)
LEMMA InitInv == Init => IInv
<1> SUFFICES ASSUME Init
             PROVE  IInv
  OBVIOUS
<1> USE DEF Init
<1>1. TypeOK
  BY DynAllocConstants DEF TypeOK
<1>2. PagesTiled
  BY DynAllocConstants DEF PagesTiled, PageTiled, FreeIn, UsedIn
<1> QED
  BY <1>1, <1>2 DEF IInv, OutOnce, LargeEnough

(* What is known of a page with a free or a used block.                    *)
LEMMA FreeBlock ==
  ASSUME IInv, NEW s \in BlockSizes, NEW b \in freeBlockLists[s]
  PROVE  /\ b.page \in PageIds /\ b \in AllBlocks
         /\ pageBlockInfoArr[b.page].block_size = s
         /\ Divided(b.page, s) /\ b \in FreeIn(b.page, s)
         /\ s # 0
         /\ \A t \in out : t.block # b
<1>1. b \in AllBlocks /\ b.page \in PageIds /\ s # 0
  BY BlockTypes, DynAllocConstants DEF IInv, TypeOK
<1>2. b \in FreeIn(b.page, s)
  BY DEF FreeIn
<1>3. PageTiled(b.page)
  BY <1>1 DEF IInv, PagesTiled
<1>4. pageBlockInfoArr[b.page].block_size = s /\ Divided(b.page, s)
  BY <1>1, <1>2, <1>3 DEF PageTiled
<1>5. \A t \in out : t.block = b => b \in UsedIn(b.page)
  BY DEF UsedIn
<1> QED
  BY <1>1, <1>2, <1>4, <1>5 DEF Divided

(* A block in use lies in a page that is cut into blocks of its size.      *)
LEMMA UsedBlock ==
  ASSUME IInv, NEW t \in out
  PROVE  /\ t.block \in AllBlocks /\ t.block.page \in PageIds
         /\ BlockSize(t.block) \in BlockSizes
         /\ Divided(t.block.page, BlockSize(t.block))
         /\ t.block \in UsedIn(t.block.page)
         /\ t.block \in Blocks(t.block.page, BlockSize(t.block))
<1>1. t.block \in AllBlocks /\ t.block.page \in PageIds
  BY BlockTypes DEF IInv, TypeOK
<1>2. t.block \in UsedIn(t.block.page)
  BY DEF UsedIn
<1>3. PageTiled(t.block.page)
  BY <1>1 DEF IInv, PagesTiled
<1>4. pageBlockInfoArr[t.block.page].block_size \in {0} \cup BlockSizes
  BY <1>1 DEF IInv, TypeOK
<1>5. /\ BlockSize(t.block) \in BlockSizes
      /\ Divided(t.block.page, BlockSize(t.block))
  BY <1>2, <1>3, <1>4 DEF PageTiled, BlockSize
<1> QED
  BY <1>1, <1>2, <1>5 DEF Divided

(* A step on one page leaves the others as they are.                       *)
LEMMA OtherPages ==
  ASSUME PagesTiled, NEW p \in PageIds, PageTiled(p)',
         \A q \in PageIds \ {p} :
           /\ pageBlockInfoArr'[q] = pageBlockInfoArr[q]
           /\ q \in freePagesList' <=> q \in freePagesList
           /\ q \in mapped' <=> q \in mapped
           /\ \A l \in BlockSizes : FreeIn(q, l)' = FreeIn(q, l)
           /\ UsedIn(q)' = UsedIn(q),
         \A q \in PageIds : pageBlockInfoArr[q].block_size \in {0} \cup BlockSizes
  PROVE  PagesTiled'
<1> SUFFICES ASSUME NEW q \in PageIds, q # p
             PROVE  PageTiled(q)'
  BY DEF PagesTiled
<1>1. PageTiled(q)
  BY DEF PagesTiled
<1> QED
  BY <1>1 DEF PageTiled, Divided

(* A block that was free, or whose page was, is new among those in use.    *)
LEMMA NewBlockOut ==
  ASSUME NEW b, NEW size, out' = out \cup {[block |-> b, asked |-> size]}
  PROVE  {t.block : t \in out'} = {t.block : t \in out} \cup {b}
<1> DEFINE new == [block |-> b, asked |-> size]
<1>1. new \in out' /\ new.block = b
  OBVIOUS
<1>2. \A t : t \in out' <=> t \in out \/ t = new
  OBVIOUS
<1> HIDE DEF new
<1> QED
  BY <1>1, <1>2

(* Giving out a free block keeps the invariant, and the sizes in use.      *)
LEMMA TakeKeeps ==
  ASSUME IInv, NEW size \in Requests, NEW s \in BlockSizes, s >= size,
         Take(size, s)
  PROVE  IInv' /\ SizesStay
<1>1. PICK b \in freeBlockLists[s] :
        /\ freeBlockLists' = [freeBlockLists EXCEPT ![s] = @ \ {b}]
        /\ pageBlockInfoArr' =
             [pageBlockInfoArr EXCEPT ![b.page].num_of_free_blocks = @ - 1]
        /\ out' = out \cup {[block |-> b, asked |-> size]}
        /\ UNCHANGED <<freePagesList, mapped>>
  BY DEF Take
<1> DEFINE p == b.page
<1>2. /\ p \in PageIds /\ b \in AllBlocks
      /\ pageBlockInfoArr[p].block_size = s
      /\ Divided(p, s) /\ b \in FreeIn(p, s) /\ s # 0
      /\ \A t \in out : t.block # b
  BY FreeBlock
<1>3. /\ FreeIn(p, s)' = FreeIn(p, s) \ {b}
      /\ \A l \in BlockSizes \ {s} : FreeIn(p, l)' = FreeIn(p, l)
      /\ UsedIn(p)' = UsedIn(p) \cup {b}
  <2>1. /\ freeBlockLists'[s] = freeBlockLists[s] \ {b}
        /\ \A l \in BlockSizes \ {s} : freeBlockLists'[l] = freeBlockLists[l]
    BY <1>1 DEF IInv, TypeOK
  <2>2. UsedIn(p)' = UsedIn(p) \cup {b}
    <3>1. {t.block : t \in out'} = {t.block : t \in out} \cup {b}
      BY <1>1, NewBlockOut
    <3> QED
      BY <3>1 DEF UsedIn
  <2> QED
    BY <2>1, <2>2 DEF FreeIn
<1>4. /\ pageBlockInfoArr'[p].block_size = s
      /\ pageBlockInfoArr'[p].num_of_free_blocks =
           pageBlockInfoArr[p].num_of_free_blocks - 1
      /\ \A q \in PageIds \ {p} : pageBlockInfoArr'[q] = pageBlockInfoArr[q]
      /\ \A q \in PageIds :
           pageBlockInfoArr'[q].block_size = pageBlockInfoArr[q].block_size
  BY <1>1, <1>2 DEF IInv, TypeOK
<1>5. /\ Cardinality(FreeIn(p, s) \ {b}) = Cardinality(FreeIn(p, s)) - 1
      /\ Cardinality(FreeIn(p, s) \ {b}) \in Nat
      /\ Cardinality(FreeIn(p, s)) \in 0..PageSize
  <2>1. FreeIn(p, s) \in SUBSET Blocks(p, s)
    BY <1>2 DEF Divided
  <2>2. /\ IsFiniteSet(FreeIn(p, s))
        /\ Cardinality(FreeIn(p, s)) <= Cardinality(Blocks(p, s))
    BY <1>2, <2>1, BlocksOfPage, FS_Subset
  <2>3. Cardinality(Blocks(p, s)) = PageSize \div s
    BY <1>2, BlocksOfPage
  <2>4. Cardinality(FreeIn(p, s)) \in Nat
    BY <2>2, FS_CardinalityType
  <2>5. /\ Cardinality(FreeIn(p, s) \ {b}) = Cardinality(FreeIn(p, s)) - 1
        /\ Cardinality(FreeIn(p, s) \ {b}) \in Nat
    BY <1>2, <2>2, FS_RemoveElement, FS_CardinalityType
  <2> QED
    BY <2>2, <2>3, <2>4, <2>5, Divides, DynAllocConstants
<1>6. PageTiled(p)'
  <2>1. Divided(p, s)'
    BY <1>2, <1>3, <1>4, <1>5 DEF Divided
  <2>2. PageTiled(p)
    BY <1>2 DEF IInv, PagesTiled
  <2> QED
    BY <1>1, <1>2, <1>3, <1>4, <2>1, <2>2 DEF PageTiled
<1>7. PagesTiled'
  <2>1. ASSUME NEW q \in PageIds \ {p}
        PROVE  /\ \A l \in BlockSizes : FreeIn(q, l)' = FreeIn(q, l)
               /\ UsedIn(q)' = UsedIn(q)
    BY <1>1, <1>2 DEF FreeIn, UsedIn, IInv, TypeOK
  <2> QED
    BY <1>1, <1>2, <1>4, <1>6, <2>1, OtherPages DEF IInv, TypeOK
<1>8. TypeOK'
  <2>1. pageBlockInfoArr'[p].num_of_free_blocks \in 0..PageSize
    BY <1>2, <1>4, <1>5, DynAllocConstants DEF Divided
  <2>2. pageBlockInfoArr' \in [PageIds -> [block_size : {0} \cup BlockSizes,
                                          num_of_free_blocks : 0..PageSize]]
    BY <1>1, <1>2, <1>4, <2>1 DEF IInv, TypeOK
  <2> QED
    BY <1>1, <1>2, <2>2 DEF IInv, TypeOK
<1>9. OutOnce'
  BY <1>1, <1>2 DEF IInv, OutOnce
<1>10. ASSUME NEW t \in out
       PROVE  BlockSize(t.block)' = BlockSize(t.block)
  BY <1>4, UsedBlock DEF BlockSize
<1>11. LargeEnough'
  <2>1. BlockSize(b)' = s
    BY <1>4 DEF BlockSize
  <2> QED
    BY <1>1, <1>10, <2>1, DynAllocConstants DEF IInv, LargeEnough
<1> QED
  BY <1>7, <1>8, <1>9, <1>10, <1>11 DEF IInv, SizesStay

(* So does cutting up a new page.                                          *)
LEMMA CutKeeps ==
  ASSUME IInv, NEW size \in Requests, NEW s \in BlockSizes, s >= size,
         CutPage(size, s)
  PROVE  IInv' /\ SizesStay
<1>1. PICK p \in freePagesList : \E b \in Blocks(p, s) :
        /\ freePagesList' = freePagesList \ {p}
        /\ mapped' = mapped \cup {p}
        /\ freeBlockLists' =
             [freeBlockLists EXCEPT ![s] = @ \cup (Blocks(p, s) \ {b})]
        /\ out' = out \cup {[block |-> b, asked |-> size]}
        /\ pageBlockInfoArr' =
             [pageBlockInfoArr EXCEPT ![p] =
                [block_size |-> s, num_of_free_blocks |-> FreeInNewPage(s)]]
  BY DEF CutPage
<1>2. PICK b \in Blocks(p, s) :
        /\ freePagesList' = freePagesList \ {p}
        /\ mapped' = mapped \cup {p}
        /\ freeBlockLists' =
             [freeBlockLists EXCEPT ![s] = @ \cup (Blocks(p, s) \ {b})]
        /\ out' = out \cup {[block |-> b, asked |-> size]}
        /\ pageBlockInfoArr' =
             [pageBlockInfoArr EXCEPT ![p] =
                [block_size |-> s, num_of_free_blocks |-> FreeInNewPage(s)]]
  BY <1>1
<1>3. /\ p \in PageIds /\ s # 0
      /\ \A l \in BlockSizes : FreeIn(p, l) = {}
      /\ UsedIn(p) = {}
  <2>1. p \in PageIds /\ 0 \notin BlockSizes
    BY DynAllocConstants DEF IInv, TypeOK
  <2>2. PageTiled(p)
    BY <2>1 DEF IInv, PagesTiled
  <2> QED
    BY <2>1, <2>2 DEF PageTiled
<1>4. /\ IsFiniteSet(Blocks(p, s)) /\ Blocks(p, s) \subseteq AllBlocks
      /\ Cardinality(Blocks(p, s)) = PageSize \div s
      /\ \A c \in Blocks(p, s) : c.page = p
  BY <1>3, BlocksOfPage
<1>5. /\ Cardinality(Blocks(p, s) \ {b}) = FreeInNewPage(s)
      /\ FreeInNewPage(s) \in 0..PageSize
  <2>1. Cardinality(Blocks(p, s) \ {b}) = Cardinality(Blocks(p, s)) - 1
    BY <1>4, FS_RemoveElement
  <2> QED
    BY <1>4, <2>1, Divides, DynAllocConstants DEF FreeInNewPage
<1>6. {t.block : t \in out'} = {t.block : t \in out} \cup {b}
  BY <1>2, NewBlockOut
<1>7. /\ freeBlockLists'[s] = freeBlockLists[s] \cup (Blocks(p, s) \ {b})
      /\ \A l \in BlockSizes \ {s} : freeBlockLists'[l] = freeBlockLists[l]
  BY <1>2 DEF IInv, TypeOK
<1>8. /\ FreeIn(p, s)' = Blocks(p, s) \ {b}
      /\ \A l \in BlockSizes \ {s} : FreeIn(p, l)' = {}
      /\ UsedIn(p)' = {b}
  <2>1. FreeIn(p, s)' = Blocks(p, s) \ {b}
    BY <1>3, <1>4, <1>7 DEF FreeIn
  <2>2. \A l \in BlockSizes \ {s} : FreeIn(p, l)' = {}
    BY <1>3, <1>7 DEF FreeIn
  <2>3. UsedIn(p)' = {b}
    BY <1>3, <1>4, <1>6 DEF UsedIn
  <2> QED
    BY <2>1, <2>2, <2>3
<1>9. /\ pageBlockInfoArr'[p] =
           [block_size |-> s, num_of_free_blocks |-> FreeInNewPage(s)]
      /\ \A q \in PageIds \ {p} : pageBlockInfoArr'[q] = pageBlockInfoArr[q]
  BY <1>2, <1>3 DEF IInv, TypeOK
<1>10. PageTiled(p)'
  <2>1. Divided(p, s)'
    BY <1>5, <1>8, <1>9 DEF Divided
  <2> QED
    BY <1>2, <1>3, <1>8, <1>9, <2>1 DEF PageTiled
<1>11. PagesTiled'
  <2>1. ASSUME NEW q \in PageIds \ {p}
        PROVE  /\ \A l \in BlockSizes : FreeIn(q, l)' = FreeIn(q, l)
               /\ UsedIn(q)' = UsedIn(q)
    <3>1. UsedIn(q)' = UsedIn(q)
      BY <1>4, <1>6 DEF UsedIn
    <3>2. \A l \in BlockSizes : FreeIn(q, l)' = FreeIn(q, l)
      BY <1>4, <1>7 DEF FreeIn
    <3> QED
      BY <3>1, <3>2
  <2> QED
    BY <1>2, <1>3, <1>9, <1>10, <2>1, OtherPages DEF IInv, TypeOK
<1>12. TypeOK'
  <2>1. pageBlockInfoArr' \in [PageIds -> [block_size : {0} \cup BlockSizes,
                                          num_of_free_blocks : 0..PageSize]]
    BY <1>2, <1>3, <1>5 DEF IInv, TypeOK
  <2>2. freeBlockLists' \in [BlockSizes -> SUBSET AllBlocks]
    BY <1>2, <1>4 DEF IInv, TypeOK
  <2>3. out' \subseteq [block : AllBlocks, asked : Requests]
    BY <1>2, <1>4 DEF IInv, TypeOK
  <2> QED
    BY <1>2, <1>3, <2>1, <2>2, <2>3 DEF IInv, TypeOK
<1>13. \A t \in out : t.block.page # p
  BY <1>3 DEF UsedIn
<1>14. OutOnce'
  BY <1>2, <1>4, <1>13 DEF IInv, OutOnce
<1>15. ASSUME NEW t \in out
       PROVE  BlockSize(t.block)' = BlockSize(t.block)
  BY <1>9, <1>13, UsedBlock DEF BlockSize
<1>16. LargeEnough'
  <2>1. BlockSize(b)' = s
    BY <1>4, <1>9 DEF BlockSize
  <2> QED
    BY <1>2, <1>15, <2>1, DynAllocConstants DEF IInv, LargeEnough
<1> QED
  BY <1>11, <1>12, <1>14, <1>15, <1>16 DEF IInv, SizesStay

(* So does freeing a block, also when its page goes with it.               *)
LEMMA FreeKeeps ==
  ASSUME IInv, NEW taken \in out, free_block(taken)
  PROVE  IInv' /\ SizesStay
<1> DEFINE b == taken.block
           p == b.page
<1>0. PICK s \in BlockSizes : s = BlockSize(b)
  BY UsedBlock
<1> DEFINE free == pageBlockInfoArr[p].num_of_free_blocks + 1
           whole == free = PageSize \div s
           list == freeBlockLists[s] \cup {b}
<1>1. /\ b \in AllBlocks /\ p \in PageIds /\ s \in BlockSizes /\ s # 0
      /\ Divided(p, s) /\ b \in UsedIn(p) /\ b \in Blocks(p, s)
      /\ pageBlockInfoArr[p].block_size = s
  BY <1>0, UsedBlock, DynAllocConstants DEF BlockSize
<1>2. /\ freeBlockLists' = [freeBlockLists EXCEPT
           ![s] = IF whole THEN Withdrawn(list, p) ELSE list]
      /\ pageBlockInfoArr' = [pageBlockInfoArr EXCEPT ![p] =
           IF whole THEN [block_size |-> 0, num_of_free_blocks |-> 0]
           ELSE [@ EXCEPT !.num_of_free_blocks = free]]
      /\ freePagesList' = freePagesList \cup (IF whole THEN {p} ELSE {})
      /\ mapped' = mapped \ (IF whole THEN {p} ELSE {})
      /\ out' = out \ {taken}
  BY <1>0 DEF free_block
<1>3. /\ IsFiniteSet(Blocks(p, s))
      /\ Cardinality(Blocks(p, s)) = PageSize \div s
      /\ PageSize \div s \in Nat /\ PageSize \div s <= PageSize
  BY <1>1, BlocksOfPage, Divides
<1>4. /\ b \notin FreeIn(p, s) /\ FreeIn(p, s) \cup {b} \in SUBSET Blocks(p, s)
      /\ UsedIn(p) = Blocks(p, s) \ FreeIn(p, s)
      /\ pageBlockInfoArr[p].num_of_free_blocks = Cardinality(FreeIn(p, s))
  BY <1>1 DEF Divided
<1>5. /\ Cardinality(FreeIn(p, s) \cup {b}) = free
      /\ free \in 0..PageSize
      /\ free = PageSize \div s <=> FreeIn(p, s) \cup {b} = Blocks(p, s)
  <2>1. IsFiniteSet(FreeIn(p, s)) /\ Cardinality(FreeIn(p, s)) \in Nat
    BY <1>3, <1>4, FS_Subset, FS_CardinalityType
  <2>2. Cardinality(FreeIn(p, s) \cup {b}) = free
    BY <1>4, <2>1, FS_AddElement
  <2>3. /\ Cardinality(FreeIn(p, s) \cup {b}) <= Cardinality(Blocks(p, s))
        /\ Cardinality(FreeIn(p, s) \cup {b}) = Cardinality(Blocks(p, s))
             => FreeIn(p, s) \cup {b} = Blocks(p, s)
    BY <1>3, <1>4, FS_Subset
  <2>4. free \in Nat
    BY <1>4, <2>1
  <2> HIDE DEF free
  <2>5. free <= PageSize \div s
    BY <1>3, <2>2, <2>3
  <2>6. free \in 0..PageSize
    BY <1>3, <2>4, <2>5, DynAllocConstants
  <2>7. free = PageSize \div s <=> FreeIn(p, s) \cup {b} = Blocks(p, s)
    BY <1>3, <2>2, <2>3
  <2> QED
    BY <2>2, <2>6, <2>7
<1>6. {t.block : t \in out'} = {t.block : t \in out} \ {b}
  <2>1. \A t \in out : t.block = b => t = taken
    BY DEF IInv, OutOnce
  <2> QED
    BY <1>2, <2>1
<1>7. \A q \in PageIds \ {p} :
        /\ pageBlockInfoArr'[q] = pageBlockInfoArr[q]
        /\ q \in freePagesList' <=> q \in freePagesList
        /\ q \in mapped' <=> q \in mapped
  BY <1>2 DEF IInv, TypeOK
<1>8. /\ freeBlockLists'[s] = IF whole THEN Withdrawn(list, p) ELSE list
      /\ \A l \in BlockSizes \ {s} : freeBlockLists'[l] = freeBlockLists[l]
  BY <1>1, <1>2 DEF IInv, TypeOK
<1>9. ASSUME NEW q \in PageIds \ {p}
      PROVE  /\ \A l \in BlockSizes : FreeIn(q, l)' = FreeIn(q, l)
             /\ UsedIn(q)' = UsedIn(q)
  <2>1. UsedIn(q)' = UsedIn(q)
    BY <1>6 DEF UsedIn
  <2>2. FreeIn(q, s)' = FreeIn(q, s)
    BY <1>8 DEF FreeIn, Withdrawn
  <2>3. \A l \in BlockSizes \ {s} : FreeIn(q, l)' = FreeIn(q, l)
    BY <1>8 DEF FreeIn
  <2> QED
    BY <2>1, <2>2, <2>3
<1>10. /\ UsedIn(p)' = UsedIn(p) \ {b}
       /\ \A l \in BlockSizes \ {s} : FreeIn(p, l)' = {}
  <2>1. UsedIn(p)' = UsedIn(p) \ {b}
    BY <1>6 DEF UsedIn
  <2>2. PageTiled(p)
    BY <1>1 DEF IInv, PagesTiled
  <2> QED
    BY <1>1, <1>8, <2>1, <2>2 DEF PageTiled, FreeIn
<1>11. ASSUME whole
       PROVE  PageTiled(p)' /\ TypeOK'
  <2>1. pageBlockInfoArr'[p] = [block_size |-> 0, num_of_free_blocks |-> 0]
    BY <1>1, <1>2, <1>11 DEF IInv, TypeOK
  <2>2. UsedIn(p)' = {}
    BY <1>4, <1>5, <1>10, <1>11
  <2>3. FreeIn(p, s)' = {}
    BY <1>8, <1>11 DEF FreeIn, Withdrawn
  <2>4. p \in freePagesList' /\ p \notin mapped'
    BY <1>2, <1>11
  <2>5. PageTiled(p)'
    BY <1>1, <1>10, <2>1, <2>2, <2>3, <2>4 DEF PageTiled
  <2>6. TypeOK'
    <3>1. pageBlockInfoArr' \in [PageIds -> [block_size : {0} \cup BlockSizes,
                                            num_of_free_blocks : 0..PageSize]]
      BY <1>1, <1>2, <1>11, DynAllocConstants DEF IInv, TypeOK
    <3>2. freeBlockLists' \in [BlockSizes -> SUBSET AllBlocks]
      BY <1>1, <1>2, <1>11 DEF IInv, TypeOK, Withdrawn
    <3> QED
      BY <1>1, <1>2, <1>11, <3>1, <3>2 DEF IInv, TypeOK
  <2> QED
    BY <2>5, <2>6
<1>12. ASSUME ~whole
       PROVE  PageTiled(p)' /\ TypeOK'
  <2>1. /\ pageBlockInfoArr'[p].block_size = s
        /\ pageBlockInfoArr'[p].num_of_free_blocks = free
    BY <1>1, <1>2, <1>12 DEF IInv, TypeOK
  <2>2. FreeIn(p, s)' = FreeIn(p, s) \cup {b}
    BY <1>8, <1>12 DEF FreeIn
  <2>3. Divided(p, s)'
    BY <1>4, <1>5, <1>10, <1>12, <2>1, <2>2 DEF Divided
  <2>4. PageTiled(p)
    BY <1>1 DEF IInv, PagesTiled
  <2>5. PageTiled(p)'
    BY <1>1, <1>2, <1>10, <1>12, <2>1, <2>3, <2>4 DEF PageTiled
  <2>6. TypeOK'
    <3>1. pageBlockInfoArr' \in [PageIds -> [block_size : {0} \cup BlockSizes,
                                            num_of_free_blocks : 0..PageSize]]
      BY <1>1, <1>2, <1>5, <1>12 DEF IInv, TypeOK
    <3>2. freeBlockLists' \in [BlockSizes -> SUBSET AllBlocks]
      BY <1>1, <1>2, <1>12 DEF IInv, TypeOK
    <3> QED
      BY <1>1, <1>2, <1>12, <3>1, <3>2 DEF IInv, TypeOK
  <2> QED
    BY <2>5, <2>6
<1>13. PageTiled(p)' /\ TypeOK'
  BY <1>11, <1>12
<1>14. PagesTiled'
  BY <1>1, <1>7, <1>9, <1>13, OtherPages DEF IInv, TypeOK
<1>15. OutOnce'
  BY <1>2 DEF IInv, OutOnce
<1>16. ASSUME NEW t \in out, t # taken
       PROVE  BlockSize(t.block)' = BlockSize(t.block)
  <2>1. t.block.page \in PageIds
    BY UsedBlock
  <2>2. CASE t.block.page # p
    BY <1>7, <2>1, <2>2 DEF BlockSize
  <2>3. CASE t.block.page = p
    <3>1. t.block \in UsedIn(p) /\ t.block # b
      BY <1>16, <2>3 DEF IInv, OutOnce, UsedIn
    <3>2. ~whole
      BY <1>4, <1>5, <3>1
    <3> QED
      BY <1>1, <1>2, <2>3, <3>2 DEF BlockSize, IInv, TypeOK
  <2> QED
    BY <2>2, <2>3
<1>17. LargeEnough'
  BY <1>2, <1>16 DEF IInv, LargeEnough
<1> QED
  BY <1>2, <1>13, <1>14, <1>15, <1>16, <1>17 DEF IInv, SizesStay

(* Both sizes that alloc_block looks for are large enough.                 *)
LEMMA SizesFound ==
  ASSUME NEW size \in Requests
  PROVE  /\ Rounded(size) \in BlockSizes /\ Rounded(size) >= size
         /\ Larger(Rounded(size)) # {} =>
              /\ Min(Larger(Rounded(size))) \in BlockSizes
              /\ Min(Larger(Rounded(size))) >= size
<1>1. Rounded(size) \in BlockSizes /\ Rounded(size) >= size
  <2> DEFINE S == {s \in BlockSizes : s >= size}
  <2>1. S \subseteq Nat /\ S # {}
    BY DynAllocConstants
  <2>2. Min(S) \in S
    BY <2>1, LeastMember
  <2> QED
    BY <2>2 DEF Rounded
<1>2. ASSUME Larger(Rounded(size)) # {}
      PROVE  /\ Min(Larger(Rounded(size))) \in BlockSizes
             /\ Min(Larger(Rounded(size))) > Rounded(size)
  <2>1. Larger(Rounded(size)) \subseteq Nat
    BY DynAllocConstants DEF Larger
  <2>2. Min(Larger(Rounded(size))) \in Larger(Rounded(size))
    BY <1>2, <2>1, LeastMember
  <2> QED
    BY <2>2 DEF Larger
<1>3. ASSUME NEW l \in BlockSizes, l > Rounded(size)
      PROVE  l >= size
  <2>1. size \in Nat /\ Rounded(size) \in Nat /\ l \in Nat
    BY <1>1, DynAllocConstants
  <2> QED
    BY <1>1, <1>3, <2>1
<1> QED
  BY <1>1, <1>2, <1>3

(* Every step keeps the invariant.                                         *)
LEMMA NextInv == IInv /\ [Next]_vars => IInv'
<1> SUFFICES ASSUME IInv, [Next]_vars
             PROVE  IInv'
  OBVIOUS
<1>1. ASSUME NEW size \in Requests, AllocFromList(size)
      PROVE  IInv'
  BY <1>1, SizesFound, TakeKeeps DEF AllocFromList
<1>2. ASSUME NEW size \in Requests, AllocNewPage(size)
      PROVE  IInv'
  BY <1>2, SizesFound, CutKeeps DEF AllocNewPage
<1>3. ASSUME NEW size \in Requests, AllocLarger(size)
      PROVE  IInv'
  BY <1>3, SizesFound, TakeKeeps DEF AllocLarger
<1>4. ASSUME NEW taken \in out, free_block(taken)
      PROVE  IInv'
  BY <1>4, FreeKeeps
<1>5. ASSUME UNCHANGED vars
      PROVE  IInv'
  BY <1>5 DEF vars, IInv, TypeOK, PagesTiled, PageTiled, Divided, FreeIn,
     UsedIn, OutOnce, LargeEnough, BlockSize
<1>6. ASSUME NEW size \in Requests, alloc_block(size)
      PROVE  IInv'
  BY <1>1, <1>2, <1>3, <1>5, <1>6 DEF alloc_block, AllocRefused
<1> QED
  BY <1>4, <1>5, <1>6 DEF Next

(* In every state of the allocator each page is tiled by its blocks, and   *)
(* the blocks in use are distinct and large enough.                        *)
THEOREM Invariance == Spec => []IInv
<1>1. Init => IInv
  BY InitInv
<1>2. IInv /\ [Next]_vars => IInv'
  BY NextInv
<1> QED
  BY <1>1, <1>2, PTL DEF Spec

(* The type invariant of the run.                                          *)
THEOREM TypeCorrect == Spec => []TypeOK
<1>1. IInv => TypeOK
  BY DEF IInv
<1> QED
  BY <1>1, Invariance, PTL

(* Pages are tiled by their blocks, the count of the free ones is right,   *)
(* and a page is returned with the last block in use.                      *)
THEOREM PagesCorrect == Spec => []PagesTiled
<1>1. IInv => PagesTiled
  BY DEF IInv
<1> QED
  BY <1>1, Invariance, PTL

-----------------------------------------------------------------------------
(* The refinement.                                                         *)

(* A block lies in its page, and blocks of one size do not overlap.        *)
LEMMA BytesOfBlock ==
  ASSUME IInv, NEW t \in out
  PROVE  /\ Bytes(t.block) \subseteq PageIds \X (0..(PageSize - 1))
         /\ Bytes(t.block) # {}
         /\ Cardinality(Bytes(t.block)) >= t.asked
<1> DEFINE b == t.block
           s == BlockSize(b)
           n == PageSize \div s
<1>1. /\ b.page \in PageIds /\ s \in BlockSizes /\ b \in Blocks(b.page, s)
  BY UsedBlock
<1>2. /\ n \in Nat \ {0} /\ s * n = PageSize
      /\ s \in Nat \ {0} /\ PageSize \in Nat
  BY <1>1, Divides, DynAllocConstants
<1>3. PICK i \in 0..(n - 1) : b.at = s * i
  BY <1>1 DEF Blocks
<1> HIDE DEF n, s
<1>4. b.at \in Nat /\ b.at + s <= PageSize
  <2>1. s * (i + 1) = s * i + s /\ s * i \in Nat
    BY <1>2
  <2>2. s * (i + 1) <= s * n
    BY <1>2
  <2> QED
    BY <1>2, <1>3, <2>1, <2>2
<1>5. Bytes(b) = {b.page} \X (b.at .. (b.at + s - 1))
  BY DEF Bytes, s
<1>6. b.at .. (b.at + s - 1) \subseteq 0..(PageSize - 1)
  BY <1>2, <1>4
<1>7. <<b.page, b.at>> \in Bytes(b)
  BY <1>2, <1>4, <1>5
<1>8. Cardinality(Bytes(b)) = s
  <2>1. /\ IsFiniteSet(b.at .. (b.at + s - 1))
        /\ Cardinality(b.at .. (b.at + s - 1)) = s
    <3>1. ASSUME NEW lo \in Nat
          PROVE  /\ IsFiniteSet(lo .. (lo + s - 1))
                 /\ Cardinality(lo .. (lo + s - 1)) = s
      <4>1. /\ lo \in Int /\ lo + s - 1 \in Int /\ ~(lo > lo + s - 1)
            /\ (lo + s - 1) - lo + 1 = s
        BY <1>2
      <4> QED
        BY <4>1, FS_Interval
    <3> QED
      BY <1>4, <3>1
  <2>2. IsFiniteSet({b.page}) /\ Cardinality({b.page}) = 1
    BY FS_Singleton
  <2>3. Cardinality(Bytes(b)) =
          Cardinality({b.page}) * Cardinality(b.at .. (b.at + s - 1))
    BY <1>5, <2>1, <2>2, FS_Product
  <2> QED
    BY <1>2, <2>1, <2>2, <2>3
<1>9. t.asked <= s
  BY DEF IInv, LargeEnough, s
<1>10. t.asked \in Nat
  BY DynAllocConstants DEF IInv, TypeOK
<1> QED
  BY <1>1, <1>2, <1>5, <1>6, <1>7, <1>8, <1>9, <1>10

(* Blocks in use do not overlap.                                           *)
LEMMA BlocksApart ==
  ASSUME IInv, NEW t \in out, NEW u \in out, t # u
  PROVE  Bytes(t.block) \cap Bytes(u.block) = {}
<1>1. CASE t.block.page # u.block.page
  BY <1>1 DEF Bytes
<1>2. ASSUME t.block.page = u.block.page
      PROVE  Bytes(t.block) \cap Bytes(u.block) = {}
  <2> DEFINE p == t.block.page
             s == BlockSize(t.block)
             n == PageSize \div s
  <2>1. /\ s \in BlockSizes /\ BlockSize(u.block) = s
        /\ t.block \in Blocks(p, s) /\ u.block \in Blocks(p, s)
    BY <1>2, UsedBlock DEF BlockSize
  <2>2. s \in Nat \ {0} /\ n \in Nat
    BY <2>1, Divides, DynAllocConstants
  <2>3. PICK i \in 0..(n - 1) : t.block = [page |-> p, at |-> s * i]
    BY <2>1 DEF Blocks
  <2>4. PICK j \in 0..(n - 1) : u.block = [page |-> p, at |-> s * j]
    BY <2>1 DEF Blocks
  <2>5. i # j
    BY <2>3, <2>4 DEF IInv, OutOnce
  <2> HIDE DEF s, n
  <2>6. /\ Bytes(t.block) = {p} \X (s * i .. (s * i + s - 1))
        /\ Bytes(u.block) = {p} \X (s * j .. (s * j + s - 1))
    BY <2>1, <2>3, <2>4 DEF Bytes, s
  <2>7. s * i \in Nat /\ s * j \in Nat
    BY <2>2
  <2>8. s * i + s <= s * j \/ s * j + s <= s * i
    <3>1. ASSUME NEW a \in Nat, NEW c \in Nat, a < c
          PROVE  s * a + s <= s * c
      <4>1. s * (a + 1) <= s * c /\ s * (a + 1) = s * a + s
        BY <2>2, <3>1
      <4> QED
        BY <2>2, <4>1
    <3>2. i \in Nat /\ j \in Nat
      BY <2>2
    <3> QED
      BY <2>5, <3>1, <3>2
  <2>9. (s * i .. (s * i + s - 1)) \cap (s * j .. (s * j + s - 1)) = {}
    BY <2>2, <2>7, <2>8
  <2> QED
    BY <2>6, <2>9
<1> QED
  BY <1>1, <1>2

(* What the promise needs of a state, and so of the state after it.        *)
InUse ==
  \A t \in out :
    /\ t.asked \in Requests
    /\ Bytes(t.block) \subseteq PageIds \X (0..(PageSize - 1))
    /\ Bytes(t.block) # {}
    /\ Cardinality(Bytes(t.block)) >= t.asked
    /\ \A u \in out : t # u => Bytes(t.block) \cap Bytes(u.block) = {}

(* The invariant is enough for it ...                                      *)
LEMMA InUseInv == IInv => InUse
<1> SUFFICES ASSUME IInv, NEW t \in out
             PROVE  /\ t.asked \in Requests
                    /\ Bytes(t.block) \subseteq PageIds \X (0..(PageSize - 1))
                    /\ Bytes(t.block) # {}
                    /\ Cardinality(Bytes(t.block)) >= t.asked
                    /\ \A u \in out :
                         t # u => Bytes(t.block) \cap Bytes(u.block) = {}
  BY DEF InUse
<1>1. t.asked \in Requests
  BY DEF IInv, TypeOK
<1> QED
  BY <1>1, BytesOfBlock, BlocksApart

(* ... also in the next state.                                             *)
LEMMA InUseNext == IInv' => InUse'
  BY InUseInv, PTL

(* A block more or a block less in use, and the others as they were.       *)
OneMore == \E t : out' = out \cup {t}
OneLess == \E t \in out : out' = out \ {t}

(* Every call is one of these, and no size in use changes.                 *)
LEMMA Steps ==
  IInv /\ [Next]_vars => (OneMore \/ OneLess \/ out' = out) /\ SizesStay
<1> SUFFICES ASSUME IInv, [Next]_vars
             PROVE  (OneMore \/ OneLess \/ out' = out) /\ SizesStay
  OBVIOUS
<1> DEFINE Goal == (OneMore \/ OneLess \/ out' = out) /\ SizesStay
<1>1. ASSUME NEW size \in Requests, NEW s \in BlockSizes, s >= size,
             Take(size, s)
      PROVE  Goal
  BY <1>1, TakeKeeps DEF Take, OneMore
<1>2. ASSUME NEW size \in Requests, NEW s \in BlockSizes, s >= size,
             freeBlockLists[s] = {}, CutPage(size, s)
      PROVE  Goal
  BY <1>2, CutKeeps DEF CutPage, OneMore
<1>3. ASSUME NEW taken \in out, free_block(taken)
      PROVE  Goal
  BY <1>3, FreeKeeps DEF free_block, OneLess
<1>4. ASSUME UNCHANGED vars
      PROVE  Goal
  BY <1>4 DEF vars, SizesStay, BlockSize
<1>5. ASSUME NEW size \in Requests, alloc_block(size)
      PROVE  Goal
  <2>1. CASE AllocFromList(size)
    BY <1>1, <2>1, SizesFound DEF AllocFromList
  <2>2. CASE AllocNewPage(size)
    BY <1>2, <2>2, SizesFound DEF AllocNewPage
  <2>3. CASE AllocLarger(size)
    BY <1>1, <2>3, SizesFound DEF AllocLarger
  <2>4. CASE AllocRefused(size)
    BY <1>4, <2>4 DEF AllocRefused
  <2> QED
    BY <1>5, <2>1, <2>2, <2>3, <2>4 DEF alloc_block
<1> QED
  BY <1>3, <1>4, <1>5 DEF Next

(* Allocator counts as this module does.                                   *)
LEMMA SameCardinality ==
  ASSUME NEW S
  PROVE  A!Cardinality(S) = Cardinality(S)
BY DEF A!Cardinality, Cardinality

(* A step of the allocator is one of Allocator, or none.                   *)
LEMMA StepRefines == IInv /\ IInv' /\ [Next]_vars => [A!Next]_Given
<1> SUFFICES ASSUME IInv, IInv', [Next]_vars
             PROVE  [A!Next]_Given
  OBVIOUS
<1>1. InUse /\ InUse' /\ SizesStay /\ (OneMore \/ OneLess \/ out' = out)
  BY InUseInv, InUseNext, Steps
<1>2. ASSUME NEW t \in out, t \in out'
      PROVE  Bytes(t.block)' = Bytes(t.block)
  BY <1>1, <1>2 DEF SizesStay, Bytes
<1>3. CASE out' = out
  BY <1>2, <1>3 DEF Given
<1>4. ASSUME NEW t, t \notin out, out' = out \cup {t}
      PROVE  A!Next
  <2> DEFINE g == [part |-> Bytes(t.block)', asked |-> t.asked]
  <2>1. Given' = Given \cup {g}
    BY <1>2, <1>4 DEF Given
  <2>2. /\ t.asked \in Requests
        /\ Bytes(t.block)' \subseteq PageIds \X (0..(PageSize - 1))
        /\ Bytes(t.block)' # {}
        /\ Cardinality(Bytes(t.block)') >= t.asked
        /\ \A u \in out : Bytes(t.block)' \cap Bytes(u.block)' = {}
    BY <1>1, <1>4 DEF InUse
  <2>3. \A u \in out : g.part \cap Bytes(u.block) = {}
    BY <1>2, <1>4, <2>2
  <2>4. \A h \in Given : g.part \cap h.part = {}
    BY <2>3 DEF Given
  <2>5. g \notin Given
    BY <2>2, <2>4
  <2>6. ASSUME NEW h, h.part = Bytes(t.block)', h.asked = t.asked,
               Given' = Given \cup {h}, \A k \in Given : h.part \cap k.part = {}
        PROVE  A!Alloc(h)
    BY <2>2, <2>6, SameCardinality DEF A!Alloc
  <2> QED
    BY <2>1, <2>4, <2>5, <2>6 DEF A!Next
<1>5. ASSUME NEW t \in out, out' = out \ {t}
      PROVE  A!Next
  <2> DEFINE g == [part |-> Bytes(t.block), asked |-> t.asked]
  <2>1. g \in Given
    BY DEF Given
  <2>2. Bytes(t.block) # {}
        /\ \A u \in out : t # u => Bytes(t.block) \cap Bytes(u.block) = {}
    BY <1>1 DEF InUse
  <2>3. \A u \in out :
          t # u => g # [part |-> Bytes(u.block), asked |-> u.asked]
    BY <2>2
  <2>4. Given' = {[part |-> Bytes(u.block), asked |-> u.asked] : u \in out'}
    BY <1>2, <1>5 DEF Given
  <2>5. Given' = Given \ {g}
    BY <1>5, <2>3, <2>4 DEF Given
  <2> QED
    BY <2>1, <2>5 DEF A!Next, A!Free
<1> QED
  BY <1>1, <1>3, <1>4, <1>5 DEF OneMore, OneLess

(* The dynamic allocator keeps an allocator's promise: what it gives out   *)
(* does not overlap what is in use, is as large as was asked, and stays so *)
(* until it is freed.                                                      *)
THEOREM Refinement == Spec => AllocatorSpec
<1>1. Init => A!Init
  BY DEF Init, A!Init, Given
<1>2. IInv /\ IInv' /\ [Next]_vars => [A!Next]_Given
  BY StepRefines
<1> QED
  BY <1>1, <1>2, Invariance, PTL DEF Spec, AllocatorSpec, A!Spec

==============================================================================

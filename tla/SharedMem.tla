------------------------------- MODULE SharedMem ------------------------------
(***************************************************************************)
(* Shared memory: smalloc and sget of lib/uheap.c, the system calls they   *)
(* make, and kern/mem/shared_memory_manager.c, with malloc and free in the *)
(* same heaps and the physical frames beneath.  System calls run with      *)
(* interrupts on, so that calls of two processes interleave; one step ends *)
(* where the kernel lets go of a lock or comes to a list others read.      *)
(*                                                                         *)
(* Objects are never removed: sfree panics, and a client gives only what   *)
(* malloc returned to free.  A process that exits keeps its memory, so it  *)
(* is one that makes no more calls.                                        *)
(***************************************************************************)
EXTENDS PhysMem, UserHeap

CONSTANTS
  KernelEnd,     \* the first frame after those taken during boot
  Procs, Names,
  NoName,        \* no object
  MaxPages,      \* the largest request a client makes
  KernelBlocks,  \* blocks of the kernel heap left for objects
  MaxGets        \* bound on the references of an object

ASSUME SharedMemConstants ==
  /\ KernelEnd \in Extended..NFrames
  /\ MaxPages \in Nat \ {0} /\ MaxPages <= HeapStart
  /\ IsFiniteSet(Procs) /\ NoName \notin Names
  /\ KernelBlocks \in Nat /\ MaxGets \in Nat

VARIABLES
  phys,     \* free list, reference counts, page tables
  heap,     \* the user heap of each process
  shares,   \* AllShares.shares_list
  kblocks,  \* blocks the kernel heap can still give
  call,     \* how far each process is in its call
  held,     \* history: the regions clients were given and still use
  leaked,   \* history: regions of calls of smalloc that were refused
  panic     \* allocate_frame has found no frame

vars == <<phys, heap, shares, kblocks, call, held, leaked, panic>>

Pages == 0..(HeapMax - 1)
Steps == {"idle", "lookup", "page", "insert", "get", "ended", "corrupt"}
Idle(p) == [step |-> "idle", va |-> 0, size |-> 0, writable |-> FALSE,
            owner |-> p, name |-> NoName, frames |-> <<>>]

Share == [owner : Procs, name : Names, size : 1..MaxPages, writable : BOOLEAN,
          frames : Seq(FrameNums), references : 1..(MaxGets + 1), va : Pages]
Holding == [va : Pages, size : 1..MaxPages, use : {"private", "creator", "getter"},
            owner : Procs, name : Names \cup {NoName}]

TypeOK ==
  /\ phys \in [free : Seq(FrameNums), refs : [FrameNums -> Nat],
              pte : [Procs -> [Pages -> Entry]]]
  /\ heap \in [Procs -> HeapState]
  /\ shares \in Seq(Share) /\ kblocks \in 0..KernelBlocks
  /\ call \in [Procs -> [step : Steps, va : Pages, size : 0..MaxPages,
                         writable : BOOLEAN, owner : Procs,
                         name : Names \cup {NoName}, frames : Seq(FrameNums)]]
  /\ held \in [Procs -> SUBSET Holding]
  /\ leaked \in [Procs -> SUBSET Pages]
  /\ panic \in BOOLEAN

(* initialize_paging and sharing_init; no process has used its heap.       *)
Init ==
  /\ phys = [free |-> InitialFreeList(KernelEnd), refs |-> InitialReferences(KernelEnd),
             pte |-> [p \in Procs |-> [a \in Pages |-> Empty]]]
  /\ heap = [p \in Procs |-> EmptyHeap]
  /\ shares = <<>> /\ kblocks = KernelBlocks
  /\ call = [p \in Procs |-> Idle(p)]
  /\ held = [p \in Procs |-> {}] /\ leaked = [p \in Procs |-> {}]
  /\ panic = FALSE

Ready(p, step) == call[p].step = step /\ ~panic
Return(p) == call' = [call EXCEPT ![p] = Idle(p)]
End(p, how) == call' = [call EXCEPT ![p] = [Idle(p) EXCEPT !.step = how]]

-----------------------------------------------------------------------------
(* sys_allocate_user_mem ends a process whose region reaches USER_HEAP_MAX *)
(* itself, although the heap counts such a region as one that fits.        *)
BeyondUserHeap(a, n) == a + n >= HeapMax

(* malloc does not test the descriptor of a new region at the break: it    *)
(* writes to page 0, which ends the process by a page fault unless         *)
(* something is mapped there.                                              *)
FollowNull(p) ==
  End(p, IF GetFrameInfo(phys, p, 0) = NoFrame THEN "ended" ELSE "corrupt")

Malloc(p, n) ==
  LET r == ChooseRegion(heap[p], n)
  IN  /\ Ready(p, "idle")
      /\ \/ /\ r.answer = "granted"
            /\ heap' = [heap EXCEPT ![p] = r.heap]
            /\ IF BeyondUserHeap(r.va, n)
               THEN End(p, "ended") /\ UNCHANGED <<phys, held>>
               ELSE /\ phys' = AllocateUserMem(phys, p, r.va, n)
                    /\ held' = [held EXCEPT ![p] = @ \cup
                         {[va |-> r.va, size |-> n, use |-> "private",
                           owner |-> p, name |-> NoName]}]
                    /\ UNCHANGED call
         \/ /\ r.answer \in {"room", "block"}
            /\ UNCHANGED <<phys, heap, call, held>>
         \/ /\ r.answer = "top block"
            /\ FollowNull(p)
            /\ UNCHANGED <<phys, heap, held>>
      /\ UNCHANGED <<shares, kblocks, leaked, panic>>

(* free: sys_free_user_mem first, then the list.                           *)
Free(p, h) ==
  /\ Ready(p, "idle") /\ h \in held[p] /\ h.use = "private"
  /\ phys' = FreeUserMem(phys, p, h.va, h.size)
  /\ heap' = [heap EXCEPT ![p] = FreeRegion(@, h.va)]
  /\ held' = [held EXCEPT ![p] = @ \ {h}]
  /\ UNCHANGED <<shares, kblocks, call, leaked, panic>>

(* The first use of a page malloc gave: the fault finds it a frame.        *)
Touch(p, h, a) ==
  /\ Ready(p, "idle") /\ h \in held[p] /\ a \in Span(h.va, h.size)
  /\ phys.pte[p][a].frame = NoFrame
  /\ panic' = OutOfMemory(phys)
  /\ phys' = IF panic' THEN phys ELSE MapNewFrame(phys, p, a, TRUE)
  /\ UNCHANGED <<heap, shares, kblocks, call, held, leaked>>

-----------------------------------------------------------------------------
(* smalloc.  When the rest of a split region gets no descriptor, smalloc   *)
(* goes on with the address 0.                                             *)
Smalloc(p, name, n, writable) ==
  LET r == ChooseRegion(heap[p], n)
  IN  /\ Ready(p, "idle")
      /\ \/ /\ r.answer = "granted" /\ BeyondUserHeap(r.va, n)
            /\ End(p, "ended") /\ UNCHANGED phys
         \/ /\ r.answer \in {"room", "top block"}
            /\ UNCHANGED <<phys, call>>
         \/ /\ \/ r.answer = "block" /\ UNCHANGED phys
               \/ /\ r.answer = "granted" /\ ~BeyondUserHeap(r.va, n)
                  /\ phys' = AllocateUserMem(phys, p, r.va, n)
            /\ call' = [call EXCEPT ![p] =
                 [step |-> "lookup", va |-> r.va, size |-> n, writable |-> writable,
                  owner |-> p, name |-> name, frames |-> <<>>]]
      /\ heap' = [heap EXCEPT ![p] = r.heap]
      /\ UNCHANGED <<shares, kblocks, held, leaked, panic>>

FindShare(owner, name) ==
  {i \in DOMAIN shares : shares[i].owner = owner /\ shares[i].name = name}

(* alloc_share takes a block for the object and one for its frames, and    *)
(* gives the first one back when there is no second.                       *)
AllocShareFails == kblocks < 2

(* create_shared_object up to its first page.  Once it has refused,        *)
(* smalloc returns NULL and its region stays in use for ever.              *)
CreateShare(p) ==
  /\ Ready(p, "lookup")
  /\ IF FindShare(p, call[p].name) # {} \/ AllocShareFails
     THEN /\ Return(p) /\ UNCHANGED kblocks
          /\ leaked' = [leaked EXCEPT ![p] = @ \cup ({call[p].va} \ {0})]
     ELSE /\ kblocks' = kblocks - 2 /\ UNCHANGED leaked
          /\ call' = [call EXCEPT ![p].step = "page"]
  /\ UNCHANGED <<phys, heap, shares, held, panic>>

(* One round of the loop: the page is marked, gets a frame and is mapped.  *)
CreatePage(p) ==
  LET c == call[p]
      a == c.va + Len(c.frames)
      marked == AllocateUserMem(phys, p, a, 1)
      done == MapNewFrame(marked, p, a, TRUE)
      frames == Append(c.frames, GetFrameInfo(done, p, a))
  IN  /\ Ready(p, "page")
      /\ panic' = OutOfMemory(phys)
      /\ IF panic' THEN UNCHANGED <<phys, call>>
         ELSE /\ phys' = done
              /\ call' = [call EXCEPT ![p].frames = frames,
                   ![p].step = IF Len(frames) = c.size THEN "insert" ELSE "page"]
      /\ UNCHANGED <<heap, shares, kblocks, held, leaked>>

(* The object enters the list under the lock.  smalloc returns its         *)
(* address, which the client takes for a failure when it is 0.             *)
InsertShare(p) ==
  LET c == call[p]
      object == [owner |-> p, name |-> c.name, size |-> c.size, va |-> c.va,
                 writable |-> c.writable, frames |-> c.frames, references |-> 1]
  IN  /\ Ready(p, "insert") /\ Return(p)
      /\ shares' = Append(shares, object)
      /\ held' = IF c.va = 0 THEN held ELSE [held EXCEPT ![p] = @ \cup
                   {[va |-> c.va, size |-> c.size, use |-> "creator",
                     owner |-> p, name |-> c.name]}]
      /\ UNCHANGED <<phys, heap, kblocks, leaked, panic>>

-----------------------------------------------------------------------------
SizeOfShare(owner, name) == shares[Min(FindShare(owner, name))].size

(* sget: the size of the object first, then a region of that size.         *)
Sget(p, owner, name) ==
  LET n == SizeOfShare(owner, name)
      r == ChooseRegion(heap[p], n)
  IN  /\ Ready(p, "idle")
      /\ FindShare(owner, name) # {}      \* otherwise sget returns NULL at once
      /\ shares[Min(FindShare(owner, name))].references <= MaxGets
      /\ \/ /\ r.answer = "granted" /\ BeyondUserHeap(r.va, n)
            /\ End(p, "ended") /\ UNCHANGED phys
         \/ /\ r.answer \in {"room", "block", "top block"}
            /\ UNCHANGED <<phys, call>>
         \/ /\ r.answer = "granted" /\ ~BeyondUserHeap(r.va, n)
            /\ phys' = AllocateUserMem(phys, p, r.va, n)
            /\ call' = [call EXCEPT ![p] =
                 [step |-> "get", va |-> r.va, size |-> n, writable |-> FALSE,
                  owner |-> owner, name |-> name, frames |-> <<>>]]
      /\ heap' = [heap EXCEPT ![p] = r.heap]
      /\ UNCHANGED <<shares, kblocks, held, leaked, panic>>

(* Fault: every process that gets an object may write to it.               *)
MapFrames_AlwaysWritable(s, p, frames, va, writable) ==
  LET after[i \in 0..Len(frames)] ==
        IF i = 0 THEN s
        ELSE MapFrame(after[i - 1], p, frames[i], va + i - 1, TRUE)
  IN  after[Len(frames)]

(* The loop of get_shared_object.                                          *)
MapFrames(s, p, frames, va, writable) ==
  LET after[i \in 0..Len(frames)] ==
        IF i = 0 THEN s
        ELSE MapFrame(after[i - 1], p, frames[i], va + i - 1, writable)
  IN  after[Len(frames)]

(* get_shared_object, all of it under the lock.  Its tests for an object   *)
(* that is gone, of size 0 or outside the heap cannot come true.           *)
GetShare(p) ==
  LET c == call[p]
      i == Min(FindShare(c.owner, c.name))
  IN  /\ Ready(p, "get") /\ Return(p)
      /\ shares[i].references <= MaxGets
      /\ phys' = MapFrames(phys, p, shares[i].frames, c.va, shares[i].writable)
      /\ shares' = [shares EXCEPT ![i].references = @ + 1]
      /\ held' = [held EXCEPT ![p] = @ \cup
           {[va |-> c.va, size |-> c.size, use |-> "getter",
             owner |-> c.owner, name |-> c.name]}]
      /\ UNCHANGED <<heap, kblocks, leaked, panic>>

-----------------------------------------------------------------------------
ClientCall(p) ==
  \/ \E n \in 1..MaxPages : Malloc(p, n)
  \/ \E h \in held[p] : Free(p, h)
  \/ \E h \in held[p] : \E a \in Span(h.va, h.size) : Touch(p, h, a)
  \/ \E name \in Names, n \in 1..MaxPages, w \in BOOLEAN : Smalloc(p, name, n, w)
  \/ \E owner \in Procs, name \in Names : Sget(p, owner, name)

SystemCall(p) ==
  CreateShare(p) \/ CreatePage(p) \/ InsertShare(p) \/ GetShare(p)

Next == \E p \in Procs : ClientCall(p) \/ SystemCall(p)

Spec == Init /\ [][Next]_vars

-----------------------------------------------------------------------------
(* Properties.                                                             *)

Live(p) == call[p].step \notin {"ended", "corrupt"}
InCall(p) == call[p].step \notin {"idle", "ended", "corrupt"}

(* The regions of a process tile its heap from the start to the break, the *)
(* page below USER_HEAP_MAX is never reached by a process that lives, and  *)
(* every region in use has one of three causes: a client holds it, a call  *)
(* is working on it, or smalloc was refused after it had taken it          *)
(* (uheap.c:293): nothing else is ever lost.                               *)
HeapAccounted ==
  TypeOK /\ \A p \in Procs : Live(p) =>
    /\ Tiled(heap[p])
    /\ heap[p].break < HeapMax
    /\ {r.va : r \in {q \in Range(heap[p].regions) : ~q.isFree}}
         = {h.va : h \in held[p]} \cup leaked[p]
           \cup (IF InCall(p) THEN {call[p].va} \ {0} ELSE {})

(* The owners of the entries that map f.                                   *)
Mappings(f) == {x \in Procs \X Pages : phys.pte[x[1]][x[2]].frame = f}

(* Frames of objects that smalloc made at address 0.                       *)
LowFrames ==
  UNION ({Range(shares[i].frames) : i \in {j \in DOMAIN shares : shares[j].va = 0}}
         \cup {Range(call[p].frames) : p \in {q \in Procs : call[q].va = 0}})

(* A frame is on the free list, once, exactly when nothing refers to it;   *)
(* its count is the number of page table entries that map it, whatever the *)
(* order in which processes map, unmap, share and exit; a frame the kernel *)
(* keeps for itself is never given away.  Only an object made at address 0 *)
(* may lose mappings without its count falling.                            *)
FramesCounted ==
  /\ AvailableFrames(phys) = Cardinality({f \in FrameNums : phys.refs[f] = 0})
  /\ \A f \in FrameNums :
       /\ f \in Range(phys.free) <=> phys.refs[f] = 0
       /\ f \in Reserved(KernelEnd) => phys.refs[f] = 1 /\ (f # NoFrame => Mappings(f) = {})
       /\ f \notin Reserved(KernelEnd) => phys.refs[f] >= Cardinality(Mappings(f))
       /\ f \notin Reserved(KernelEnd) \cup LowFrames => phys.refs[f] = Cardinality(Mappings(f))

Object(h) == shares[Min(FindShare(h.owner, h.name))]

(* Every process that holds an object sees its frames, in order, at the    *)
(* address it was given, writable exactly if it made the object or the     *)
(* object is writable; there is one object of each owner and name; the     *)
(* count of references is one for the creator and one for every sget.      *)
HoldersSeeObject ==
  /\ \A i, j \in DOMAIN shares :
       /\ shares[i].owner = shares[j].owner /\ shares[i].name = shares[j].name => i = j
       /\ i # j => Range(shares[i].frames) \cap Range(shares[j].frames) = {}
  /\ \A p \in Procs : \A h \in held[p] : h.use # "private" =>
       \A i \in 1..h.size :
         LET e == phys.pte[p][h.va + i - 1]
         IN  /\ e.frame = Object(h).frames[i]
             /\ e.writable = (h.use = "creator" \/ Object(h).writable)
  /\ \A i \in DOMAIN shares :
       shares[i].references = 1 + Cardinality(
         {x \in UNION {{p} \X held[p] : p \in Procs} :
            /\ x[2].use = "getter"
            /\ x[2].owner = shares[i].owner /\ x[2].name = shares[i].name})

(* What malloc gave to one process no other process can reach: its frames  *)
(* are mapped once and belong to no object.                                *)
PrivateIsPrivate ==
  \A p \in Procs : \A h \in held[p] : h.use = "private" =>
    \A a \in Span(h.va, h.size) :
      LET f == phys.pte[p][a].frame
      IN  f # NoFrame =>
            /\ Mappings(f) = {<<p, a>>}
            /\ \A i \in DOMAIN shares : f \notin Range(shares[i].frames)

MemoryApart == HoldersSeeObject /\ PrivateIsPrivate

(* No step of any process changes the frame behind a page that a client    *)
(* holds before and after it: what was stored there stays there.           *)
BackingStable ==
  [][\A p \in Procs : \A h \in held[p] \cap held'[p] : \A a \in Span(h.va, h.size) :
       phys.pte[p][a].frame # NoFrame =>
         phys'.pte[p][a] = phys.pte[p][a]]_vars
==============================================================================

------------------------------- MODULE Loader --------------------------------
(***************************************************************************)
(* From power-on to running programs: the environments, env_create of      *)
(* kern/proc/user_environment.c that loads a program into memory and into  *)
(* the page file, and the paging of several processes over one page file.  *)
(*                                                                         *)
(* env_create runs with interrupts off from the look at the free list to   *)
(* the end of the load, so that its steps, one per numbered part of the    *)
(* function, are not interleaved with others.  A page fault is one step.   *)
(* Which page is replaced is the subject of PageFaults; here it is any.    *)
(*                                                                         *)
(* Contents are looked at in parts of a page.                              *)
(***************************************************************************)
EXTENDS PageFile

CONSTANTS
  NEnv,         \* environments
  EndsOfKernel, \* where the image of the kernel may end
  Images,       \* user programs: sequences of segments
  Limits,       \* pages loaded of segments that start at certain pages
  ProgramPages, \* pages of user space below the heap
  WsSizes,      \* page_WS_max_size
  TwsSize,      \* __TWS_MAX_SIZE
  Cleared,      \* parts of the zero page that initialize_paging clears
  Word,         \* values of an unsigned word
  Writes,       \* addresses that processes write to
  MaxFaults     \* bound on the page faults of all processes

Envs == 0..(NEnv - 1)
HeapPage == ProgramPages
StackPage == ProgramPages + 1
UserPages == 0..StackPage
Parts == 0..(PageSize - 1)
PageOf(a) == a \div PageSize
Span2(from, upto) == IF from < upto THEN from..(upto - 1) ELSE {}

PagesOf(seg) == Span2(PageOf(seg.va), PageOf(RoundUp(seg.va + seg.memSize)))

(* What the linker makes: segments in rising order on pages of their own.  *)
ASSUME LoaderConstants ==
  /\ NEnv \in Nat \ {0} /\ WsSizes \subseteq Nat \ {0} /\ Cleared \in 0..PageSize
  /\ \A i \in DOMAIN Images :
       /\ Len(Images[i]) > 0
       /\ \A j \in DOMAIN Images[i] :
            LET seg == Images[i][j]
            IN  /\ seg.memSize > 0 /\ seg.fileSize <= seg.memSize
                /\ PagesOf(seg) \subseteq 0..(ProgramPages - 2)
                /\ \A k \in 1..(j - 1) : \A p \in PagesOf(Images[i][k]) :
                     \A q \in PagesOf(seg) : p < q
  /\ Writes \subseteq 0..(PageSize * (StackPage + 1) - 1)
  /\ Word > PageSize * (ProgramPages + 2)

VARIABLES
  m,        \* memory, page tables, working sets and page file of all
  envs,     \* status, id and program
  free,     \* env_free_list
  load,     \* how far env_create is
  faults,   \* faults so far
  written   \* history: what the processes have written to

vars == <<m, envs, free, load, faults, written>>

(* Contents.                                                               *)
Zero == [kind |-> "zero"]
Unknown == [kind |-> "unknown"]   \* what memory held before
InFile(prog, at) == [kind |-> "file", prog |-> prog, at |-> at]
Written(e) == [kind |-> "written", env |-> e]
Blank == [u \in Parts |-> Unknown]
ZeroPage == [u \in Parts |-> IF u < Cleared THEN Zero ELSE Unknown]

NoHand == StackPage + 1
NoLoad == [step |-> "idle", env |-> 0, seg |-> 0, remaining |-> 0, table |-> 0]
NoTable == Word - 1               \* lastTableNumber at first
Statuses == {"free", "new", "exited"}
IdBase == Word                    \* the first generation
Id(e) == IdBase + e

TypeOK ==
  /\ m.free \in Seq(FrameNums) /\ m.refs \in [FrameNums -> 0..2]
  /\ m.pte \in [Envs -> [UserPages -> Entry]]
  /\ m.kdir \in [Slots -> FrameNums] /\ m.kpte \in [KPages -> KEntry]
  /\ \A e \in Envs : /\ m.ws[e] \in Seq(UserPages)
                     /\ m.hand[e] \in UserPages \cup {NoHand}
                     /\ m.dirty[e] \subseteq UserPages
                     /\ m.dfn[e] \in [UserPages -> DiskFrameNums]
  /\ m.dfree \in Seq(DiskFrameNums)
  /\ envs \in [Envs -> [status : Statuses, id : Nat, prog : Nat, max : Nat]]
  /\ free \in Seq(Envs) /\ load.step \in {"idle", "memory", "disk", "stack"}
  /\ faults \in 0..MaxFaults

(* FOS_initialize up to env_init.                                          *)
Init ==
  /\ \E end \in EndsOfKernel :
       LET boot == KernelVM(Extended * PageSize + end)
           first == FirstFreeFrame(boot)
       IN  m = [free |-> InitialFreeList(first), refs |-> InitialReferences(first),
                pte |-> [e \in Envs |-> [p \in UserPages |-> Empty]],
                mem |-> [f \in FrameNums |-> Blank],
                dirty |-> [e \in Envs |-> {}], tables |-> [e \in Envs |-> {}],
                ws |-> [e \in Envs |-> <<>>], hand |-> [e \in Envs |-> NoHand],
                tws |-> [e \in Envs |-> 0],
                kdir |-> boot.kdir, kpte |-> boot.kpte, kbrk |-> KHeapStart,
                dir |-> [e \in Envs |-> boot.kdir], kstack |-> [e \in Envs |-> 0],
                boot |-> [end |-> end, next |-> boot.next, taken |-> boot.taken],
                dfree |-> InitialDiskList, disk |-> [d \in DiskFrameNums |-> Blank],
                ddir |-> [e \in Envs |-> FALSE], dtab |-> [e \in Envs |-> {}],
                dfn |-> [e \in Envs |-> [p \in UserPages |-> NoDiskFrame]],
                panic |-> FALSE]
  /\ envs = [e \in Envs |-> [status |-> "free", id |-> 0, prog |-> 0, max |-> 0]]
  /\ free = [i \in 1..NEnv |-> i - 1]
  /\ load = NoLoad /\ faults = 0 /\ written = [e \in Envs |-> {}]

-----------------------------------------------------------------------------
(* Pages in memory.                                                        *)

(* create_page_table, in the kernel heap.                                  *)
WithTable(s, e, p) ==
  IF Table(p) \in s.tables[e] THEN s
  ELSE [WithPage(s) EXCEPT !.tables[e] = @ \cup {Table(p)}]

(* allocate_frame and loadtime_map_frame: whatever was mapped there is     *)
(* not unmapped.                                                           *)
LoadtimeMap(s, e, p) ==
  IF OutOfMemory(s) THEN Panic(s)
  ELSE LET f == FirstFree(s)
           t == WithTable(AllocateFrame(s), e, p)
       IN  [t EXCEPT !.refs[f] = @ + 1,
              !.pte[e][p] = [Empty EXCEPT !.frame = f, !.writable = TRUE]]

HandAt(ws, max) == IF Len(ws) = max THEN ws[1] ELSE NoHand

AppendToWs(s, e, p, max) ==
  LET ws == Append(s.ws[e], p)
  IN  [s EXCEPT !.ws[e] = ws, !.hand[e] = HandAt(ws, max)]

(* An entry of the table working set for each new table.                   *)
AppendToTws(s, e, p, last) ==
  IF Table(p) = last THEN s
  ELSE [s EXCEPT !.tws[e] = @ + 1, !.panic = @ \/ s.tws[e] + 1 = TwsSize]

(* The processor marks what is written.                                    *)
Fill(s, e, p, content) ==
  [s EXCEPT !.mem[s.pte[e][p].frame] = content, !.dirty[e] = @ \cup {p}]

InWs(s, e) == Range(s.ws[e])
Present(s, e, p) == s.pte[e][p].frame # NoFrame

(* Fault: the page leaves the list but stays mapped.                       *)
Invalidate_StaysMapped(s, e, p) ==
  IF p \notin InWs(s, e) THEN s
  ELSE [s EXCEPT !.ws[e] = Remove(@, p), !.dirty[e] = @ \ {p}, !.hand[e] = NoHand]

(* env_page_ws_invalidate, as in PageFaults.                               *)
Invalidate(s, e, p) ==
  IF p \notin InWs(s, e) THEN s
  ELSE LET i == CHOOSE j \in DOMAIN s.ws[e] : s.ws[e][j] = p
           next == IF i = Len(s.ws[e]) THEN NoHand ELSE s.ws[e][i + 1]
       IN  [UnmapFrame(s, e, p) EXCEPT
              !.ws[e] = RemoveAt(s.ws[e], i), !.dirty[e] = @ \ {p},
              !.hand[e] = IF s.hand[e] = p THEN next ELSE @]

-----------------------------------------------------------------------------
(* env_create.                                                             *)

(* envid2env for an id that is not 0.                                      *)
Envid2env(id) ==
  LET e == id % IdBase
  IN  IF e \in Envs /\ envs[e].status # "free" /\ envs[e].id = id THEN e ELSE NEnv

(* [2] to [4]: allocate_environment, create_user_directory,                *)
(* initialize_environment.  Without a free environment nothing happens.    *)
BeginCreate(prog, max) ==
  /\ load.step = "idle" /\ ~m.panic /\ free # <<>>
  /\ LET e == Head(free)
         enough == ~KmallocFails(m, StackPages + 1) /\ Len(m.free) > StackPages + 1
         t == CreateUserDirectory(m)
     IN  /\ m' = IF enough THEN InitializeEnvironment(t, e, t.kpte[m.kbrk].frame) ELSE Panic(m)
         /\ envs' = [envs EXCEPT ![e] = [status |-> "new", id |-> Id(e), prog |-> prog, max |-> max]]
         /\ load' = [step |-> "memory", env |-> e, seg |-> 1, remaining |-> max - 1,
                     table |-> NoTable]
  /\ free' = Tail(free)
  /\ UNCHANGED <<faults, written>>

Segment == Images[envs[load.env].prog][load.seg]

(* Segments with debugging tables are not loaded; of the data of some      *)
(* programs only a part is.                                                *)
Room(seg, remaining) ==
  LET p == PageOf(seg.va)
  IN  IF p \in DOMAIN Limits THEN Min({Limits[p], remaining}) ELSE remaining

(* What the loop of the copy leaves at page p of the segment: before the   *)
(* segment, what the frame held; after its part in the file, zeros.        *)
LoadedPage(seg, prog, p, before) ==
  [u \in Parts |->
     LET a == p * PageSize + u
     IN  IF a < seg.va THEN before[u]
         ELSE IF a < seg.va + seg.fileSize THEN InFile(prog, seg.start + a - seg.va)
         ELSE Zero]

LoadPage(s, e, seg, p, last) ==
  LET t == LoadtimeMap(s, e, p)
      listed == AppendToTws(AppendToWs(t, e, p, envs[e].max), e, p, last)
  IN  IF t.panic THEN t
      ELSE Fill(listed, e, p,
                LoadedPage(seg, envs[e].prog, p, t.mem[t.pte[e][p].frame]))

(* 7.1 program_segment_alloc_map_copy_workingset                           *)
LoadSegment ==
  LET e == load.env
      first == PageOf(Segment.va)
      n == Min({Room(Segment, load.remaining), Cardinality(PagesOf(Segment))})
      (* the table of the page before, or of the segment before *)
      last(i) == IF i = 0 THEN load.table ELSE Table(first + i - 1)
  IN  /\ load.step = "memory" /\ ~m.panic
      /\ m' = FoldLeft(LAMBDA s, i : IF s.panic THEN s
                                     ELSE LoadPage(s, e, Segment, first + i, last(i)),
                       m, [i \in 1..n |-> i - 1])
      /\ load' = [load EXCEPT !.step = "disk", !.remaining = @ - n, !.table = last(n)]
      /\ UNCHANGED <<envs, free, faults, written>>

FileSpan(seg, prog, from) == [u \in Parts |-> InFile(prog, seg.start + from + u)]

(* 7.2: the page the segment starts in, when it does not start with it, is *)
(* filled from the file to its end.                                        *)
FirstPage(s, e, seg, prog) ==
  LET offset == seg.va % PageSize
  IN  IF offset = 0 THEN s
      ELSE MustAddPage(s, e, PageOf(seg.va),
             [u \in Parts |-> IF u < offset THEN Zero
                              ELSE InFile(prog, seg.start + u - offset)])

(* 7.3: the whole pages before the last.                                   *)
MiddlePages(s, e, seg, prog) ==
  LET first == PageOf(RoundUp(seg.va))
      n == Cardinality(Span2(first, PageOf(seg.va + seg.fileSize)))
  IN  FoldLeft(LAMBDA t, p : IF t.panic THEN t
                 ELSE MustAddPage(t, e, p, FileSpan(seg, prog, p * PageSize - seg.va)),
               s, [i \in 1..n |-> first + i - 1])

(* Fault: the loop goes on to the end of the page.                         *)
LastPage_WholePage(s, e, seg, prog) ==
  LET start == PageOf(seg.va + seg.fileSize) * PageSize
      source == Max({start, RoundUp(seg.va)}) - seg.va
  IN  IF s.panic THEN s ELSE MustAddPage(s, e, PageOf(start), FileSpan(seg, prog, source))

(* 7.4: the page in which the part of the file ends, even when it ends     *)
(* with the page before.  The source goes on where 7.2 and 7.3 left it.    *)
LastPage(s, e, seg, prog) ==
  LET start == PageOf(seg.va + seg.fileSize) * PageSize
      source == Max({start, RoundUp(seg.va)}) - seg.va
  IN  IF s.panic THEN s
      ELSE MustAddPage(s, e, PageOf(start),
             [u \in Parts |-> IF start + u < seg.va + seg.fileSize
                              THEN InFile(prog, seg.start + source + u) ELSE Zero])

(* 7.5: copies of the zero page for the rest.  The length is unsigned; it  *)
(* wraps when the rest is less than a page, and ROUNDUP wraps it back to 0.*)
ZeroPages(s, e, seg) ==
  LET start == RoundUp(seg.va + seg.fileSize)
      length == (seg.va + seg.memSize - start) % Word
      n == (RoundUp(length) % Word) \div PageSize
  IN  FoldLeft(LAMBDA t, p : IF t.panic THEN t ELSE MustAddPage(t, e, p, ZeroPage),
               s, [i \in 1..n |-> PageOf(start) + i - 1])

SegmentToDisk ==
  LET e == load.env
      seg == Segment
      prog == envs[e].prog
      first == FirstPage(m, e, seg, prog)
      file == LastPage(MiddlePages(first, e, seg, prog), e, seg, prog)
      more == load.seg < Len(Images[prog])
  IN  /\ load.step = "disk" /\ ~m.panic
      /\ m' = ZeroPages(file, e, seg)
      /\ load' = IF more THEN [load EXCEPT !.step = "memory", !.seg = @ + 1]
                 ELSE [load EXCEPT !.step = "stack"]
      /\ UNCHANGED <<envs, free, faults, written>>

(* [8] the pages loaded count as clean.                                    *)
ClearModified(s, e) == [s EXCEPT !.dirty[e] = @ \ InWs(s, e)]

(* [10] and [13]: the page of the stack.  That the page file has no space  *)
(* for it is not looked at: it is modified, and gets its frame, if there   *)
(* is one by then, when it is replaced.                                    *)
LoadStack ==
  LET e == load.env
      t == LoadtimeMap(ClearModified(m, e), e, StackPage)
      zeroed == Fill(t, e, StackPage, [u \in Parts |-> Zero])
  IN  /\ load.step = "stack" /\ ~m.panic
      /\ m' = IF t.panic THEN t
              ELSE AddPage(AppendToWs(zeroed, e, StackPage, envs[e].max), e, StackPage, ZeroPage)
      /\ load' = NoLoad
      /\ UNCHANGED <<envs, free, faults, written>>

-----------------------------------------------------------------------------
(* A process that has been loaded.                                         *)

Runs(e) == envs[e].status = "new" /\ ~m.panic /\ load.step = "idle"

(* It writes to a part of a page in memory.                                *)
Write(e, a) ==
  /\ Runs(e) /\ PageOf(a) \in InWs(m, e) /\ a \notin written[e]
  /\ m' = [m EXCEPT !.mem[m.pte[e][PageOf(a)].frame][a % PageSize] = Written(e),
                    !.dirty[e] = @ \cup {PageOf(a)}]
  /\ written' = [written EXCEPT ![e] = @ \cup {a}]
  /\ UNCHANGED <<envs, free, load, faults>>

MayBeNew(p) == p \in {HeapPage, StackPage}

(* pf_update_env_page of a victim that was modified.                       *)
WriteBack(s, e, p) ==
  IF p \notin s.dirty[e] THEN s
  ELSE UpdatePage(s, e, p, s.mem[s.pte[e][p].frame], MayBeNew(p))

(* allocate_frame, map_frame and pf_read_env_page.  A page that is not in  *)
(* the page file keeps what its frame held.                                *)
PageIn(s, e, p) ==
  IF OutOfMemory(s) THEN Panic(s)
  ELSE LET t == MapNewFrame(s, e, p, TRUE)
       IN  IF OnDisk(t, e, p) THEN [t EXCEPT !.mem[t.pte[e][p].frame] = t.disk[t.dfn[e][p]]]
           ELSE t

(* table_fault_handler; then the access faults again, with a table.        *)
TableFault(s, e, p) == WithTable(s, e, p)

(* A fault on a page that is not in memory, with the page that has to go   *)
(* when the working set is full.  The page of the heap must be allocated;  *)
(* a page that is neither in the page file nor of the heap or the stack    *)
(* ends the process: after its page went, if one had to.  So does a page   *)
(* file without space for the page that has to go: the panic of a process  *)
(* is its exit, and the others go on.                                      *)
Fault(e, p, victim) ==
  LET full == Len(m.ws[e]) >= envs[e].max
      start == TableFault(m, e, p)
      saved == WriteBack(start, e, victim)
      lost == full /\ victim \in m.dirty[e] /\ ~OnDisk(saved, e, victim)
      s == IF full THEN Invalidate(saved, e, victim) ELSE start
      in == PageIn(s, e, p)
      legal == OnDisk(s, e, p) \/ MayBeNew(p)
  IN  /\ Runs(e) /\ p \notin InWs(m, e) /\ faults < MaxFaults
      /\ IF full THEN victim \in InWs(m, e) ELSE victim = p
      /\ faults' = faults + 1
      /\ IF start.panic THEN m' = start /\ UNCHANGED envs
         ELSE IF p = HeapPage /\ ~m.pte[e][p].heap
         THEN /\ envs' = [envs EXCEPT ![e].status = "exited"] /\ m' = start
         ELSE IF lost
         THEN /\ envs' = [envs EXCEPT ![e].status = "exited"] /\ m' = saved
         ELSE /\ m' = IF s.panic \/ in.panic THEN Panic(s)
                      ELSE IF legal THEN AppendToWs(in, e, p, envs[e].max)
                      ELSE UnmapFrame(in, e, p)
              /\ envs' = IF legal THEN envs ELSE [envs EXCEPT ![e].status = "exited"]
      /\ UNCHANGED <<free, load, written>>

(* allocate_user_mem and free_user_mem for the page of the heap.           *)
AllocateHeap(e) ==
  /\ Runs(e) /\ ~m.pte[e][HeapPage].heap /\ faults < MaxFaults
  /\ m' = AllocateUserMem(WithTable(m, e, HeapPage), e, HeapPage, 1)
  /\ UNCHANGED <<envs, free, load, faults, written>>

FreeHeap(e) ==
  /\ Runs(e) /\ m.pte[e][HeapPage].heap
  /\ m' = FreeUserPage(Invalidate(RemovePage(m, e, HeapPage), e, HeapPage), e, HeapPage)
  /\ written' = [written EXCEPT ![e] = {a \in @ : PageOf(a) # HeapPage}]
  /\ UNCHANGED <<envs, free, load, faults>>

Next ==
  \/ \E prog \in DOMAIN Images, max \in WsSizes : BeginCreate(prog, max)
  \/ LoadSegment \/ SegmentToDisk \/ LoadStack
  \/ \E e \in Envs : \/ \E a \in Writes : Write(e, a)
                     \/ \E p, victim \in UserPages : Fault(e, p, victim)
                     \/ AllocateHeap(e) \/ FreeHeap(e)

Spec == Init /\ [][Next]_vars
-----------------------------------------------------------------------------
(* Properties.                                                             *)

Loaded(e) == envs[e].status # "free" /\ load.step = "idle"

(* What process e would read at a: in memory, or brought in by a fault.    *)
Seen(e, a) ==
  LET p == PageOf(a)
  IN  IF p \in InWs(m, e) THEN m.mem[m.pte[e][p].frame][a % PageSize]
      ELSE IF OnDisk(m, e, p) THEN m.disk[m.dfn[e][p]][a % PageSize] ELSE Unknown

(* The source of the last page is right only if the part in the file, when *)
(* it begins inside a page, reaches the end of that page.                  *)
WellLaid(seg) ==
  seg.va % PageSize = 0 \/ seg.fileSize = 0 \/ seg.va + seg.fileSize >= RoundUp(seg.va)

(* Addresses that read as zero only if the whole zero page does.           *)
FromZeroPage(seg, a) == a >= RoundUp(seg.va + seg.fileSize) /\ a % PageSize >= Cleared

Content(seg, prog, a) ==
  IF a < seg.va + seg.fileSize THEN InFile(prog, seg.start + a - seg.va) ELSE Zero

(* Wherever the loader and the page faults of all processes have put it,   *)
(* in memory or in the page file, a process finds its program, zeros after *)
(* it and on its first stack, and what it wrote itself: never a page of    *)
(* another process, an old copy, or a page that was dropped as clean.      *)
ProgramIntact ==
  ~m.panic => \A e \in Envs : Loaded(e) =>
    /\ \A a \in written[e] : Seen(e, a) = Written(e)
    /\ \A u \in Parts :
         StackPage * PageSize + u \notin written[e] =>
           Seen(e, StackPage * PageSize + u) = Zero
    /\ LET prog == envs[e].prog
       IN  \A i \in DOMAIN Images[prog] :
             LET seg == Images[prog][i]
             IN  WellLaid(seg) =>
                   \A a \in seg.va..(seg.va + seg.memSize - 1) :
                     a \notin written[e] /\ ~FromZeroPage(seg, a) =>
                       Seen(e, a) = Content(seg, prog, a)

(* "used by program loader to initialize extra segment zero memory (bss    *)
(* section) it to zero", says boot_memory_manager.h:22 of the zero page;   *)
(* initialize_paging clears a quarter of it.                               *)
BssIsZero ==
  \A e \in Envs : Loaded(e) =>
    LET prog == envs[e].prog
    IN  \A i \in DOMAIN Images[prog] :
          LET seg == Images[prog][i]
          IN  \A a \in RoundUp(seg.va + seg.fileSize)..(seg.va + seg.memSize - 1) :
                a \notin written[e] => Seen(e, a) = Zero

(* A frame of the page file is on the free list or belongs to one page of  *)
(* one process, so that the two counts of the page file add up; a process  *)
(* has there the pages of its segments and, when the part of the file ends *)
(* with a page, the page behind it, besides what it has of stack and heap. *)
DiskAccounted ==
  LET owned == {x \in Envs \X UserPages : OnDisk(m, x[1], x[2])}
      frame(x) == m.dfn[x[1]][x[2]]
      segments(e) == Range(Images[envs[e].prog])
  IN  ~m.panic =>
        /\ \A x \in owned : frame(x) \notin Range(m.dfree)
        /\ \A x, y \in owned : frame(x) = frame(y) => x = y
        /\ FreeDiskFrames(m) + MapThenSumSet(LAMBDA e : AllocatedPages(m, e), Envs)
             = DiskFrames - 1
        /\ \A e \in Envs : Loaded(e) =>
             {p \in UserPages : OnDisk(m, e, p)} \ {HeapPage, StackPage}
               = UNION {PagesOf(seg) \cup {PageOf(seg.va + seg.fileSize)} :
                          seg \in segments(e)}

(* The working set of each process lists the pages it has in memory, once  *)
(* each and no more than allowed, the hand on one of them or nowhere, and  *)
(* on the first when it is full; no frame is mapped twice, or free or the  *)
(* kernel's while mapped.  Everything has its type.                        *)
WorkingSets ==
  LET mapped == {x \in Envs \X UserPages : Present(m, x[1], x[2])}
      frame(x) == m.pte[x[1]][x[2]].frame
      kernels == {m.kpte[q].frame : q \in {r \in KPages : r >= KHeapStart}}
                   \cup Extended..(FirstFreeFrame(m.boot) - 1)
  IN  TypeOK /\ (~m.panic =>
        /\ \A e \in Envs :
             /\ InWs(m, e) = {p \in UserPages : Present(m, e, p)}
             /\ m.dirty[e] \subseteq InWs(m, e)
             /\ Len(m.ws[e]) = Cardinality(InWs(m, e))
             /\ Loaded(e) => Len(m.ws[e]) <= envs[e].max
             /\ m.hand[e] \in InWs(m, e) \cup {NoHand}
             /\ Loaded(e) /\ Len(m.ws[e]) = envs[e].max => m.hand[e] = m.ws[e][1]
        /\ \A x, y \in mapped : frame(x) = frame(y) => x = y
        /\ \A x \in mapped : frame(x) \notin kernels /\ m.refs[frame(x)] = 1
        /\ \A f \in FrameNums : f \in Range(m.free) <=> m.refs[f] = 0)

(* Boot shows at KERNEL_BASE + x the physical page x, for all that it has  *)
(* given out itself, each part once; the code that turns paging on is      *)
(* shown at its physical address too.                                      *)
BootMapped ==
  LET pages == 0..(PageOf(RoundUp(m.boot.next)) - 1)
      end(part) == part[1] + part[2]
      taken == m.boot.taken
  IN  /\ \A x \in pages :
           m.kpte[KernelBase + x] = [frame |-> x, present |-> TRUE]
      /\ \A i \in DOMAIN taken :
           /\ PageOf(end(taken[i]) - 1) \in pages
           /\ taken[i][1] >= Extended * PageSize + m.boot.end
           /\ \A j \in 1..(i - 1) : end(taken[j]) <= taken[i][1]
      /\ \A f \in Extended..PageOf(Extended * PageSize + m.boot.end) :
           f \div KTablePages + 1 \in IdentityTables(m.boot)
      /\ Range(m.free) \cap pages \subseteq 0..(Extended - 1)

(* What the kernel maps for itself after a directory was copied, it finds  *)
(* in that directory too: the tables are the same for all.  Each process   *)
(* sees its own tables at VPT, and has a stack in the kernel with a guard  *)
(* below it that no other stack covers; its id leads back to it.           *)
SpacesApart ==
  LET live == {e \in Envs : envs[e].status # "free"}
      stack(e) == m.kstack[e]..(m.kstack[e] + StackPages - 1)
  IN  ~m.panic => \A e \in live :
        /\ \A i \in Slots \ {Vpt, Uvpt} : m.dir[e][i] = m.kdir[i]
        /\ m.dir[e][Vpt] = m.dir[e][Uvpt] /\ m.dir[e][Vpt] # m.kdir[Vpt]
        /\ {q \in stack(e) : ~m.kpte[q].present} = {m.kstack[e]}
        /\ \A d \in live \ {e} :
             /\ m.dir[e][Vpt] # m.dir[d][Vpt]
             /\ stack(e) \cap stack(d) = {}
        /\ Envid2env(envs[e].id) = e

KernelHalf == BootMapped /\ SpacesApart
==============================================================================

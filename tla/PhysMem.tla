------------------------------- MODULE PhysMem -------------------------------
(***************************************************************************)
(* Physical frames and the page tables of processes,                       *)
(* kern/mem/memory_manager.c and kern/mem/chunk_operations.c: the list of  *)
(* free frames, the reference counts, and what it is to map a frame at an  *)
(* address.  A page table is a function from page numbers; whether the     *)
(* table itself must be created makes no difference here.                  *)
(*                                                                         *)
(* The operators work on a record s with the fields                        *)
(*    free   the free frame list, first frame first                        *)
(*    refs   frames_info[f].references                                     *)
(*    pte    the page table entries of every process                       *)
(***************************************************************************)
EXTENDS SequencesExt

CONSTANTS
  NFrames,    \* number_of_frames
  IoStart,    \* PHYS_IO_MEM / PAGE_SIZE
  Extended    \* PHYS_EXTENDED_MEM / PAGE_SIZE

ASSUME PhysMemConstants ==
  /\ {NFrames, IoStart, Extended} \subseteq Nat
  /\ 3 <= IoStart /\ IoStart <= Extended /\ Extended <= NFrames

FrameNums == 0..(NFrames - 1)
NoFrame == 0             \* an entry without a frame has frame number 0
Entry == [frame : FrameNums, writable : BOOLEAN, heap : BOOLEAN]
Empty == [frame |-> NoFrame, writable |-> FALSE, heap |-> FALSE]
Span(a, n) == a..(a + n - 1)

(* initialize_paging: frame 0 (BIOS), the zero page, the temporary page,   *)
(* the hole for devices and the kernel, whose last frame is before end, are*)
(* in use.                                                                 *)
Reserved(end) == {0, 1, 2} \cup IoStart..(Extended - 1) \cup Extended..(end - 1)

(* Every other frame is inserted at the head, in rising order.             *)
InitialFreeList(end) ==
  Reverse([i \in 1..(IoStart - 3) |-> i + 2]
          \o [i \in 1..(NFrames - end) |-> end + i - 1])

InitialReferences(end) == [f \in FrameNums |-> IF f \in Reserved(end) THEN 1 ELSE 0]

-----------------------------------------------------------------------------
(* allocate_frame takes the first free frame; without one the kernel       *)
(* panics, which the caller of these operators must rule out.              *)
OutOfMemory(s) == s.free = <<>>
FirstFree(s) == Head(s.free)

AllocateFrame(s) == [s EXCEPT !.free = Tail(s.free), !.refs[Head(s.free)] = 0]

FreeFrame(s, f) == [s EXCEPT !.free = <<f>> \o @, !.refs[f] = 0]

DecrementReferences(s, f) ==
  IF s.refs[f] = 1 THEN FreeFrame(s, f) ELSE [s EXCEPT !.refs[f] = @ - 1]

(* get_frame_info: an entry that only marks a page has no frame.           *)
GetFrameInfo(s, p, a) == s.pte[p][a].frame

(* unmap_frame keeps the available bits, of which PERM_UHPAGE is one.      *)
UnmapFrame(s, p, a) ==
  LET f == GetFrameInfo(s, p, a)
  IN  IF f = NoFrame THEN s
      ELSE [DecrementReferences(s, f) EXCEPT
              !.pte[p][a] = [Empty EXCEPT !.heap = s.pte[p][a].heap]]

(* map_frame: nothing if f is mapped at a already; another frame there is  *)
(* unmapped first.                                                         *)
MapFrame(s, p, f, a, writable) ==
  LET u == UnmapFrame(s, p, a)
  IN  IF GetFrameInfo(s, p, a) = f THEN s
      ELSE [u EXCEPT !.refs[f] = @ + 1,
                     !.pte[p][a].frame = f, !.pte[p][a].writable = writable]

(* A frame for page a, as alloc_page, placement and create_shared_object   *)
(* get one.                                                                *)
MapNewFrame(s, p, a, writable) ==
  MapFrame(AllocateFrame(s), p, FirstFree(s), a, writable)

(* calculate_available_frames, without buffering.                          *)
AvailableFrames(s) == Len(s.free)

-----------------------------------------------------------------------------
(* allocate_user_mem writes the entries over, whatever they held.          *)
AllocateUserMem(s, p, a, n) ==
  [s EXCEPT !.pte[p] =
     [b \in DOMAIN s.pte[p] |->
        IF b \in Span(a, n) THEN [Empty EXCEPT !.writable = TRUE, !.heap = TRUE]
        ELSE s.pte[p][b]]]

FreeUserPage(s, p, a) == [UnmapFrame(s, p, a) EXCEPT !.pte[p][a] = Empty]

(* Fault: entries are cleared and their frames forgotten.                  *)
FreeUserMem_NoUnmap(s, p, a, n) ==
  [s EXCEPT !.pte[p] = [b \in DOMAIN s.pte[p] |->
                          IF b \in Span(a, n) THEN Empty ELSE s.pte[p][b]]]

(* free_user_mem, page after page.                                         *)
FreeUserMem(s, p, a, n) ==
  LET after[i \in 0..n] ==
        IF i = 0 THEN s ELSE FreeUserPage(after[i - 1], p, a + i - 1)
  IN  after[n]
==============================================================================

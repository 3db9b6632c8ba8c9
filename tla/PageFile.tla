------------------------------ MODULE PageFile -------------------------------
(***************************************************************************)
(* The page file, kern/disk/pagefile_manager.c: a free list of disk frames *)
(* and, for each process, a directory and tables of disk frame numbers     *)
(* that are made in the kernel heap when they are first needed.            *)
(*                                                                         *)
(* A record s has, besides the fields of KernelSpace,                      *)
(*    dfree, disk   disk_free_frame_list and what the frames hold          *)
(*    ddir          whether a process has its disk directory               *)
(*    dtab, dfn     which tables it has, and their entries                 *)
(*    panic         the kernel has given up: memory has run out inside     *)
(*                  allocate_frame, which keeps its lock, or a program     *)
(*                  could not be loaded, with pushcli unmatched            *)
(***************************************************************************)
EXTENDS KernelSpace

CONSTANTS
  DiskFrames,   \* PAGES_PER_FILE
  PagesPerTable \* user pages of a table

ASSUME PageFileConstants == DiskFrames \in Nat \ {0} /\ PagesPerTable \in Nat \ {0}

NoDiskFrame == 0
DiskFrameNums == 0..(DiskFrames - 1)
Table(p) == p \div PagesPerTable

(* initialize_disk_page_file: frame 0 is never used.                       *)
InitialDiskList == Reverse([i \in 1..(DiskFrames - 1) |-> i])

Panic(s) == [s EXCEPT !.panic = TRUE]

(* A kernel page for a directory or a table.  Nobody looks at the E_NO_VM  *)
(* of the two functions below, and the NULL they leave is followed.        *)
WithPage(s) == IF KmallocFails(s, 1) \/ OutOfMemory(s) THEN Panic(s) ELSE Kmalloc(s, 1)

(* get_disk_page_directory, then get_disk_page_table with create.          *)
WithDiskDirectory(s, e) ==
  IF s.ddir[e] THEN s ELSE [WithPage(s) EXCEPT !.ddir[e] = TRUE]

WithDiskTable(s, e, p) ==
  LET t == WithDiskDirectory(s, e)
  IN  IF t.panic \/ Table(p) \in t.dtab[e] THEN t
      ELSE [WithPage(t) EXCEPT !.dtab[e] = @ \cup {Table(p)}]

(* Fault: the frame stays on the list.                                     *)
AllocateDiskFrame_NotRemoved(s, e, p) ==
  IF s.dfree = <<>> THEN s ELSE [s EXCEPT !.dfn[e][p] = Head(s.dfree)]

(* allocate_disk_frame, for page p; nothing changes when there is none.    *)
AllocateDiskFrame(s, e, p) ==
  IF s.dfree = <<>> THEN s
  ELSE [s EXCEPT !.dfree = Tail(@), !.dfn[e][p] = Head(s.dfree)]

OnDisk(s, e, p) == s.dfn[e][p] # NoDiskFrame

(* pf_add_empty_env_page without initialisation: a frame, not written.     *)
AddEmptyPage(s, e, p) ==
  LET t == WithDiskTable(s, e, p)
  IN  IF t.panic \/ OnDisk(t, e, p) THEN t ELSE AllocateDiskFrame(t, e, p)

(* pf_add_env_page; without a frame, E_NO_PAGE_FILE_SPACE.                 *)
AddPage(s, e, p, content) ==
  LET t == AddEmptyPage(s, e, p)
  IN  IF t.panic \/ ~OnDisk(t, e, p) THEN t
      ELSE [t EXCEPT !.disk[t.dfn[e][p]] = content]

(* The loader panics for want of space.                                    *)
MustAddPage(s, e, p, content) ==
  LET t == AddPage(s, e, p, content)
  IN  IF ~OnDisk(t, e, p) THEN Panic(t) ELSE t

(* pf_update_env_page: a page of the stack or of the heap may be new.  A   *)
(* page that has no frame after that is not written, and ends the process. *)
UpdatePage(s, e, p, content, mayBeNew) ==
  LET t == IF ~OnDisk(s, e, p) /\ mayBeNew THEN AddEmptyPage(s, e, p) ELSE s
  IN  IF t.panic \/ ~OnDisk(t, e, p) THEN t
      ELSE [t EXCEPT !.disk[t.dfn[e][p]] = content]

(* pf_remove_env_page; free_disk_frame does nothing for frame 0.           *)
RemovePage(s, e, p) ==
  IF ~OnDisk(s, e, p) THEN s
  ELSE [s EXCEPT !.dfree = <<s.dfn[e][p]>> \o @, !.dfn[e][p] = NoDiskFrame]

(* pf_calculate_allocated_pages, pf_calculate_free_frames                  *)
AllocatedPages(s, e) ==
  Cardinality({p \in DOMAIN s.dfn[e] : Table(p) \in s.dtab[e] /\ OnDisk(s, e, p)})
FreeDiskFrames(s) == Len(s.dfree)
==============================================================================

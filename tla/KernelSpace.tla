----------------------------- MODULE KernelSpace -----------------------------
(***************************************************************************)
(* The kernel's half of the address space: how                             *)
(* kern/mem/boot_memory_manager.c builds it before there is an allocator,  *)
(* and what kmalloc adds to it.  Kernel pages are numbered from the lowest *)
(* address of the half, Slot(q) is the directory entry that covers page q: *)
(* first the table that shows envs[] to users, then the one of the         *)
(* scheduler's stacks, then those from KERNEL_BASE upwards.  The entries   *)
(* VPT and UVPT point at the directory itself.                             *)
(*                                                                         *)
(* A record s has, besides the fields of PhysMem,                          *)
(*    kdir   the kernel half of ptr_page_directory: the frames of tables   *)
(*    kpte   the entries of these tables                                   *)
(*    kbrk   the next page of the kernel heap                              *)
(* and during boot next, the address ptr_free_mem, and taken, what has     *)
(* been given out.  Addresses are in parts of a page.                      *)
(***************************************************************************)
EXTENDS PhysMem

CONSTANTS
  PageSize,      \* parts of a page
  KTablePages,   \* pages of a page table
  KSlots,        \* tables from KERNEL_BASE to the end of memory
  StackPages,    \* KERNEL_STACK_SIZE / PAGE_SIZE
  ArraySizes,    \* frames_info, disk_frames_info and envs, in parts
  KHeapStart     \* the first page of the kernel heap

ASSUME KernelSpaceConstants ==
  /\ PageSize \in Nat \ {0} /\ KSlots \in Nat \ {0}
  /\ StackPages >= 2 /\ StackPages <= KTablePages
  /\ ArraySizes.envs <= PageSize * KTablePages

Slots == 1..(KSlots + 4)
Vpt == KSlots + 3
Uvpt == KSlots + 4
KPages == 0..((KSlots + 2) * KTablePages - 1)
Slot(q) == q \div KTablePages + 1
EnvsPage == 0                                  \* UENVS
StackBottom == 2 * KTablePages - StackPages    \* of the only CPU
KernelBase == 2 * KTablePages                  \* KERNEL_BASE
KEntry == [frame : FrameNums, present : BOOLEAN]

RoundUp(a) == ((a + PageSize - 1) \div PageSize) * PageSize

-----------------------------------------------------------------------------
(* boot_allocate_space                                                     *)
BootAllocate(s, size) ==
  LET at == RoundUp(s.next)
  IN  [s EXCEPT !.next = at + size, !.taken = Append(@, <<at, size>>)]

NextFrame(s) == RoundUp(s.next) \div PageSize

(* boot_get_page_table, with create.                                       *)
BootPageTable(s, slot) ==
  IF s.kdir[slot] # 0 THEN s
  ELSE [BootAllocate(s, PageSize) EXCEPT !.kdir[slot] = NextFrame(s)]

(* boot_map_range: size is in parts of a page.                             *)
BootMapRange(s, q, size, frame) ==
  FoldLeft(LAMBDA t, i : [BootPageTable(t, Slot(q + i)) EXCEPT
                            !.kpte[q + i] = [frame |-> frame + i, present |-> TRUE]],
           s, [i \in 1..(RoundUp(size) \div PageSize) |-> i - 1])

(* Fault: a table is made when its first page is mapped.                   *)
KernelTables_OnDemand(s) == s

(* Every table from KERNEL_BASE up exists before anything is mapped there: *)
(* a directory copied from this one shares what is mapped later.           *)
KernelTables(s) ==
  FoldLeft(LAMBDA t, i : BootPageTable(t, i + 2), s, [i \in 1..KSlots |-> i])

(* The stack of the scheduler lies in the image of the kernel, which       *)
(* starts at PHYS_EXTENDED_MEM.  Its lowest page is a guard.               *)
MapStack(s) ==
  [BootMapRange(s, StackBottom, StackPages * PageSize, Extended) EXCEPT
     !.kpte[StackBottom].present = FALSE]

(* setup_listing_to_all_page_tables_entries                                *)
ListTables(s, directory) == [s EXCEPT !.kdir[Vpt] = directory, !.kdir[Uvpt] = directory]

PowerOn(endOfKernel) ==
  [next |-> endOfKernel, taken |-> <<>>, kdir |-> [i \in Slots |-> 0],
   kpte |-> [q \in KPages |-> [frame |-> NoFrame, present |-> FALSE]]]

(* initialize_kernel_VM                                                    *)
KernelVM(endOfKernel) ==
  LET directory == BootAllocate(PowerOn(endOfKernel), PageSize)
      tables == KernelTables(MapStack(directory))
      arrays == BootAllocate(BootAllocate(tables, ArraySizes.frames), ArraySizes.disk)
      listed == ListTables(arrays, NextFrame(PowerOn(endOfKernel)))
      envs == BootMapRange(BootAllocate(listed, ArraySizes.envs), EnvsPage,
                           ArraySizes.envs, NextFrame(listed))
  IN  BootMapRange(envs, KernelBase, envs.next, 0)

(* turn_on_paging shows physical memory at address 0 too, until the        *)
(* segment registers are loaded, through the tables before the one that    *)
(* ptr_free_mem points into.                                               *)
IdentityTables(s) == 1..((s.next \div PageSize) \div KTablePages)

(* initialize_paging goes on with what boot has left.                      *)
FirstFreeFrame(s) == NextFrame(s)

-----------------------------------------------------------------------------
(* kmalloc of whole pages, when nothing has been freed.                    *)
KmallocFails(s, n) == s.kbrk + n > Cardinality(KPages)

(* alloc_page; map_frame makes the table that is missing, in this          *)
(* directory only.                                                         *)
WithKernelTable(s, q) ==
  IF s.kdir[Slot(q)] # 0 THEN s
  ELSE [AllocateFrame(s) EXCEPT !.kdir[Slot(q)] = FirstFree(s), !.refs[FirstFree(s)] = 1]

AllocPage(s, q) ==
  LET t == WithKernelTable(s, q)
  IN  [AllocateFrame(t) EXCEPT !.refs[FirstFree(t)] = 1, !.kbrk = q + 1,
         !.kpte[q] = [frame |-> FirstFree(t), present |-> TRUE]]

Kmalloc(s, n) ==
  FoldLeft(LAMBDA t, i : AllocPage(t, s.kbrk + i), s, [i \in 1..n |-> i - 1])

(* create_user_directory                                                   *)
CreateUserDirectory(s) == Kmalloc(s, 1)

(* create_user_kern_stack: the lowest page is a guard.  The tables are     *)
(* the kernel's, whatever the directory.                                   *)
UserKernelStack(s, e) ==
  [Kmalloc(s, StackPages) EXCEPT !.kpte[s.kbrk].present = FALSE, !.kstack[e] = s.kbrk]

(* complete_environment_initialization: VPT and UVPT show the process the  *)
(* tables of its own directory, which is in frame own.                     *)
CompleteInitialization(s, e, own) ==
  [s EXCEPT !.dir[e][Vpt] = own, !.dir[e][Uvpt] = own]

(* initialize_environment: the kernel's half is copied as it stands before *)
(* the kernel stack is made.                                               *)
InitializeEnvironment(s, e, own) ==
  CompleteInitialization(UserKernelStack([s EXCEPT !.dir[e] = s.kdir], e), e, own)
==============================================================================

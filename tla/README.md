# TLA+ specifications of the FOS kernel

This directory holds a model of the operating system in `src/`: the FOS
teaching kernel from power-on to running programs: its process scheduler, kernel
locks, console, memory managers, program loader and fault handler.  TLC checks
the modules on small instances; TLAPS proves theorems about nine of them
(`Scheduler`; `KernelCpu` with `KSemaphore` and `SleepLock`; `DynAlloc`; `PageFaults`;
`UserHeap` and `PhysMem` with `SharedMem`) for every value of the constants.

    tlc -workers 2 -config MCScheduler.cfg MCScheduler
    tlapm SchedulerProofs.tla

`PROJECT.json` lists the runs, the mutant that each property rejects, the
source lines that each definition stands for, the hazards and the theorems.

## 1. Inventory

One CPU (`mycpu()` is `CPUS[0]`), one address space per process, system calls
and interrupts enter through `trap`.  **System calls run with interrupts on**
(`sys_*` functions are preempted by the clock like user code), interrupt
handlers and every section under a spin lock run with interrupts off.

What a `panic` does depends on where it happens.  `_panic` (`kern/init.c:325`) of
a running process calls `env_exit`: the process ends and the system goes on.  It
is the end of everything only with a spin lock held (`allocate_frame` without a
frame keeps `mfllock`, and `sched` then finds a lock too many) or with `pushcli`
unmatched (inside `env_create`).  The models make this difference: `panic` is the
end of the machine, a process that panics otherwise is one that has exited.

| Component (source) | State | Operations | Talks to |
|---|---|---|---|
| scheduler (`kern/cpu/sched.c`, `sched_helpers.c`) | NEW, READY\[level\] and EXIT queues, `env_status`, `priority`, `waiting_ticks`, `star_th`, method | prompt commands, `sched_new_env`, `sched_run_env`, `env_set_priority`, `sched_exit_env`, `clock_interrupt_handler`, `fos_scheduler`, `sched_next` | clock, prompt, system calls, channels |
| CPU and spin locks (`kern/cpu/cpu.c`, `kern/conc/kspinlock.c`) | IF, `ncli`, `intena`, lock holders | `pushcli`, `popcli`, acquire, release, holding | everything under a lock |
| context switch (`kern/proc/user_environment.c`) | `mycpu()->proc`, saved contexts, local `intena` | `sched`, `yield`, `env_start`, `env_exit` | scheduler |
| channel (`kern/conc/channel.c`) | queue of blocked processes | `sleep`, `wakeup_one`, `wakeup_all` | scheduler; semaphore and sleep lock are built on it |
| kernel semaphore (`kern/conc/ksemaphore.c`) | `count`, guard, channel | init, wait, signal (also from the keyboard handler) | channel |
| sleep lock (`kern/conc/sleeplock.c`) | `locked`, `pid`, guard, channel | init, acquire, release, holding | channel |
| traps (`kern/trap/trap.c`, `syscall.c`) | trap frame, IF | interrupt dispatch, system call dispatch, return | all |
| process creation (`kern/proc/user_environment.c`) | `envs[]`, address spaces | `env_create`, `env_free` (a panic) | prompt, `sys_create_env` |
| kernel heap (`kern/mem/kheap.c`) | region list, break, `frame->va` | `kmalloc`, `kfree`, `krealloc`, `kheap_virtual_address`, `kheap_physical_address` | dynamic allocator, frames |
| dynamic allocator (`lib/dynamic_allocator.c`) | page info, free pages, free blocks by size | `alloc_block`, `free_block`, `get_block_size`, `realloc_block` | kernel heap, user heap (`get_page`, `return_page`) |
| user heap (`lib/uheap.c`) | regions of a process | `malloc`, `free`, `smalloc`, `sget` (`sfree`, `realloc` panic) | system calls |
| shared memory (`kern/mem/shared_memory_manager.c`) | list of shared objects, references | `alloc_share`, `create_shared_object`, `get_shared_object`, `size_of_shared_object` | user heap, frames, kernel heap |
| fault handler (`kern/trap/fault_handler.c`, `kern/mem/working_set_manager.c`) | working set list, clock hand, PTE bits | placement, CLOCK, LRU aging, modified CLOCK, OPTIMAL | frames, page file |
| boot, kernel half (`kern/mem/boot_memory_manager.c`) | `ptr_free_mem`, `ptr_page_directory`, kernel page tables | `initialize_kernel_VM`, `boot_allocate_space`, `boot_get_page_table`, `boot_map_range`, `turn_on_paging` | frames, `env_create` (copies the directory) |
| page file (`kern/disk/pagefile_manager.c`) | disk frames, per-process disk tables | add, add empty, update, read, remove, free | fault handler |
| frames and page tables (`kern/mem/memory_manager.c`) | free list, reference counts, tables | `allocate_frame`, `free_frame`, `map_frame`, `unmap_frame`, `get_page_table` | everything in memory |
| console (`kern/cons/console.c`) | circular buffer, KBD lock/semaphore/channel | `keyboard_interrupt_handler`, `sys_cgetc`, `cons_lock`, `cons_unlock` | traps, channel, `lib/readline.c` |

What is hard here, with the property that covers it, is the list `hazards` of
`PROJECT.json`.  In short: preemption inside system calls; the ordering of the
guard, `qlock` and the context switch in `sleep`; a process that is in no queue
or in two; `intena` saved across a switch; starvation under strict priorities;
in the memory managers, calls that stop half way and lists walked while
another process changes them; in the loader, segments that begin and end inside a
page; in the console, a buffer read with interrupts on.

Correctness, per component:

* scheduler: each process is in exactly the queue its status names; `proc` is
  never stale; the most urgent, longest-waiting process runs; aging bounds the
  wait at each level; a ready process runs some day.
* locks: interrupts are off exactly while a lock is held or a handler runs; no
  check of the kernel fails; no wakeup is lost; mutual exclusion; progress.
* heaps: regions tile the heap, free neighbours are merged, a page has a frame
  exactly when it is allocated, contents survive `krealloc`.
* user heap and shared memory: regions tile the heap, the kernel has granted what
  the process believes it holds, every frame is free or counted as often as it
  is mapped, only those who share see the same frames.
* loader: a process sees its program as the image has it, zeros behind, whatever
  was paged out; frames of memory and of the page file have one owner; a
  kernel mapping made later shows in every address space.
* console: characters are read in order and none twice; who holds the console
  is alone; what has come is read.
* fault handler: a resident page is in the working set once, the set never
  exceeds its size, a modified page reaches the page file before its frame is
  given away, the victim is the one the strategy names.

## 2. Modules and how they correspond to the code

### ListOps
The kernel's list (`inc/queue.h`) is not in the repository.  `enqueue` is
`LIST_INSERT_HEAD` and `dequeue` takes `LIST_LAST`, so a queue is a FIFO and is
modelled as a sequence with the oldest element first.  `LIST_FOREACH` goes
from the youngest to the oldest.  We assume it may move the element it stands
on: the code relies on it in the aging scan and in `sched_run_all`, whose
comment (`sched_helpers.c:541`) speaks of the order it then sees.  `Keep`
filters a sequence with ranks and not recursively, so that the modules above
can be proved about.

### Scheduler, ProcLifecycle
`Scheduler` is the code between two points where `qlock` is not held: such a
section runs with interrupts off on the only CPU, hence one action for each.
`phase` says where control is between them (prompt, idle, in the inner loop,
in a process).

* Prompt: `Load`, `RunProgram`, `RunAll`, `SetStarvThresh`, `SchedInitRR`,
  `SchedInitPRIRR`.
* A running process: `CreateEnv` then `SchedNewEnv` (interrupts are on between
  the two, a clock tick may come), `RunEnv`, `EnvSetPriority`, `Sleep`,
  `ExitEnv`, `WakeupOne`, `WakeupAll` (the wakeups also from device
  interrupts, while the scheduler idles too).
* `ClockInterrupt`: the aging scan, the tick, and `yield`.
* `fos_scheduler`: `Reacquire`, `Dispatch` (`sched_next` with its requeueing
  of the process that yielded, then the switch), `NothingReady`.

`waited` is `timer_ticks() - waiting_ticks`, capped at `MaxWait`, which is above
every threshold: the code only compares it with the threshold and the order of
two waits, and `WaitBound`, a part of `AgingOrder`, shows that below the top level
the cap is not reached: nobody waits there longer than `star_th` ticks, or, with
a threshold of 0, which the command accepts, longer than one.  `schedRR` and `schedPRIRR` are guarded: neither command looks at the
priorities of the processes loaded before, and one whose level is gone would be
inserted past the end of the array.  That is a hazard without a property; the
model takes only commands, and only priorities, that leave each process a queue.

`ProcLifecycle` is the abstract view: which states a process passes through and
that one CPU runs one process.  `LifeSpec` is the refinement.

### KernelCpu
The same CPU at the grain of a single critical step: IF, `ncli`, `intena`,
`pushcli`/`popcli`, the two locks, `sched` with all its panics, `sleep`, the loop
of `fos_scheduler`, interrupt entry and exit.  An interrupt may come between
any two steps while IF is set.  A failed check of the code sets `panic` and stops the
machine.  The module has no `Next`: a primitive extends it and adds its own steps.

`Scheduler` takes it for granted that a section under `qlock` is atomic and that
only sections under `qlock` touch the queues.  `KernelCpu` is where this is
checked: `CpuInOrder` (no lock is held with interrupts on, and a process is in one
place) and `NoPanic`.

### KSemaphore, FifoSemaphore
Each process calls `wait`, is in a section, calls `signal`.  `Post` is the
keyboard interrupt that signals, from a process or from the idle scheduler.
`wakeup_one` on an empty channel dereferences NULL (its test is commented out):
that is a panic here.  `FifoSemaphore` promises permits handed directly to the
oldest waiter; `FifoSpec` is the refinement, with the linearisation point at the
change of `count`.

### SleepLock
Each process acquires, may ask `holding_sleeplock`, and releases.  `release`
wakes all sleepers and then clears `locked`, both under the guard.

### KHeap
`kmalloc`, `kfree` and `krealloc` one call after another; sizes and addresses
are pages from `kheapPageAllocStart`.  `heap` holds the list of regions in list
order, the break, the page table entries of the heap, the address in each frame
(`frame->va`, what `kheap_virtual_address` reads) and the contents of the frames.
The operators are the steps of the code on such a record (`ExactFit`, `WorstFit`,
`Extend`, `MergeNext`, `LowerBreak`, `ShrinkTo`, `Grow`, `Move`); an action is a
whole call by a client, which fills the pages it was given at once.
Descriptors come from the dynamic allocator, which is only a number of blocks
here; `KmallocBlock` and `KfreeBlock` let the rest of the kernel use it up.  A
descriptor that is NULL and not tested ends in `panic`.

Abstractions: a page gets some frame, `CHOOSE`n, since no property tells frames apart;
there are frames for all pages, as `allocate_frame` panics otherwise and
`kmalloc` never sees a failure.  Clients free and resize what they hold; a size
of zero and a NULL address are the other call by definition.

`krealloc` leaves a free region at the top of the heap without lowering the break,
and `kmalloc` does not use such a region together with the pages beyond it.
`RefusesOnlyWhenFull` therefore speaks of heaps whose top region is in use.

### DynAlloc, Allocator
Pages, the list of free pages and a list of free blocks per size, with an action
for each case of `alloc_block` (a free block, a new page, a larger block, none)
and `free_block`.  Lists are sets: the order decides only which of several
blocks of one size is given out, and the model gives out any.  `get_page` and
`return_page` are `mapped` (the kernel's panics when there is no frame).  Callers
free what they hold, once.  `Allocator` is the abstract promise: parts in use are
disjoint, large enough, and stay until they are freed.  In the refinement the
extent of a part comes from the size of its page, as it does for `free_block`:
the page must not be divided anew under a block in use.

### PageFaults
One process and its pages: those of the program, of the stack, of the user heap
and one outside of all.  `m` is what the handler changes, passed through the
operators in the order of the code: the working set list with time stamps, the
hand (`page_last_WS_element`), the page table entries, and what memory and the
page file hold for each page.  Content is `new` (what the process wrote last),
`old`, or `blank`.  `Fault` is the whole of `fault_handler` for a page that is
not present: the count of repeated faults, the time stamps (the page fault trap
updates them too, under LRU), the check of the heap bit, then `Placed` or
`Replaced`.  `Access` is the processor, which sets the bits of the entry;
`ClockInterrupt` ends a quantum; `Allocate` and `Free` are the system calls of
the user heap, a page at a time.  The loops of the two clocks are given by what
they find and clear, `ClockVictim` and `ModifiedClockVictim`.  A time stamp is a number;
`BitAt` gives the value of each of its `StampBits` bits, highest first, as a
constant and not as a power of two, so that its arithmetic is within the
provers' reach.

Both clocks start at the hand and continue at the first element after the last.
That is right only while the hand is the first element of a full list, which is
the last part of `WorkingSet`; the model panics otherwise.

A panic of the handler ends the process.  Abstractions: memory never runs out (see
`Loader` for that), the page tables are
there (a first fault only creates the table), and the pages of the
heap are touched by user code only: a system call that touches a heap page
that was not allocated is not modelled.  A fault is followed by the access that
faulted (`retry`).

### OptimalFaults
The branch of the handler for OPTIMAL, for a process that frees no page, and
`get_optimal_num_faults` as the fold `Count`.  `referenced` is the true stream
of references; `Fewest` searches all choices of victims.  The branch for a page of
the active set that is not present (line 342) is in the model and never taken.

### UserHeap, PhysMem
Operators on records, without state of their own.  `UserHeap` is the page
allocator of `lib/uheap.c`: exact fit, worst fit, the break, merging, with the
descriptors, blocks of the process's dynamic allocator, as a number that can run
out.  `PhysMem` is the free frame list, `frames_info[].references` and the page
table entries: `initialize_paging`, `allocate_frame`, `map_frame` (whose
`unmap_frame` of what was there counts), `allocate_user_mem`, `free_user_mem`.

### SharedMem
Two processes with their heaps over one set of frames: `malloc`, `free`, the touch
of a page (the fault brings a frame), `smalloc`, `sget`.  A call of the heap is one
step; `create_shared_object` and `get_shared_object` are cut where the kernel lets
go of a lock: the look for the name, each page, the insertion, so that the other
process comes in between.  A call that walks a NULL descriptor ends its process.
`leaked` remembers the regions of refused calls: `smalloc` never gives them back.
`call.step = "ended"` also stands for a process that exits, since
an exit gives no memory back: it is a process that makes no more calls.

Abstractions: the kernel heap is a number of blocks, of which an object
takes two; whether a page table exists makes no difference.  Clients give to
`free` only what `malloc` returned: on a region of `smalloc` it would take the
frames from the others, and `sfree`, made for it, panics.

Two processes that create the same name at once both succeed, as they must: the
owner is a part of the key, and a process makes one call at a time.  What
the properties show is that the insertion at the end is not too late for anybody
who looked before.

### KernelSpace, PageFile
Operators again.  `KernelSpace` builds the kernel's half of the address space in the
order of `initialize_kernel_VM`: directory, stack of the scheduler with its guard
page, all tables from `KERNEL_BASE` up, the arrays, VPT and UVPT, and `KERNEL_BASE`
shown at physical 0; then `kmalloc` of whole pages, and what `env_create` does
for a directory and a kernel stack.  `PageFile` is `pagefile_manager.c`: the list
of disk frames, a disk directory and disk tables per process that cost kernel
pages, add, update, read, remove, and the two counts.

### Loader
`env_create` step by step, over boot, frames, kernel space and page file: directory,
stack and working set; per segment the pages that go into memory
(`LoadSegment`) and the copy in the page file in the parts 7.2 to 7.5 of the source
(`SegmentToDisk`); the clean bits; the stack page (`LoadStack`).  Then the
processes write, fault, allocate and free a heap page.  Contents are those of
parts of a page, so that a segment can begin and end inside one; `ProgramIntact`
follows each part through memory and disk.

What the code does that the properties had to be worded around:

* the page behind a part of the file that ends with a page is written too (7.4
  does not look whether there is anything), and when that is the first page of the
  next segment the order of the segments decides what it holds: `WellLaid` asks for
  segments on pages of their own, which is what the linker makes;
* the zero page is not zero (run `bss_zero`), so `ProgramIntact` leaves the pages
  copied from it out;
* the result of `pf_add_env_page` for the stack page is ignored
  (`user_environment.c:409`); the page gets its disk frame when it is replaced;
* a page file that is full when a modified victim must be written ends the process
  that faulted; one that is full while a program is loaded ends everything.

Abstractions: the segments of named programs that are loaded in part only are
pages with a limit (`Limits`); blocks of less than a page are there (the
result of `kmalloc` for `prepagedVAs`, `user_environment.c:434`, is never
tested); any page can be the victim (`PageFaults` has the strategies); the
build is not `PG_REP_LRU_LISTS_APPROX`.  Environments are never freed, since
`env_free` panics.  `turn_on_paging` shows memory at address 0 through whole tables
only, so it needs `ptr_free_mem` beyond the first of them
(`boot_memory_manager.c:402`); `BootMapped` says that what is then executed is shown.

### Console
The buffer with `rpos` and `wpos`, both devices with the bytes they hold, and
processes that read with `readline` and `atomic_readline` in the build `LCK_INT`.
With interrupts on, `sys_cgetc` spins on `cons_getc2`, of which each instruction
(test, load, store, wrap) is a step, since the handlers and the clock come in
between.  With the console locked, interrupts are off in the processor and in the
trap frame, and `cons_getc` polls.  The kernel's prompt reads like a locked
reader.  Characters are numbered as they arrive, so that order and loss can
be seen.

`cons_getc2` is not safe for two processes at once, and no lock keeps them
apart: both load the same `rpos`.  `raced` remembers that this has happened, and
the properties speak of the runs in which it has not.  A reader that gives up the
CPU with the console locked does so once per lock.

## 3. Runs

| Run | Instance | What it shows |
|---|---|---|
| `scheduler` | 3 processes, 3 levels, 1 channel, thresholds 1 and 2 | invariants of the queues and of the CPU, dispatch order, aging, the life cycle, progress (62,886 states) |
| `ksemaphore` | 3 processes, 1 permit, 1 keyboard signal | no panic, interrupts match locks, no lost wakeup, FIFO refinement, progress (37,938 states) |
| `sleeplock` | 3 processes | mutual exclusion, nobody sleeps on a free lock, progress (24,606 states) |
| `kheap` | 4 pages, 3 clients, 4 blocks | tiling, descriptors, contents, addresses, no needless refusal (25,127 states up to the symmetry of clients) |
| `dyn_alloc` | 3 pages, blocks of 3 sizes, requests of 4 | pages are tiled by their blocks and returned with the last of them, refinement of `Allocator` (5,984 states up to the symmetry of pages) |
| `shared_mem` | 2 processes, 1 name, 4 heap pages, 7 frames, 4 kernel blocks | heaps and the kernel agree on what is allocated, frames are counted right, memory is shared as allowed and stays where it is (583,894 states up to the symmetry of processes) |
| `page_faults` | working set of 3, 5 pages, page file of 3 frames, stamps of 2 bits | the list is the set of present pages, no write is lost, the victim is the promised one (476,658 states up to the symmetry of heap pages) |
| `repeated_fault` | the same | **violated**: faults that were all handled add up to the panic "Failed to handle fault!", which ends the process |
| `optimal_faults` | 5 pages, working set of 3, up to 6 references | the count is the optimum of the recorded references and a lower bound of the real one (39,062 states) |
| `loader` | 2 processes, 2 images, working set of 3, 44 frames, 9 disk frames, 2 faults, 2 sizes of the kernel | program contents, page file, working sets and the kernel's half (160,137 states, half a minute) |
| `bss_zero` | the same | **violated**: bss pages loaded from the zero page are not zero beyond its first quarter |
| `console` | 2 processes, buffer of 3, 4 bytes | the buffer keeps the latest characters in order, the lock excludes, what has come is read (113,130 states, half a minute) |

Bounds and why they are enough.  Three processes: one running, two that can
stand in one queue in either order, or in two queues, or one asleep and one
waiting; the invariants speak of pairs of queue entries.  Three levels: a
promotion within the scanned levels (2 to 1) and one into the level that
is not scanned (1 to 0).  Two thresholds: the limit can change below a wait in
progress.  `MaxWait` = 3: one above the largest threshold.  One channel: channels
do not interact.  One permit with three processes gives a count of -2.
One interrupt signal can meet every step of `wait` and `signal`.

`KHeap`: a region that is freed looks at its two neighbours, so three clients give each
combination of neighbours in use and free; four pages leave a region of more
than one page among them, to be split, grown into and shrunk.  Four blocks are
just enough for four descriptors, and clients that take blocks make them run out.

`DynAlloc`: with three sizes and three pages a request of the smallest size can
find all pages in use and blocks of one or of both larger sizes.  The largest
block fills a page (half a page in the code), which keeps the instance small and
changes no case.

`PageFaults`: a set of three has a first, a middle and a last page as victim and
all combinations of bits; five pages leave two outside, of which one may be back
from the page file and one new.  Three frames on disk: the program, the stack
and one heap page, so that a second one finds the file full.  Stamps of two bits
shift out a use after two updates, as 32 bits do after 32.

`OptimalFaults`: six references fill the active set, empty it and fill it again.

`SharedMem`: one name and two processes give an owner and a user of each object and
two objects of one name.  Four heap pages hold two regions of two pages, or
three regions of which a middle one is freed; the last page is out of reach of the
kernel call although `malloc` gives it (`USER_HEAP_MAX`).  Seven frames are
fewer than two processes can map, so frames run out; four kernel blocks
are two objects, so a third creation is refused.

`Loader`: a page has two parts, so that a segment can begin and end inside one
and the clearing of the zero page can stop inside it.  The images have a segment of
whole pages with a part of zeros, one of zeros that begins inside a page, and one
that begins inside a page, crosses its end and has zeros behind.  44 frames and 9 disk
frames are enough to load two processes but not for all they may add: both run
out, in the loader and in faults; the larger kernel image takes one frame more.
Two faults bring a page back after it was written out.  Tables of 6 kernel pages
make the kernel heap reach tables that boot has made ahead.

`Console`: four characters in a buffer of three go round it once, and three of them that
nobody reads overflow it, before a fourth.

`CHECK_DEADLOCK FALSE`: the system may really stop, at the prompt when every
process has exited and in a panic, and a process of `OptimalFaults` ends.
`NoPanic` is a property of its own.  The type invariants of the modules without a
`TypeOK` in their cfg are a part of an invariant there (`WorkingSet`, `BufferSound`
and so on); that of `DynAlloc` is proved.

Fairness and what it rests on:

* `Scheduler`: weak fairness of the scheduler's own steps (nothing else is on
  the CPU then) and of the clock (a process that keeps the CPU is interrupted at
  the end of its quantum).  No process is obliged to make a call, no device to
  wake anybody.
* `KSemaphore`, `SleepLock`: weak fairness of each context's own steps (the CPU
  does not stand still), strong fairness of the clock (a tick that finds
  interrupts off stays pending in the controller) and of a process's main steps (a
  quantum is long compared with a step of the kernel, so that a process dispatched
  for ever gets on).  Nothing obliges a process to call `wait` or `acquire`.
* `Console`: strong fairness of preemption and of the steps of a reader (the
  scheduler serves every process, see `RoundRobinFair`, for an instruction at least),
  weak fairness of a pending device interrupt.  Nobody is obliged to read or to type.

Progress holds only under conditions that the code does not enforce, and
the properties name them:

* `env_set_priority` takes a waiting process out and puts it behind all others,
  even when the priority does not change.  A process whose priority is set for
  ever again never runs, under RR too.  Hence `PrioritiesLeftAlone`.
* Under PRIRR aging counts whole quanta and each dispatch starts a new one, so
  urgent processes that always block early stop the aging of all others.
  Hence the condition that the clock ticks for ever.
* The sleep lock lets newcomers overtake the woken.  Only the lock's progress is
  promised (`LockGetsOn`), and that of a process nobody competes with any more
  (`LastWaiterEnters`).

## 4. Proofs

`ListOpsProofs`: what `Keep` returns (a sequence over the same set, whose members are
the kept ones, without duplicates when the original has none), with the same
for `Append`, `Tail`, concatenation and reversal.

`SchedulerProofs`, all from the assumption `SchedConstants` (the NULLs are not
processes or channels, there is a level, thresholds are below `MaxWait`) and,
where `Cardinality` is used, on sequences, which are finite:

* `Invariance`: `Spec => []IInv` with

      IInv == TypeOK /\ QueueInvariant /\ CpuInvariant /\ LevelInvariant /\ PromptIsQuiet

  None of them is inductive alone.  A queue insertion keeps `QueueInvariant` only
  if the process was in no queue, which for the process that yielded is
  `CpuInvariant` (a stale `proc` would be queued twice).  New, empty ready queues
  lose nobody only because of `PromptIsQuiet`, and that one holds because
  `NothingReady` finds all queues empty while `QueueInvariant` says that a ready
  process is in one of them; for that it needs a level for each process,
  `LevelInvariant`.
* `TypeCorrect`, `QueuesCorrect`, `CpuCorrect`, `PromptCorrect`: the properties of
  the run, from `Invariance`.
* `Refinement`: `Spec => LifeSpec`; the initial states map to initial states, and
  each action to a step or a stutter of `ProcLifecycle` under `IInv`.

About the order of service, from the same assumption:

* `AgingInvariance`: `Spec => []AgingInv` with `AgingInv == AgingOrder /\ QuietWaits`,
  inductive beside `IInv`.  A process that joins a queue joins it with the least
  wait, because outside the ready queues nobody has waited (`QuietWaits`) and a
  promotion starts the wait anew; a tick adds one to all others, which keeps their
  order.
* `AgingCorrect`: waits are bounded below the top level, and the queues sorted.
* `DispatchCorrect`: who is dispatched has nobody more urgent and nobody at its
  level who waited longer.
* `AgingStepCorrect`: priorities change by one level and only by aging, but for a
  process that is loaded and a call that sets them.

`DynAllocProofs`, all from `DynAllocConstants` (block sizes are positive and divide
the page, which powers of two do; some size is large enough for each request,
which `alloc_block` asserts with its limit on the size):

* `Invariance`: `Spec => []IInv` with

      IInv == TypeOK /\ PagesTiled /\ OutOnce /\ LargeEnough

  `PagesTiled` counts blocks; that they are counted right when one is freed needs
  `OutOnce`, that a block is held once.  `LargeEnough` compares what was asked with
  the size the page has now, and holds because a page with a block in use is
  not cut again (`SizesStay`, which each step lemma also proves).
* `PagesCorrect`: the invariant of the run; `TypeCorrect`: its type invariant, on which
  the others rest.
* `Refinement`: `Spec => AllocatorSpec`.  A block is an interval of its page and two
  blocks of one size are disjoint multiples of it (`BytesOfBlock`, `BlocksApart`);
  with `SizesStay` a call adds one part to those given out, or takes one away.

That the smallest size chosen by `Rounded` and by `AllocLarger` exists is
`LeastMember`, from `LeastNumber` of `ListOpsProofs`: it orders the intervals
`0..n` by inclusion, which the library proves well-founded, because induction
over numbers takes an operator.

`KernelCpuProofs` holds the lemmas that the two primitives share, from
`CpuConstants` (the processes are finitely many, the names of the idle scheduler
and of nobody are not processes).  `CpuInv` says what `ncli`, the interrupt flag
and the two locks are at each label of the running context, where every other
context has given the CPU away, and that each process is in one place.  A
primitive's step that moves one context between two labels of the same kind
keeps it; so do the steps of the CPU, of `sleep` and of the clock handler.

* `SleepLockProofs`: `Invariance` with `LockInv == CpuInv /\ LockTypes /\ Guarded`.
  `held` is set exactly while some process is between its test and its clearing,
  and only one is; nobody is on the way to sleep on a free lock, since the guard
  is held from the test to the channel and from the wakeup to the clearing.
  `MutualExclusionCorrect`, `NoSleepOnFreeLockCorrect` and `LockCpuCorrect` (the
  kernel's checks never fail, no lock is held with interrupts on) follow.
* `KSemaphoreProofs`: `Invariance` with
  `SemInv == CpuInv /\ SemTypes /\ Channel /\ Permits /\ Sleepers`.  `count` and the
  channel agree only outside the guard; `Channel` says by how much they differ at
  each label inside it, and `Permits` that a permit is neither made nor lost.
  `CountMatchesSleepersCorrect`, `NoPanicCorrect` (for the semaphore this needs
  `Channel`: `wakeup_one` on an empty channel is a panic) and `CpuInOrderCorrect`
  follow.
* `FifoCorrect`: `Spec => FifoSpec`, the semaphore implements the queue of
  `FifoSemaphore`, each step a step of it or a stutter.

`PageFaultsProofs`, all from `PageFaultsConstants` (program and stack are apart from
the heap, the loader leaves distinct pages and no more than the set may hold,
each bit of a time stamp counts for two of the next):

* `Invariance`: `Spec => []PagingInv` with

      PagingInv == /\ TypeOK /\ Kept(m, written)
                   /\ end = "no" => HandFirst(m) /\ last.times <= 2

  `Kept` has three parts: the list is the set of present pages (`Listed`), a
  present page of the heap was allocated (`HeapMarked`, without which
  `allocate_user_mem` would forget a page that is in the list), and what was
  written is in memory, and on disk too unless the modified bit is set (`Saved`,
  without which an unmodified victim might be lost).  The handler passes its
  state from one operator to the next, and there is one lemma for each.
* `WorkingSetCorrect` and `NoLostWritesCorrect`: two invariants of the run.
* `VictimChoiceCorrect`: the action property of the run, for LRU from
  `AgesIn(m, idle)`: the highest bit of a time stamp tells how many updates ago
  the page was used (`AgeSteps`), hence the smallest stamp belongs to a page that
  no other has been idle for longer than (`SmallerOlder`).

`SharedMemProofs`, all from the assumptions of `PhysMem`, `UserHeap` and `SharedMem`
(the device hole lies behind the first three frames and before the kernel, the
heap does not start at page 0, a request is no longer than what lies below the heap,
processes are finitely many):

* The operators first.  `ChooseIs` and `FreeIs`: what `malloc`, `smalloc` and `sget`
  choose and what `free` leaves, for every list of regions that tiles its heap:
  one region more, or one less, and a tiling again.  `FreePageIs`, `NewFrameIs`,
  `MapFramesIs`, `FreeUserMemIs`, `AllocateUserMemIs`: what mapping and unmapping do to
  counts and free list, each with the frames and pages it leaves alone.  The two
  loops over pages are recursive functions; `EveryRound` carries a property
  of the memory from round to round.
* `Invariance`: `Spec => []IInv` with

      IInv == /\ TypeOK /\ Counted(phys, LowFrames)
              /\ \A p \in Procs : CallOK(p) /\ HeapOK(p) /\ PagesOK(p) /\ SeesOK(p)
              /\ ClaimsOK /\ ListOK /\ PrivateOK

  `Counted` alone is not inductive: `allocate_user_mem` writes entries over without
  a look, and would forget mappings unless the pages of a new region map nothing.
  That is `PagesOK` (a page of the heap has a frame only if a client holds it or an
  object is being made there), and it needs `HeapOK`, since a region that is granted
  overlaps no other only while regions tile the heap.  The page where an object
  at address 0 is made may map something: an earlier one, whose frames are
  `LowFrames`, and those are what `FramesCounted` excepts.
  `CallOK` remembers what a call learnt before the lock was given up and is still
  true after it: nobody else adds an object of this owner (so the insertion makes
  no second one of its name), and an object never leaves the list or changes its
  size (so the region that `sget` chose fits).  `ClaimsOK` keeps the frames of
  objects in use and apart, also those of objects that are not in the list yet.
* Each lemma about a step of `p` proves `Apart(p)` as well, that the step leaves heap,
  call, regions and page table of every other process alone, and `Steady(p)`, that
  it changes no mapped page its own client keeps; objects only gain references
  (`ListGrows`).  `OthersKeep` is all that is to be said about the other processes.
* `HeapAccountedCorrect`, `FramesCountedCorrect`, `MemoryApartCorrect`: the three
  invariants of the run, for any number of processes, frames, pages and names;
  `BackingStableCorrect`: its action property, from `Apart` and `Steady`.

The proof that a step preserves an invariant has, in all modules, a lemma per
action or operator and, under it, a step per conjunct that the action disturbs.

Only model-checked:

* the progress properties (`RoundRobinFair`, `AgingPreventsStarvation`,
  `WaitersEnter`, `LockGetsOn`, `LastWaiterEnters`, `KeysAreRead`): liveness under
  fairness is out of the prover's reach;
* `OptimalFaults`: `Fewest` is recursive, and so beyond the prover; `Count` is a
  fold, whose value for every input takes an induction over data;
* `KHeap`, `Loader` and `Console`: proofs not made yet.  Their safety invariants
  have no obstacle in principle, but for the parts that count with folds (the
  content of `Console`'s buffer).

## 5. Plan

Done: `Scheduler`, `KernelCpu`, `KSemaphore`, `SleepLock`; `DynAlloc` and `Allocator`;
`KHeap` for calls one after another; `UserHeap`, `PhysMem` and `SharedMem`;
`PageFaults` and `OptimalFaults` for one process; `KernelSpace`, `PageFile` and
`Loader`; `Console`.

Theorems to come, in this order:

1. `LockHolds` of `Console`, and the bounds of `rpos` and `wpos`.
2. `WorkingSets` and `KernelHalf` of `Loader`, with the lemmas about `PhysMem`, which
   `SharedMemProofs` states for the pages of `SharedMem` so far.
3. `HeapInvariant` of `KHeap`: the list of regions tiles the heap, as the lemmas
   about `UserHeap` show for the user's.

Modules to come: `KHeapRace`, two processes inside `kmalloc` (no lock, interrupts
on), and `Allocator` as a specification that `KHeap` implements too.

## 6. Not modelled

* `MLFQ`, `BSD`, `env_free`, `pf_free_env`, `sfree`, `realloc`, `free_share`, the user
  semaphores and the move of user memory: panics in this repository.
* `sched_kill_env`, `sys_destroy_env`, `sched_kill_all` and `sched_exit_all_ready_envs`:
  they take the process they find from its queue and call `env_free`, whose
  panic ends the caller instead.  No operation that ends in it does what it is for.
* Two system calls inside `kmalloc` at once: every property of `KHeap` would fail at
  the grain of single instructions.
* Priorities outside the levels, and levels below a priority in use: see `Scheduler`.
* Descriptor tables and the detection of memory during boot; the clock and
  interrupt controller chips; the disk driver: port I/O.
* `PG_REP_LRU_LISTS_APPROX`, and the console with `LCK_SLEEP` or `LCK_SEMAPHORE`: not
  built.  (The keyboard handler that signals a semaphore is in `KSemaphore`.)
* Output, translation of scan codes, editing and parsing of command lines, formatting
  and string handling, debugging aids: wording and layout.
* `realloc_block` and the chunk functions that only tests call; the built-in tests.

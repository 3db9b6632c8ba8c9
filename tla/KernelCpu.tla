------------------------------ MODULE KernelCpu ------------------------------
(***************************************************************************)
(* One CPU seen at the grain of the kernel's critical sections: the        *)
(* interrupt flag and the pushcli/popcli nesting (kern/cpu/cpu.c), spin    *)
(* locks (kern/conc/kspinlock.c), sched and yield (user_environment.c),    *)
(* the outer loop of fos_scheduler (kern/cpu/sched.c), the blocking        *)
(* channel (kern/conc/channel.c) and the entry and exit of interrupts      *)
(* (kern/trap/trap.c).  The modules that extend this one add a primitive   *)
(* built on a channel and the processes that use it.                       *)
(*                                                                         *)
(* Whatever has a kernel stack is a context: a process, or the scheduler.  *)
(* A context is in its main code or in an interrupt handler on top of it;  *)
(* handlers do not nest, because they run with interrupts off.  Nothing is *)
(* atomic here by decree: an interrupt may come between any two steps      *)
(* while the interrupt flag is set.                                        *)
(***************************************************************************)
EXTENDS ListOps

CONSTANTS
  Procs,     \* processes
  Sched,     \* the context of fos_scheduler
  NoProc     \* the NULL process

ASSUME CpuConstants ==
  Sched \notin Procs /\ NoProc \notin Procs /\ IsFiniteSet(Procs)

VARIABLES
  cpu,       \* the flag IF and the fields ncli and intena of struct cpu
  running,   \* the context whose stack is in use
  proc,      \* mycpu()->proc
  locked,    \* the spin locks: qlock, and the guard lk of the primitive
  status,    \* env_status
  ready,     \* the ready queue
  waiting,   \* the queue of the primitive's channel
  pc,        \* where each context is, in its main code and in a handler
  intena,    \* the local variable of sched, for each process
  panic      \* some check of the kernel has failed

cpuVars == <<cpu, running, proc, locked, status, ready, waiting, pc, intena,
             panic>>

Contexts == Procs \cup {Sched}
Locks == {"qlock", "lk"}

(* The steps of sched, sleep, the wakeups, the scheduler and the handlers; *)
(* a primitive has labels of its own.                                      *)
CpuLabels ==
  {"sti", "acquire", "pick", "back", "release", "start", "user",
   "sleep", "block", "unguard", "sched", "woke", "reguard",
   "clock", "yield", "yielding", "yielded", "iret", "off"}

CpuTypeOK(Labels) ==
  /\ cpu \in [if : BOOLEAN, ncli : 0..3, intena : BOOLEAN]
  /\ running \in Contexts /\ proc \in Procs \cup {NoProc}
  /\ locked \in [Locks -> BOOLEAN]
  /\ status \in [Procs -> {"READY", "RUNNING", "BLOCKED"}]
  /\ ready \in Seq(Procs) /\ waiting \in Seq(Procs)
  /\ pc \in [Contexts -> [main : Labels, irq : Labels]]
  /\ intena \in [Procs -> BOOLEAN]
  /\ panic \in BOOLEAN

(* The processes are ready to start, the scheduler is about to enable      *)
(* interrupts for the first time.                                          *)
CpuInit ==
  /\ cpu = [if |-> FALSE, ncli |-> 0, intena |-> FALSE]
  /\ running = Sched /\ proc = NoProc
  /\ locked = [k \in Locks |-> FALSE]
  /\ status = [p \in Procs |-> "READY"]
  /\ ready \in {q \in [1..Cardinality(Procs) -> Procs] : IsInjective(q)}
  /\ waiting = <<>>
  /\ pc = [x \in Contexts |-> [main |-> IF x = Sched THEN "sti" ELSE "start",
                               irq |-> "off"]]
  /\ intena = [p \in Procs |-> FALSE]
  /\ panic = FALSE

-----------------------------------------------------------------------------
(* Control.                                                                *)

Frame(x) == IF pc[x].irq = "off" THEN "main" ELSE "irq"
At(x, label) == running = x /\ ~panic /\ pc[x][Frame(x)] = label
Goto(x, label) == pc' = [pc EXCEPT ![x][Frame(x)] = label]

(* A check of the kernel: the step happens, or the kernel panics.          *)
Check(condition, step) ==
  IF condition THEN step /\ panic' = FALSE
  ELSE panic' = TRUE /\ UNCHANGED <<cpu, running, proc, locked, status, ready,
                                    waiting, pc, intena>>

-----------------------------------------------------------------------------
(* pushcli and popcli, and the spin locks built on them.                   *)

Pushcli(c) ==
  [if |-> FALSE, ncli |-> c.ncli + 1,
   intena |-> IF c.ncli = 0 THEN c.if ELSE c.intena]

Popcli(c) ==
  [c EXCEPT !.ncli = @ - 1, !.if = (c.ncli = 1 /\ c.intena)]

(* There is one CPU: a lock that is taken is held by this CPU, and trying  *)
(* to take it again is a panic, never a wait.                              *)
Acquire(x, k, from, to) ==
  /\ At(x, from)
  /\ Check(~locked[k],
           /\ cpu' = Pushcli(cpu)
           /\ locked' = [locked EXCEPT ![k] = TRUE]
           /\ Goto(x, to)
           /\ UNCHANGED <<running, proc, status, ready, waiting, intena>>)

Release(x, k, from, to) ==
  /\ At(x, from)
  /\ Check(locked[k] /\ ~cpu.if /\ cpu.ncli > 0,
           /\ cpu' = Popcli(cpu)
           /\ locked' = [locked EXCEPT ![k] = FALSE]
           /\ Goto(x, to)
           /\ UNCHANGED <<running, proc, status, ready, waiting, intena>>)

-----------------------------------------------------------------------------
(* sched: with qlock held, nothing else held and a new status, the process *)
(* saves intena and gives the CPU to the scheduler.                        *)
SwitchToScheduler(x, from, to) ==
  /\ At(x, from) /\ x \in Procs
  /\ Check(/\ locked["qlock"] /\ cpu.ncli = 1
           /\ status[x] # "RUNNING" /\ ~cpu.if,
           /\ intena' = [intena EXCEPT ![x] = cpu.intena]
           /\ running' = Sched
           /\ Goto(x, to)
           /\ UNCHANGED <<cpu, proc, locked, status, ready, waiting>>)

Block(x) ==
  /\ At(x, "block")
  /\ waiting' = Append(waiting, proc)
  /\ status' = [status EXCEPT ![proc] = "BLOCKED"]
  /\ Goto(x, "unguard")
  /\ UNCHANGED <<cpu, running, proc, locked, ready, intena, panic>>

(* Fault: the guard is not let go before the process gives the CPU away.   *)
Sleeping_KeepsGuard(x, return) ==
  \/ Acquire(x, "qlock", "sleep", "block")
  \/ Block(x)
  \/ SwitchToScheduler(x, "unguard", "woke")
  \/ Release(x, "qlock", "woke", return)

(* sleep, once its caller holds lk: first qlock, then the queue, and only  *)
(* then lk is let go, so that no wakeup can come before the process is in  *)
(* the queue.  The wakeup ends with qlock given back and lk taken again.   *)
Sleeping(x, return) ==
  \/ Acquire(x, "qlock", "sleep", "block")
  \/ Block(x)
  \/ Release(x, "lk", "unguard", "sched")
  \/ SwitchToScheduler(x, "sched", "woke")
  \/ Release(x, "qlock", "woke", "reguard")
  \/ Acquire(x, "lk", "reguard", return)

(* The processes of q go from the channel to the end of the ready queue.   *)
MakeReady(x, from, q, rest, to) ==
  /\ At(x, from)
  /\ waiting' = rest
  /\ status' = [p \in Procs |-> IF p \in Range(q) THEN "READY" ELSE status[p]]
  /\ ready' = ready \o q
  /\ Goto(x, to)
  /\ UNCHANGED <<cpu, running, proc, locked, intena, panic>>

-----------------------------------------------------------------------------
(* The outer loop of fos_scheduler.  Here every process lives for ever, so *)
(* that there is always one to wait for.                                   *)
Sti ==
  /\ At(Sched, "sti")
  /\ cpu' = [cpu EXCEPT !.if = TRUE]
  /\ Goto(Sched, "acquire")
  /\ UNCHANGED <<running, proc, locked, status, ready, waiting, intena, panic>>

Candidates == IF proc = NoProc THEN ready ELSE Append(ready, proc)

(* Fault: sched does not put its own intena back.                          *)
Resume_StaleIntena(p) ==
  /\ At(Sched, "pick") /\ Candidates # <<>> /\ p = Head(Candidates)
  /\ ready' = Tail(Candidates)
  /\ proc' = p /\ running' = p
  /\ status' = [status EXCEPT ![p] = "RUNNING"]
  /\ Goto(Sched, "back")
  /\ UNCHANGED <<cpu, locked, waiting, intena, panic>>

(* The chosen process goes on where it called sched, which restores the    *)
(* intena it saved; one that never ran goes to env_start instead.          *)
Resume(p) ==
  /\ At(Sched, "pick") /\ Candidates # <<>> /\ p = Head(Candidates)
  /\ ready' = Tail(Candidates)
  /\ proc' = p /\ running' = p
  /\ status' = [status EXCEPT ![p] = "RUNNING"]
  /\ cpu' = [cpu EXCEPT !.intena = IF pc[p].main = "start" THEN @ ELSE intena[p]]
  /\ Goto(Sched, "back")
  /\ UNCHANGED <<locked, waiting, intena, panic>>

NoneReady ==
  /\ At(Sched, "pick") /\ Candidates = <<>>
  /\ Goto(Sched, "release")
  /\ UNCHANGED <<cpu, running, proc, locked, status, ready, waiting, intena,
                 panic>>

(* The process comes back with a new status; only one that is still ready  *)
(* is put in the ready queue again.                                        *)
Back ==
  /\ At(Sched, "back")
  /\ Check(locked["qlock"] /\ status[proc] # "RUNNING",
           /\ proc' = IF status[proc] = "READY" THEN proc ELSE NoProc
           /\ Goto(Sched, "pick")
           /\ UNCHANGED <<cpu, running, locked, status, ready, waiting, intena>>)

Scheduler ==
  \/ Sti
  \/ Acquire(Sched, "qlock", "acquire", "pick")
  \/ \E p \in Procs : Resume(p)
  \/ NoneReady
  \/ Back
  \/ Release(Sched, "qlock", "release", "sti")

(* env_start, then the first return to user mode.                          *)
Start(p) == Release(p, "qlock", "start", "iret")

-----------------------------------------------------------------------------
(* Interrupts.  They come when IF is set, and clear it.                    *)
Interrupt(x, handler) ==
  /\ running = x /\ ~panic /\ cpu.if /\ pc[x].irq = "off"
  /\ cpu' = [cpu EXCEPT !.if = FALSE]
  /\ pc' = [pc EXCEPT ![x].irq = handler]
  /\ UNCHANGED <<running, proc, locked, status, ready, waiting, intena, panic>>

(* The clock stands still while the scheduler runs.                        *)
ClockInterrupt(p) == Interrupt(p, "clock")

Yield(x) ==
  /\ At(x, "yield")
  /\ status' = [status EXCEPT ![proc] = "READY"]
  /\ Goto(x, "yielding")
  /\ UNCHANGED <<cpu, running, proc, locked, ready, waiting, intena, panic>>

ClockHandler(x) ==
  \/ Acquire(x, "qlock", "clock", "yield")
  \/ Yield(x)
  \/ SwitchToScheduler(x, "yielding", "yielded")
  \/ Release(x, "qlock", "yielded", "iret")

(* trap asserts that interrupts are off before it returns; the return      *)
(* turns them on again, for they were on when the interrupt came.  A new   *)
(* process returns to user mode.                                           *)
Iret(x) ==
  /\ At(x, "iret")
  /\ Check(~cpu.if \/ pc[x].irq = "off",
           /\ cpu' = [cpu EXCEPT !.if = TRUE]
           /\ pc' = IF pc[x].irq = "off" THEN [pc EXCEPT ![x].main = "user"]
                    ELSE [pc EXCEPT ![x].irq = "off"]
           /\ UNCHANGED <<running, proc, locked, status, ready, waiting, intena>>)

-----------------------------------------------------------------------------
(* Properties of the CPU that every primitive relies on.                   *)

(* None of the checks of pushcli/popcli, the spin locks, sched, yield,     *)
(* fos_scheduler and trap ever fails, in whatever order interrupts come:   *)
(* no lock is taken twice, sched is never entered with a second lock held. *)
NoPanic == ~panic

(* Interrupts are off exactly while something is nested or handled: a      *)
(* lock is never held with interrupts on, and a process that has left the  *)
(* kernel's critical sections always has them on again, although it may    *)
(* have slept in between and other processes have used the same intena.    *)
InterruptsMatchLocks ==
  LET held == Cardinality({k \in Locks : locked[k]})
  IN  /\ cpu.ncli = held
      /\ cpu.if => held = 0 /\ pc[running].irq = "off"
      /\ running \in Procs /\ held = 0 /\ pc[running].irq = "off"
           => cpu.if \/ pc[running].main = "iret"

(* Every process is at one place: on the CPU, in the ready queue, in the   *)
(* channel's queue, or about to be put back by the scheduler.              *)
PlacedOnce ==
  /\ IsInjective(ready) /\ IsInjective(waiting)
  /\ \A p \in Procs :
       /\ p \in Range(waiting) <=> status[p] = "BLOCKED"
       /\ p \in Range(ready) <=>
            status[p] = "READY" /\ ~(p = proc /\ (running = p \/ running = Sched))
       /\ status[p] = "RUNNING" => running = p /\ proc = p

CpuInOrder == InterruptsMatchLocks /\ PlacedOnce
==============================================================================

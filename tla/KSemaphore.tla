------------------------------ MODULE KSemaphore ------------------------------
(***************************************************************************)
(* The kernel semaphore, kern/conc/ksemaphore.c, on the CPU of KernelCpu.  *)
(* Processes enter and leave a section guarded by wait and signal, and a   *)
(* device interrupt may signal too, as the keyboard handler does when the  *)
(* console is built with KBD_INT_BLK_METHOD = LCK_SEMAPHORE.               *)
(***************************************************************************)
EXTENDS KernelCpu, Integers

CONSTANTS
  Value,      \* the initial value given to init_ksemaphore
  MaxPosts    \* how many signals come from the interrupt handler

ASSUME SemConstants == Value \in Nat /\ MaxPosts \in Nat

VARIABLES count, posts

semVars == <<cpuVars, count, posts>>

SemLabels ==
  {"wait", "decrement", "waitDone", "section",
   "signal", "increment", "wakeup", "dequeue", "woken", "signalDone"}

TypeOK ==
  /\ CpuTypeOK(CpuLabels \cup SemLabels)
  /\ count \in (Value - Cardinality(Procs))..(Value + MaxPosts)
  /\ posts \in 0..MaxPosts

Init == CpuInit /\ count = Value /\ posts = 0

CpuOnly == UNCHANGED <<count, posts>>

-----------------------------------------------------------------------------
(* wait_ksemaphore: there is no second look at count after sleep.          *)
CallWait(p) ==
  /\ At(p, "user") /\ Goto(p, "wait")
  /\ UNCHANGED <<cpu, running, proc, locked, status, ready, waiting, intena,
                 panic, count, posts>>

(* Fault: wait sleeps at zero already.                                     *)
MustSleep_AtZero(n) == n <= 0

MustSleep(n) == n < 0

Decrement(p) ==
  /\ At(p, "decrement")
  /\ count' = count - 1
  /\ Goto(p, IF MustSleep(count - 1) THEN "sleep" ELSE "waitDone")
  /\ UNCHANGED <<cpu, running, proc, locked, status, ready, waiting, intena,
                 panic, posts>>

Wait(p) ==
  \/ CallWait(p)
  \/ Acquire(p, "lk", "wait", "decrement") /\ CpuOnly
  \/ Decrement(p)
  \/ Sleeping(p, "waitDone") /\ CpuOnly
  \/ Release(p, "lk", "waitDone", "section") /\ CpuOnly

(* signal_ksemaphore, from a process or from the interrupt handler.        *)
CallSignal(p) ==
  /\ At(p, "section") /\ Goto(p, "signal")
  /\ UNCHANGED <<cpu, running, proc, locked, status, ready, waiting, intena,
                 panic, count, posts>>

(* Fault: the wakeup is left out when count comes back to zero.            *)
MustWake_BelowZero(n) == n < 0

MustWake(n) == n <= 0

Increment(x) ==
  /\ At(x, "increment")
  /\ count' = count + 1
  /\ Goto(x, IF MustWake(count + 1) THEN "wakeup" ELSE "signalDone")
  /\ UNCHANGED <<cpu, running, proc, locked, status, ready, waiting, intena,
                 panic, posts>>

(* Fault: the youngest sleeper is woken.                                   *)
Dequeue_Youngest(x) ==
  LET last == waiting[Len(waiting)]
  IN  MakeReady(x, "dequeue", <<last>>, Without(waiting, last), "woken")

(* wakeup_one, with dequeue's NULL for an empty channel a kernel fault.    *)
Dequeue(x) ==
  IF waiting # <<>>
  THEN MakeReady(x, "dequeue", <<Head(waiting)>>, Tail(waiting), "woken")
  ELSE /\ At(x, "dequeue") /\ panic' = TRUE
       /\ UNCHANGED <<cpu, running, proc, locked, status, ready, waiting, pc,
                      intena>>

Signal(x) ==
  \/ Acquire(x, "lk", "signal", "increment") /\ CpuOnly
  \/ Increment(x)
  \/ Acquire(x, "qlock", "wakeup", "dequeue") /\ CpuOnly
  \/ Dequeue(x) /\ CpuOnly
  \/ Release(x, "qlock", "woken", "signalDone") /\ CpuOnly
  \/ Release(x, "lk", "signalDone",
             IF Frame(x) = "irq" THEN "iret" ELSE "user") /\ CpuOnly

(* The device interrupt whose handler signals.                             *)
Post(x) ==
  /\ posts < MaxPosts
  /\ Interrupt(x, "signal")
  /\ posts' = posts + 1 /\ UNCHANGED count

-----------------------------------------------------------------------------
Handler(x) == ClockHandler(x) \/ Iret(x)

ProcStep(p) ==
  \/ Wait(p) \/ CallSignal(p) \/ Signal(p)
  \/ (Start(p) \/ Handler(p)) /\ CpuOnly

SchedStep ==
  \/ Scheduler /\ CpuOnly
  \/ Signal(Sched)
  \/ Iret(Sched) /\ CpuOnly

Next ==
  \/ \E p \in Procs : ProcStep(p)
  \/ SchedStep
  \/ \E p \in Procs : ClockInterrupt(p) /\ CpuOnly
  \/ \E x \in Contexts : Post(x)

Spec == Init /\ [][Next]_semVars

(* The CPU never stands still.  The clock ticks while processes run, and a *)
(* tick that finds interrupts off stays pending until they are on.  A      *)
(* process that is dispatched again and again gets on with its own code: a *)
(* quantum is long compared with a step of the kernel.  Nothing makes it   *)
(* call wait; one that has entered the section leaves it.                  *)
MainStep(p) == Frame(p) = "main" /\ pc[p].main # "user" /\ ProcStep(p)

FairSpec ==
  /\ Spec
  /\ WF_semVars(SchedStep)
  /\ \A p \in Procs : WF_semVars(ProcStep(p)) /\ SF_semVars(MainStep(p))
  /\ SF_semVars(\E p \in Procs : ClockInterrupt(p) /\ CpuOnly)
-----------------------------------------------------------------------------
(* Properties.                                                             *)

MainAt(p, labels) == pc[p].main \in labels

InWait(p) == MainAt(p, {"sleep", "block", "unguard", "sched", "woke",
                        "reguard", "waitDone"})

(* Whenever nobody is inside wait or signal, a negative count says exactly *)
(* how many processes sleep, and none sleeps otherwise: no wakeup is lost  *)
(* and none is given to an empty channel.                                  *)
CountMatchesSleepers ==
  /\ TypeOK
  /\ ~locked["lk"] => Len(waiting) = IF count < 0 THEN -count ELSE 0

InSection(p) == MainAt(p, {"section", "signal", "increment"})

(* A process that waits is let in some day, as long as the ones inside     *)
(* leave: signal hands the section to the oldest sleeper, so that nobody   *)
(* who comes later can take it from him.                                   *)
WaitersEnter ==
  \A p \in Procs : MainAt(p, {"wait"}) ~> MainAt(p, {"section"})

(* The kernel semaphore implements the queue of FifoSemaphore: the permit  *)
(* passes on when count is incremented, although the sleeper is taken out  *)
(* of the channel only later and gets the CPU later still.                 *)
Waking == \E x \in Contexts : \/ MainAt(x, {"wakeup", "dequeue"})
                             \/ pc[x].irq \in {"wakeup", "dequeue"}
Joining == {p \in Procs : MainAt(p, {"sleep", "block"})}

WaitQueue ==
  (IF Waking /\ waiting # <<>> THEN Tail(waiting) ELSE waiting)
    \o (IF Joining = {} THEN <<>> ELSE <<CHOOSE p \in Joining : TRUE>>)

Fifo == INSTANCE FifoSemaphore
          WITH free <- IF count > 0 THEN count ELSE 0,
               inside <- {p \in Procs : InSection(p) \/ InWait(p)}
                           \ Range(WaitQueue),
               queue <- WaitQueue

FifoSpec == Fifo!Spec
==============================================================================

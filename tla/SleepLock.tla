------------------------------ MODULE SleepLock ------------------------------
(***************************************************************************)
(* The sleep lock, kern/conc/sleeplock.c, on the CPU of KernelCpu.  Every  *)
(* process acquires the lock, may ask whether it holds it, and releases.   *)
(***************************************************************************)
EXTENDS KernelCpu

VARIABLES
  held,     \* the field locked of the sleep lock
  pid,      \* its field pid
  answer    \* what holding_sleeplock last told each process

lockVars == <<cpuVars, held, pid, answer>>
CpuOnly == UNCHANGED <<held, pid, answer>>
NoCpuStep == UNCHANGED <<cpu, running, proc, locked, status, ready, waiting,
                         intena, panic>>

LockLabels ==
  {"acq", "test", "acqDone", "section", "hold", "holds", "holdDone",
   "rel", "any", "wakeup", "dequeue", "woken", "clear", "relDone"}

TypeOK ==
  /\ CpuTypeOK(CpuLabels \cup LockLabels)
  /\ held \in BOOLEAN /\ pid \in Procs \cup {NoProc}
  /\ answer \in [Procs -> {"unasked", "yes", "no"}]

(* init_sleeplock leaves pid 0, which is no process's env_id.              *)
Init ==
  /\ CpuInit
  /\ held = FALSE /\ pid = NoProc
  /\ answer = [p \in Procs |-> "unasked"]

-----------------------------------------------------------------------------
(* acquire_sleeplock: a process that was woken looks at the lock again.    *)
CallAcquire(p) ==
  /\ At(p, "user") /\ Goto(p, "acq")
  /\ NoCpuStep /\ CpuOnly

(* Fault: the lock is not looked at again after the sleep.                 *)
AfterSleep_NoTest == "acqDone"

AfterSleep == "test"

Test(p) ==
  /\ At(p, "test")
  /\ IF held THEN Goto(p, "sleep") /\ UNCHANGED held
     ELSE Goto(p, "acqDone") /\ held' = TRUE
  /\ NoCpuStep /\ UNCHANGED <<pid, answer>>

AcquireLock(p) ==
  \/ CallAcquire(p)
  \/ Acquire(p, "lk", "acq", "test") /\ CpuOnly
  \/ Test(p)
  \/ Sleeping(p, AfterSleep) /\ CpuOnly
  \/ Release(p, "lk", "acqDone", "section") /\ CpuOnly

-----------------------------------------------------------------------------
(* release_sleeplock wakes everybody, then clears the lock, all under the  *)
(* guard.                                                                  *)
CallRelease(p) ==
  /\ At(p, "section") /\ Goto(p, "rel")
  /\ answer' = [answer EXCEPT ![p] = "unasked"]
  /\ NoCpuStep /\ UNCHANGED <<held, pid>>

(* Fault: a single sleeper is taken for none.                              *)
Any_NotTheLast(p) ==
  /\ At(p, "any")
  /\ Goto(p, IF Len(waiting) > 1 THEN "wakeup" ELSE "clear")
  /\ NoCpuStep /\ CpuOnly

Any(p) ==
  /\ At(p, "any")
  /\ Goto(p, IF waiting # <<>> THEN "wakeup" ELSE "clear")
  /\ NoCpuStep /\ CpuOnly

(* Fault: only the first of the sleepers is woken.                         *)
DequeueAll_One(p) ==
  MakeReady(p, "dequeue", <<Head(waiting)>>, Tail(waiting), "woken")

DequeueAll(p) == MakeReady(p, "dequeue", waiting, <<>>, "woken")

(* Fault: the lock is not cleared.                                         *)
Clear_Forgotten(p) ==
  /\ At(p, "clear") /\ Goto(p, "relDone")
  /\ NoCpuStep /\ CpuOnly

Clear(p) ==
  /\ At(p, "clear") /\ Goto(p, "relDone")
  /\ held' = FALSE
  /\ NoCpuStep /\ UNCHANGED <<pid, answer>>

ReleaseLock(p) ==
  \/ CallRelease(p)
  \/ Acquire(p, "lk", "rel", "any") /\ CpuOnly
  \/ Any(p)
  \/ Acquire(p, "qlock", "wakeup", "dequeue") /\ CpuOnly
  \/ DequeueAll(p) /\ CpuOnly
  \/ Release(p, "qlock", "woken", "clear") /\ CpuOnly
  \/ Clear(p)
  \/ Release(p, "lk", "relDone", "user") /\ CpuOnly

-----------------------------------------------------------------------------
(* holding_sleeplock, asked by the process that holds the lock.            *)
CallHolding(p) ==
  /\ At(p, "section") /\ answer[p] = "unasked" /\ Goto(p, "hold")
  /\ NoCpuStep /\ CpuOnly

Holds(p) ==
  /\ At(p, "holds") /\ Goto(p, "holdDone")
  /\ answer' = [answer EXCEPT ![p] = IF held /\ pid = proc THEN "yes" ELSE "no"]
  /\ NoCpuStep /\ UNCHANGED <<held, pid>>

Holding(p) ==
  \/ CallHolding(p)
  \/ Acquire(p, "lk", "hold", "holds") /\ CpuOnly
  \/ Holds(p)
  \/ Release(p, "lk", "holdDone", "section") /\ CpuOnly

-----------------------------------------------------------------------------
ProcStep(p) ==
  \/ AcquireLock(p) \/ ReleaseLock(p) \/ Holding(p)
  \/ (Start(p) \/ ClockHandler(p) \/ Iret(p)) /\ CpuOnly

SchedStep == Scheduler /\ CpuOnly
Clock == (\E p \in Procs : ClockInterrupt(p)) /\ CpuOnly

Next == (\E p \in Procs : ProcStep(p)) \/ SchedStep \/ Clock

Spec == Init /\ [][Next]_lockVars

(* As for the kernel semaphore: the CPU never stands still, pending ticks  *)
(* are delivered, and a process that is dispatched again and again gets on *)
(* with its own code.  Nothing makes it ask for the lock.                  *)
MainStep(p) == Frame(p) = "main" /\ pc[p].main # "user" /\ ProcStep(p)

FairSpec ==
  /\ Spec
  /\ WF_lockVars(SchedStep) /\ SF_lockVars(Clock)
  /\ \A p \in Procs : WF_lockVars(ProcStep(p)) /\ SF_lockVars(MainStep(p))
-----------------------------------------------------------------------------
(* Properties.                                                             *)

MainAt(p, labels) == pc[p].main \in labels

(* Past acquire_sleeplock and not yet through release_sleeplock.           *)
Owner(p) ==
  MainAt(p, {"acqDone", "section", "hold", "holds", "holdDone", "rel", "any",
             "wakeup", "dequeue", "woken", "clear"})

(* The lock excludes: the field locked says whether there is an owner, and *)
(* there is never a second one, although woken processes and newcomers     *)
(* race for the lock.  No check of the kernel fails meanwhile.             *)
MutualExclusion ==
  /\ NoPanic
  /\ held <=> \E p \in Procs : Owner(p)
  /\ \A p, q \in Procs : Owner(p) /\ Owner(q) => p = q

(* Nobody sleeps on a free lock: the release wakes all, and the test and   *)
(* the sleep of a process are one section under the guard.                 *)
NoSleepOnFreeLock == TypeOK /\ (~locked["lk"] /\ ~held => waiting = <<>>)

(* The lock gets on: while somebody wants it, again and again somebody     *)
(* gets it.  It is not promised that it is the same process: the woken are *)
(* not served before newcomers, and one of them may lose for ever.         *)
Wants(p) == MainAt(p, {"acq", "test", "sleep", "block", "unguard", "sched",
                       "woke", "reguard"})

LockGetsOn ==
  (\E p \in Procs : Wants(p)) ~> (\E p \in Procs : MainAt(p, {"section"}))

(* A process that can no longer be overtaken does get the lock: once the   *)
(* others have stopped asking for it, the last one waiting has it some day. *)
LastWaiterEnters ==
  \A p \in Procs :
    <>[](\A q \in Procs \ {p} : MainAt(q, {"user"}))
      => (Wants(p) ~> MainAt(p, {"section"}))
==============================================================================

---------------------------- MODULE SleepLockProofs ----------------------------
(***************************************************************************)
(* Proofs about the sleep lock, for any set of processes that acquire it,  *)
(* release it and ask whether they hold it: one process at a time has it,  *)
(* nobody sleeps while it is free, and the kernel does not panic on the    *)
(* way.                                                                    *)
(*                                                                         *)
(* Neither property is inductive.  That one owner excludes another needs   *)
(* held to be set from the test to the clearing, and that nobody sleeps on *)
(* a free lock needs the guard: it is held from the test until the process *)
(* is in the channel, and from the wakeup until the lock is free           *)
(* (Guarded).  That the guard excludes is CpuInv.                          *)
(***************************************************************************)
EXTENDS SleepLock, KernelCpuProofs

(* The labels of a process that has the lock.                              *)
OwnerLabels ==
  {"acqDone", "section", "hold", "holds", "holdDone", "rel", "any",
   "wakeup", "dequeue", "woken", "clear"}

(* The types of the variables, and the labels that this system uses.       *)
LockTypes ==
  /\ \A x \in Contexts : /\ pc[x].irq \in ClockLabels
                         /\ pc[x].main \in CpuLabels \cup LockLabels
  /\ held \in BOOLEAN /\ panic \in BOOLEAN /\ pid \in Procs \cup {NoProc}
  /\ answer \in [Procs -> {"unasked", "yes", "no"}]

(* Between the test and the sleep the lock stays taken, and between the    *)
(* wakeup and the clearing nobody goes to sleep.                           *)
Guarded ==
  /\ held <=> \E p \in Procs : pc[p].main \in OwnerLabels
  /\ \A p, q \in Procs :
       pc[p].main \in OwnerLabels /\ pc[q].main \in OwnerLabels => p = q
  /\ ~held => waiting = <<>>
  /\ \A p \in Procs : pc[p].main \in {"sleep", "block"} => held
  /\ \A p \in Procs : pc[p].main \in {"woken", "clear"} => waiting = <<>>

(* The inductive invariant.                                                *)
LockInv == CpuInv /\ LockTypes /\ Guarded

-----------------------------------------------------------------------------
(* The CPU's part of the invariant.                                        *)

(* The labels of the operations.                                           *)
LEMMA LockKinds ==
  /\ SameKind("user", "acq") /\ Goes("user", "acq")
  /\ SameKind("acq", "test") /\ Takes("lk", "acq", "test")
  /\ SameKind("test", "sleep") /\ Goes("test", "sleep")
  /\ SameKind("test", "acqDone") /\ Goes("test", "acqDone")
  /\ SameKind("acqDone", "section") /\ Gives("lk", "acqDone", "section")
  /\ SameKind("section", "rel") /\ Goes("section", "rel")
  /\ SameKind("rel", "any") /\ Takes("lk", "rel", "any")
  /\ SameKind("any", "wakeup") /\ Goes("any", "wakeup")
  /\ SameKind("any", "clear") /\ Goes("any", "clear")
  /\ SameKind("wakeup", "dequeue") /\ Takes("qlock", "wakeup", "dequeue")
  /\ Gives("qlock", "woken", "clear")
  /\ SameKind("clear", "relDone") /\ Goes("clear", "relDone")
  /\ SameKind("relDone", "user") /\ Gives("lk", "relDone", "user")
  /\ SameKind("section", "hold") /\ Goes("section", "hold")
  /\ SameKind("hold", "holds") /\ Takes("lk", "hold", "holds")
  /\ SameKind("holds", "holdDone") /\ Goes("holds", "holdDone")
  /\ SameKind("holdDone", "section") /\ Gives("lk", "holdDone", "section")
BY DEF SameKind, Takes, Gives, Goes, Joins, StatusAt, HeldAt, Locks, QLabels,
       LkLabels, MainLabels, HandlerLabels

(* A process at a label of its own is in its main code.                    *)
LEMMA InMain ==
  ASSUME LockInv, NEW p \in Procs, NEW label, At(p, label),
         label \in MainLabels \ ClockLabels
  PROVE  /\ p \in Contexts /\ running = p
         /\ pc[p].irq = "off" /\ pc[p].main = label
<1>1. p \in Contexts
  BY DEF Contexts
<1>2. running = p /\ Here(pc[p]) = label
  BY <1>1, AtFits DEF LockInv
<1>3. pc[p].irq \in ClockLabels
  BY <1>1 DEF LockInv, LockTypes
<1> QED
  BY <1>1, <1>2, <1>3 DEF Here

(* Every step keeps the CPU's part.                                        *)
LEMMA LockCpuStep ==
  ASSUME LockInv, [Next]_lockVars
  PROVE  CpuInv'
<1> USE DEF LockInv
<1>0. "qlock" \in Locks /\ "lk" \in Locks /\ Procs \subseteq Contexts
  BY DEF Locks, Contexts
<1>1. ASSUME NEW p \in Procs, NEW from, NEW to, At(p, from), Goto(p, to),
             SameKind(from, to), Goes(from, to), NoCpuStep
      PROVE  CpuInv'
  BY <1>0, <1>1, GoKeeps DEF NoCpuStep
<1>2. ASSUME NEW p \in Procs, NEW k \in Locks, NEW from, NEW to,
             Acquire(p, k, from, to), SameKind(from, to), Takes(k, from, to)
      PROVE  CpuInv'
  BY <1>0, <1>2, AcquireKeeps
<1>3. ASSUME NEW p \in Procs, NEW k \in Locks, NEW from, NEW to,
             Release(p, k, from, to), SameKind(from, to), Gives(k, from, to)
      PROVE  CpuInv'
  <2>1. Fits(p, pc[p], to)
    BY <1>0, <1>3, KindFits DEF Release
  <2> QED
    BY <1>0, <1>3, <2>1, ReleaseKeeps
<1>4. ASSUME NEW p \in Procs, AcquireLock(p) PROVE CpuInv'
  <2>1. CallAcquire(p) => CpuInv'
    BY <1>1, LockKinds DEF CallAcquire
  <2>2. Acquire(p, "lk", "acq", "test") => CpuInv'
    BY <1>0, <1>2, LockKinds
  <2>3. Test(p) => CpuInv'
    BY <1>1, LockKinds DEF Test
  <2>4. Sleeping(p, AfterSleep) => CpuInv'
    BY SleepingStep DEF AfterSleep
  <2>5. Release(p, "lk", "acqDone", "section") => CpuInv'
    BY <1>0, <1>3, LockKinds
  <2> QED
    BY <1>4, <2>1, <2>2, <2>3, <2>4, <2>5 DEF AcquireLock
<1>5. ASSUME NEW p \in Procs, ReleaseLock(p) PROVE CpuInv'
  <2>1. CallRelease(p) => CpuInv'
    BY <1>1, LockKinds DEF CallRelease
  <2>2. Acquire(p, "lk", "rel", "any") => CpuInv'
    BY <1>0, <1>2, LockKinds
  <2>3. Any(p) => CpuInv'
    BY <1>1, LockKinds DEF Any
  <2>4. Acquire(p, "qlock", "wakeup", "dequeue") => CpuInv'
    BY <1>0, <1>2, LockKinds
  <2>5. ASSUME DequeueAll(p) PROVE CpuInv'
    <3>1. waiting \in Seq(Procs) /\ IsInjective(waiting)
      BY DEF CpuInv, Types, PlacedOnce
    <3>2. <<>> \in Seq(Procs) /\ Range(<<>>) = {} /\ IsInjective(<<>>)
      BY DEF Range, IsInjective
    <3>3. Range(<<>>) = Range(waiting) \ Range(waiting)
      BY <3>2
    <3> QED
      BY <1>0, <2>5, <3>1, <3>2, <3>3, MakeReadyStep DEF DequeueAll
  <2>6. ASSUME Release(p, "qlock", "woken", "clear") PROVE CpuInv'
    <3>1. pc[p].irq = "off"
      BY <2>6, InMain DEF Release, MainLabels, ClockLabels
    <3>2. Fits(p, pc[p], "clear")
      BY <3>1, CpuConstants DEF Fits, MainLabels
    <3> QED
      BY <1>0, <2>6, <3>2, ReleaseKeeps, LockKinds
  <2>7. Clear(p) => CpuInv'
    BY <1>1, LockKinds DEF Clear
  <2>8. Release(p, "lk", "relDone", "user") => CpuInv'
    BY <1>0, <1>3, LockKinds
  <2> QED
    BY <1>5, <2>1, <2>2, <2>3, <2>4, <2>5, <2>6, <2>7, <2>8 DEF ReleaseLock
<1>6. ASSUME NEW p \in Procs, Holding(p) PROVE CpuInv'
  <2>1. CallHolding(p) => CpuInv'
    BY <1>1, LockKinds DEF CallHolding
  <2>2. Acquire(p, "lk", "hold", "holds") => CpuInv'
    BY <1>0, <1>2, LockKinds
  <2>3. Holds(p) => CpuInv'
    BY <1>1, LockKinds DEF Holds
  <2>4. Release(p, "lk", "holdDone", "section") => CpuInv'
    BY <1>0, <1>3, LockKinds
  <2> QED
    BY <1>6, <2>1, <2>2, <2>3, <2>4 DEF Holding
<1>7. ASSUME NEW p \in Procs, ProcStep(p) PROVE CpuInv'
  BY <1>4, <1>5, <1>6, <1>7, ProcessStep DEF ProcStep
<1>8. SchedStep => CpuInv'
  BY SchedulerStep DEF SchedStep
<1>9. Clock => CpuInv'
  BY ProcessStep DEF Clock
<1>10. UNCHANGED lockVars => CpuInv'
  BY CpuUnchanged DEF lockVars
<1> QED
  BY <1>7, <1>8, <1>9, <1>10 DEF Next

-----------------------------------------------------------------------------
(* The lock's part of the invariant.                                       *)

(* Nobody but the running process is between a test and its sleep, or in   *)
(* the middle of a wakeup.                                                 *)
LEMMA OthersSuspended ==
  ASSUME LockInv, NEW p \in Procs, running = p, NEW q \in Procs \ {p}
  PROVE  pc[q].main \notin {"sleep", "block", "woken", "clear"}
<1>1. ContextOK(q, pc[q]) /\ q # Sched /\ q # running
  BY CpuConstants DEF LockInv, CpuInv, Contexts
<1>2. \/ pc[q].irq = "off" /\ pc[q].main \in {"start", "woke"}
      \/ pc[q].irq = "yielded"
  BY <1>1 DEF LockInv, CpuInv, Suspended
<1>3. NoneHeld(pc[q].main) \/ pc[q].main \in {"start", "woke"}
  BY <1>1, <1>2 DEF ContextOK
<1> QED
  BY <1>3 DEF NoneHeld, QLabels, LkLabels

(* A step of a process in its main code: it takes the lock only when it is *)
(* free, it goes to sleep only under the guard with the lock taken, and it *)
(* gives the lock back only when nobody sleeps.                            *)
LEMMA MoveKeeps ==
  ASSUME LockInv, NEW p \in Procs, running = p, NEW to,
         pc'[p] = [main |-> to, irq |-> "off"],
         \A q \in Procs \ {p} : pc'[q] = pc[q],
         held' <=> to \in OwnerLabels \/ (held /\ pc[p].main \notin OwnerLabels),
         to \in OwnerLabels /\ pc[p].main \notin OwnerLabels => ~held,
         ~held' => waiting' = <<>>,
         to \in {"sleep", "block"} => held',
         to \in {"woken", "clear"} => waiting' = <<>>
  PROVE  Guarded'
<1>1. /\ held <=> \E q \in Procs : pc[q].main \in OwnerLabels
      /\ \A q, r \in Procs :
           pc[q].main \in OwnerLabels /\ pc[r].main \in OwnerLabels => q = r
  BY DEF LockInv, Guarded
<1>2. pc'[p].main = to
  OBVIOUS
<1>3. \A q \in Procs \ {p} :
        pc'[q].main \notin {"sleep", "block", "woken", "clear"}
  BY OthersSuspended
<1>4. held' <=> \E q \in Procs : pc'[q].main \in OwnerLabels
  <2>1. CASE pc[p].main \in OwnerLabels
    BY <1>1, <1>2, <2>1
  <2>2. CASE pc[p].main \notin OwnerLabels
    <3>1. held <=> \E q \in Procs \ {p} : pc[q].main \in OwnerLabels
      BY <1>1, <2>2
    <3>2. held <=> \E q \in Procs \ {p} : pc'[q].main \in OwnerLabels
      BY <3>1
    <3> QED
      BY <1>2, <2>2, <3>2
  <2> QED
    BY <2>1, <2>2
<1>5. \A q, r \in Procs :
        pc'[q].main \in OwnerLabels /\ pc'[r].main \in OwnerLabels => q = r
  <2>1. CASE to \in OwnerLabels /\ pc[p].main \notin OwnerLabels
    BY <1>1, <1>2, <2>1
  <2>2. CASE ~(to \in OwnerLabels /\ pc[p].main \notin OwnerLabels)
    <3>1. \A q \in Procs : pc'[q].main \in OwnerLabels => pc[q].main \in OwnerLabels
      BY <1>2, <2>2
    <3> QED
      BY <1>1, <3>1
  <2> QED
    BY <2>1, <2>2
<1> QED
  BY <1>2, <1>3, <1>4, <1>5 DEF Guarded

(* A step of a handler, of the scheduler, or of a process that is started: *)
(* the lock does not notice.                                               *)
LEMMA ElsewhereKeeps ==
  ASSUME LockInv, panic' = FALSE, UNCHANGED <<held, pid, answer, waiting>>,
         NEW x \in Contexts,
         \A y \in Contexts \ {x} : pc'[y] = pc[y],
         pc'[x].irq \in ClockLabels,
         \/ pc'[x].main = pc[x].main
         \/ /\ pc[x].main \in SchedLabels \cup {"start", "iret"}
            /\ pc'[x].main \in SchedLabels \cup {"iret", "user"}
  PROVE  LockTypes' /\ Guarded'
<1> DEFINE Quiet == SchedLabels \cup {"start", "iret", "user"}
<1>1. /\ Quiet \cap OwnerLabels = {}
      /\ Quiet \cap {"sleep", "block", "woken", "clear"} = {}
      /\ Quiet \subseteq CpuLabels
  BY DEF SchedLabels, OwnerLabels, CpuLabels
<1>2. \A y \in Contexts : \/ pc'[y].main = pc[y].main
                          \/ pc[y].main \in Quiet /\ pc'[y].main \in Quiet
  OBVIOUS
<1> HIDE DEF Quiet
<1>3. LockTypes'
  BY <1>1, <1>2 DEF LockInv, LockTypes
<1>4. \A p \in Procs : p \in Contexts
  BY DEF Contexts
<1>5. \A p \in Procs : pc'[p].main \in OwnerLabels <=> pc[p].main \in OwnerLabels
  BY <1>1, <1>2, <1>4
<1>6. \A p \in Procs :
        pc'[p].main \in {"sleep", "block", "woken", "clear"} => pc'[p].main = pc[p].main
  BY <1>1, <1>2, <1>4
<1>7. Guarded'
  BY <1>5, <1>6 DEF LockInv, Guarded
<1> QED
  BY <1>3, <1>7

(* A step of the main code of p from one label to another.                 *)
LEMMA MainMove ==
  ASSUME LockInv, NEW p \in Procs, NEW from \in MainLabels \ ClockLabels,
         NEW to \in MainLabels, At(p, from), Goto(p, to)
  PROVE  /\ running = p /\ pc[p] = [main |-> from, irq |-> "off"]
         /\ pc'[p] = [main |-> to, irq |-> "off"]
         /\ \A y \in Contexts \ {p} : pc'[y] = pc[y]
<1>1. p \in Contexts /\ running = p /\ pc[p].irq = "off" /\ pc[p].main = from
  BY InMain
<1>2. PcType /\ pc[p] \in [main : AllLabels, irq : AllLabels]
  BY <1>1 DEF LockInv, CpuInv, Types, PcType
<1>3. to \in AllLabels
  BY DEF AllLabels
<1> QED
  BY <1>1, <1>2, <1>3, GotoMoves DEF Moved

(* What the two lemmas about the main code give together.                  *)
LEMMA MainKeeps ==
  ASSUME LockInv, panic' = FALSE, NEW p \in Procs, NEW from \in MainLabels \ ClockLabels,
         NEW to \in MainLabels \cap (CpuLabels \cup LockLabels),
         At(p, from), Goto(p, to),
         held' \in BOOLEAN, pid' = pid,
         answer' \in [Procs -> {"unasked", "yes", "no"}],
         held' <=> to \in OwnerLabels \/ (held /\ from \notin OwnerLabels),
         to \in OwnerLabels /\ from \notin OwnerLabels => ~held,
         ~held' => waiting' = <<>>,
         to \in {"sleep", "block"} => held',
         to \in {"woken", "clear"} => waiting' = <<>>
  PROVE  LockTypes' /\ Guarded'
<1>1. /\ running = p /\ pc[p] = [main |-> from, irq |-> "off"]
      /\ pc'[p] = [main |-> to, irq |-> "off"]
      /\ \A y \in Contexts \ {p} : pc'[y] = pc[y]
  BY MainMove
<1>2. Procs \subseteq Contexts
  BY DEF Contexts
<1>3. Guarded'
  BY <1>1, <1>2, MoveKeeps
<1>4. /\ pc'[p].main \in CpuLabels \cup LockLabels
      /\ pc'[p].irq \in ClockLabels
  BY <1>1 DEF ClockLabels
<1>5. \A x \in Contexts : /\ pc[x].irq \in ClockLabels
                          /\ pc[x].main \in CpuLabels \cup LockLabels
  BY DEF LockInv, LockTypes
<1>6. \A x \in Contexts : /\ pc'[x].irq \in ClockLabels
                          /\ pc'[x].main \in CpuLabels \cup LockLabels
  BY <1>1, <1>4, <1>5
<1>7. pid \in Procs \cup {NoProc}
  BY DEF LockInv, LockTypes
<1>8. LockTypes'
  BY <1>6, <1>7 DEF LockTypes
<1> QED
  BY <1>3, <1>8

(* The steps that leave the lock and the queue of its channel alone.       *)
LEMMA QuietKeeps ==
  ASSUME LockInv, panic' = FALSE, NEW p \in Procs, NEW from \in MainLabels \ ClockLabels,
         NEW to \in MainLabels \cap (CpuLabels \cup LockLabels),
         At(p, from), Goto(p, to), UNCHANGED <<held, pid, waiting>>,
         answer' \in [Procs -> {"unasked", "yes", "no"}],
         from \in OwnerLabels <=> to \in OwnerLabels,
         to \in {"sleep", "block"} => held,
         to \in {"woken", "clear"} => waiting = <<>>
  PROVE  LockTypes' /\ Guarded'
<1>1. p \in Contexts /\ running = p /\ pc[p].irq = "off" /\ pc[p].main = from
  BY InMain
<1>2. held \in BOOLEAN /\ (~held => waiting = <<>>)
  BY DEF LockInv, LockTypes, Guarded
<1>3. from \in OwnerLabels => held
  BY <1>1 DEF LockInv, Guarded
<1> QED
  BY <1>2, <1>3, MainKeeps

(* Spin locks that are taken and given back in the main code.              *)
LEMMA SpinKeeps ==
  ASSUME LockInv, panic' = FALSE, NEW p \in Procs, NEW k,
         NEW from \in MainLabels \ ClockLabels,
         NEW to \in MainLabels \cap (CpuLabels \cup LockLabels),
         Acquire(p, k, from, to) \/ Release(p, k, from, to), CpuOnly,
         from \in OwnerLabels <=> to \in OwnerLabels,
         to \in {"sleep", "block"} => held,
         to \in {"woken", "clear"} => waiting = <<>>
  PROVE  LockTypes' /\ Guarded'
<1>1. At(p, from) /\ Goto(p, to) /\ UNCHANGED <<held, pid, waiting, answer>>
  BY DEF Acquire, Release, Check, CpuOnly
<1>2. answer' \in [Procs -> {"unasked", "yes", "no"}]
  BY <1>1 DEF LockInv, LockTypes
<1> QED
  BY <1>1, <1>2, QuietKeeps

(* sleep.                                                                  *)
LEMMA SleepingKeeps ==
  ASSUME LockInv, panic' = FALSE, NEW p \in Procs, Sleeping(p, "test"), CpuOnly
  PROVE  LockTypes' /\ Guarded'
<1> DEFINE Main == MainLabels \ ClockLabels
           Both == MainLabels \cap (CpuLabels \cup LockLabels)
<1>0. /\ {"sleep", "block", "unguard", "sched", "woke", "reguard"} \subseteq Main
      /\ {"block", "unguard", "sched", "woke", "reguard", "test"} \subseteq Both
      /\ {"sleep", "block", "unguard", "sched", "woke", "reguard", "test"}
           \cap OwnerLabels = {}
  BY DEF MainLabels, ClockLabels, CpuLabels, LockLabels, OwnerLabels
<1> HIDE DEF Main, Both
<1>1. \A from \in Main : At(p, from) => pc[p].main = from
  BY InMain DEF Main
<1>2. answer \in [Procs -> {"unasked", "yes", "no"}] /\ held \in BOOLEAN
  BY DEF LockInv, LockTypes
<1>3. At(p, "sleep") \/ At(p, "block") => held
  BY <1>0, <1>1 DEF LockInv, Guarded
<1>4. Acquire(p, "qlock", "sleep", "block") => LockTypes' /\ Guarded'
  BY <1>0, <1>3, SpinKeeps DEF Acquire, Main, Both
<1>5. ASSUME Block(p) PROVE LockTypes' /\ Guarded'
  <2>1. At(p, "block") /\ Goto(p, "unguard") /\ held
    BY <1>3, <1>5 DEF Block
  <2> QED
    BY <1>0, <1>2, <2>1, MainKeeps DEF CpuOnly, Main, Both
<1>6. Release(p, "lk", "unguard", "sched") => LockTypes' /\ Guarded'
  BY <1>0, SpinKeeps DEF Main, Both
<1>7. ASSUME SwitchToScheduler(p, "sched", "woke") PROVE LockTypes' /\ Guarded'
  <2>1. /\ At(p, "sched") /\ Goto(p, "woke")
        /\ UNCHANGED <<held, pid, waiting, answer>>
    BY <1>7 DEF SwitchToScheduler, Check, CpuOnly
  <2> QED
    BY <1>0, <1>2, <2>1, QuietKeeps DEF Main, Both
<1>8. Release(p, "qlock", "woke", "reguard") => LockTypes' /\ Guarded'
  BY <1>0, SpinKeeps DEF Main, Both
<1>9. Acquire(p, "lk", "reguard", "test") => LockTypes' /\ Guarded'
  BY <1>0, SpinKeeps DEF Main, Both
<1> QED
  BY <1>4, <1>5, <1>6, <1>7, <1>8, <1>9 DEF Sleeping

(* acquire_sleeplock, release_sleeplock, holding_sleeplock.                *)
LEMMA OperationKeeps ==
  ASSUME LockInv, panic' = FALSE, NEW p \in Procs,
         AcquireLock(p) \/ ReleaseLock(p) \/ Holding(p)
  PROVE  LockTypes' /\ Guarded'
<1> DEFINE Main == MainLabels \ ClockLabels
           Both == MainLabels \cap (CpuLabels \cup LockLabels)
<1>0. /\ LockLabels \cup {"user"} \subseteq Main
      /\ LockLabels \cup {"user", "sleep"} \subseteq Both
      /\ {"user", "acq", "test", "sleep", "relDone"} \cap OwnerLabels = {}
      /\ {"acqDone", "section", "hold", "holds", "holdDone", "rel", "any",
          "wakeup", "dequeue", "woken", "clear"} \subseteq LockLabels
      /\ OwnerLabels = {"acqDone", "section", "hold", "holds", "holdDone",
                        "rel", "any", "wakeup", "dequeue", "woken", "clear"}
      /\ {"acq", "test", "relDone"} \subseteq LockLabels
  BY DEF MainLabels, ClockLabels, CpuLabels, LockLabels, OwnerLabels
<1> HIDE DEF Main, Both
<1>1. \A from \in Main : At(p, from) => pc[p].main = from
  BY InMain DEF Main
<1>2. answer \in [Procs -> {"unasked", "yes", "no"}] /\ held \in BOOLEAN
  BY DEF LockInv, LockTypes
<1>3. pc[p].main \in OwnerLabels => held
  BY DEF LockInv, Guarded
<1>4. At(p, "woken") \/ At(p, "clear") => waiting = <<>>
  BY <1>0, <1>1 DEF LockInv, Guarded
(* Steps that change neither the lock nor the channel. *)
<1>5. ASSUME NEW from \in Main, NEW to \in Both, At(p, from), Goto(p, to),
             UNCHANGED <<held, pid, waiting>>,
             answer' \in [Procs -> {"unasked", "yes", "no"}],
             from \in OwnerLabels <=> to \in OwnerLabels,
             to = "sleep" => held, to = "clear" => waiting = <<>>,
             to \notin {"block", "woken"}
      PROVE  LockTypes' /\ Guarded'
  BY <1>5, QuietKeeps DEF Main, Both
<1>6. ASSUME NEW k, NEW from \in Main, NEW to \in Both,
             Acquire(p, k, from, to) \/ Release(p, k, from, to), CpuOnly,
             from \in OwnerLabels <=> to \in OwnerLabels,
             to = "clear" => from = "woken", to \notin {"sleep", "block", "woken"}
      PROVE  LockTypes' /\ Guarded'
  <2>1. /\ At(p, from) /\ Goto(p, to)
        /\ UNCHANGED <<held, pid, waiting, answer>>
    BY <1>6 DEF Acquire, Release, Check, CpuOnly
  <2> QED
    BY <1>2, <1>4, <1>5, <1>6, <2>1
<1>7. ASSUME AcquireLock(p) PROVE LockTypes' /\ Guarded'
  <2>1. CallAcquire(p) => LockTypes' /\ Guarded'
    BY <1>0, <1>2, <1>5 DEF CallAcquire, NoCpuStep, CpuOnly
  <2>2. Acquire(p, "lk", "acq", "test") /\ CpuOnly => LockTypes' /\ Guarded'
    BY <1>0, <1>6
  <2>3. ASSUME Test(p), held PROVE LockTypes' /\ Guarded'
    BY <1>0, <1>2, <1>5, <2>3 DEF Test, NoCpuStep
  <2>4. ASSUME Test(p), ~held PROVE LockTypes' /\ Guarded'
    <3>1. /\ At(p, "test") /\ Goto(p, "acqDone") /\ held' = TRUE
          /\ UNCHANGED <<pid, answer>>
      BY <2>4 DEF Test
    <3> QED
      BY <1>0, <1>2, <2>4, <3>1, MainKeeps DEF Main, Both
  <2>5. Sleeping(p, AfterSleep) /\ CpuOnly => LockTypes' /\ Guarded'
    BY SleepingKeeps DEF AfterSleep
  <2>6. Release(p, "lk", "acqDone", "section") /\ CpuOnly => LockTypes' /\ Guarded'
    BY <1>0, <1>6
  <2> QED
    BY <1>7, <2>1, <2>2, <2>3, <2>4, <2>5, <2>6 DEF AcquireLock
<1>8. ASSUME ReleaseLock(p) PROVE LockTypes' /\ Guarded'
  <2>1. CallRelease(p) => LockTypes' /\ Guarded'
    BY <1>0, <1>2, <1>5 DEF CallRelease, NoCpuStep
  <2>2. Acquire(p, "lk", "rel", "any") /\ CpuOnly => LockTypes' /\ Guarded'
    BY <1>0, <1>6
  <2>3. ASSUME Any(p), waiting = <<>> PROVE LockTypes' /\ Guarded'
    BY <1>0, <1>2, <1>5, <2>3 DEF Any, NoCpuStep, CpuOnly
  <2>4. ASSUME Any(p), waiting # <<>> PROVE LockTypes' /\ Guarded'
    BY <1>0, <1>2, <1>5, <2>4 DEF Any, NoCpuStep, CpuOnly
  <2>5. Acquire(p, "qlock", "wakeup", "dequeue") /\ CpuOnly => LockTypes' /\ Guarded'
    BY <1>0, <1>6
  <2>6. ASSUME DequeueAll(p), CpuOnly PROVE LockTypes' /\ Guarded'
    <3>1. /\ At(p, "dequeue") /\ Goto(p, "woken") /\ waiting' = <<>>
          /\ UNCHANGED <<held, pid, answer>>
      BY <2>6 DEF DequeueAll, MakeReady, CpuOnly
    <3>2. held
      BY <1>0, <1>1, <1>3, <3>1
    <3> QED
      BY <1>0, <1>2, <3>1, <3>2, MainKeeps DEF Main, Both
  <2>7. Release(p, "qlock", "woken", "clear") /\ CpuOnly => LockTypes' /\ Guarded'
    BY <1>0, <1>6
  <2>8. ASSUME Clear(p) PROVE LockTypes' /\ Guarded'
    <3>1. /\ At(p, "clear") /\ Goto(p, "relDone") /\ held' = FALSE
          /\ waiting' = <<>> /\ UNCHANGED <<pid, answer>>
      BY <1>4, <2>8 DEF Clear, NoCpuStep
    <3> QED
      BY <1>0, <1>2, <3>1, MainKeeps DEF Main, Both
  <2>9. Release(p, "lk", "relDone", "user") /\ CpuOnly => LockTypes' /\ Guarded'
    BY <1>0, <1>6
  <2> QED
    BY <1>8, <2>1, <2>2, <2>3, <2>4, <2>5, <2>6, <2>7, <2>8, <2>9 DEF ReleaseLock
<1>9. ASSUME Holding(p) PROVE LockTypes' /\ Guarded'
  <2>1. CallHolding(p) => LockTypes' /\ Guarded'
    BY <1>0, <1>2, <1>5 DEF CallHolding, NoCpuStep, CpuOnly
  <2>2. Acquire(p, "lk", "hold", "holds") /\ CpuOnly => LockTypes' /\ Guarded'
    BY <1>0, <1>6
  <2>3. Holds(p) => LockTypes' /\ Guarded'
    BY <1>0, <1>2, <1>5 DEF Holds, NoCpuStep
  <2>4. Release(p, "lk", "holdDone", "section") /\ CpuOnly => LockTypes' /\ Guarded'
    BY <1>0, <1>6
  <2> QED
    BY <1>9, <2>1, <2>2, <2>3, <2>4 DEF Holding
<1> QED
  BY <1>7, <1>8, <1>9

-----------------------------------------------------------------------------
(* The theorems.                                                           *)

(* Every step keeps the invariant.                                         *)
LEMMA LockStep ==
  ASSUME LockInv, [Next]_lockVars
  PROVE  LockInv'
<1>1. CpuInv' /\ ~panic' /\ CpuInv
  BY LockCpuStep DEF CpuInv, LockInv
<1>2. panic' = FALSE
  <2>1. panic \in BOOLEAN
    BY DEF LockInv, LockTypes
  <2>2. ASSUME NEW p \in Procs, ProcStep(p) PROVE panic' \in BOOLEAN
    BY <2>1, <2>2, PanicTyped
       DEF ProcStep, AcquireLock, ReleaseLock, Holding, CallAcquire, Test,
           CallRelease, Any, DequeueAll, Clear, CallHolding, Holds, NoCpuStep
  <2>3. SchedStep \/ Clock => panic' \in BOOLEAN
    BY <2>1, PanicTyped DEF SchedStep, Clock
  <2>4. panic' \in BOOLEAN
    BY <2>1, <2>2, <2>3 DEF Next, lockVars, cpuVars
  <2> QED
    BY <1>1, <2>4
<1>3. \A x \in Contexts : /\ pc[x].irq \in ClockLabels
                          /\ pc[x].main \in CpuLabels \cup LockLabels
  BY DEF LockInv, LockTypes
<1>4. Sched \in Contexts /\ Procs \subseteq Contexts
  BY DEF Contexts
<1>5. ASSUME NEW p \in Procs, CpuOnly,
             Start(p) \/ ClockHandler(p) \/ Iret(p) \/ ClockInterrupt(p)
      PROVE  LockTypes' /\ Guarded'
  BY <1>1, <1>4, <1>5, <1>2, ProcessOnly, ElsewhereKeeps DEF CpuOnly
<1>6. ASSUME NEW p \in Procs, ProcStep(p) PROVE LockTypes' /\ Guarded'
  BY <1>1, <1>5, <1>6, <1>2, OperationKeeps DEF ProcStep
<1>7. ASSUME SchedStep PROVE LockTypes' /\ Guarded'
  <2>1. "off" \in ClockLabels
    BY DEF ClockLabels
  <2> QED
    BY <1>1, <1>4, <1>7, <1>2, <2>1, SchedulerOnly, ElsewhereKeeps
       DEF SchedStep, CpuOnly
<1>8. ASSUME Clock PROVE LockTypes' /\ Guarded'
  BY <1>5, <1>8 DEF Clock
<1>9. ASSUME UNCHANGED lockVars PROVE LockTypes' /\ Guarded'
  BY <1>9 DEF lockVars, cpuVars, LockInv, LockTypes, Guarded
<1> QED
  BY <1>1, <1>6, <1>7, <1>8, <1>9 DEF Next, LockInv

(* It holds at first.                                                      *)
LEMMA InitLockInv == Init => LockInv
<1> SUFFICES ASSUME Init PROVE LockInv
  OBVIOUS
<1>1. CpuInv
  BY InitCpuInv DEF Init
<1>2. \A x \in Contexts : pc[x] = [main |-> IF x = Sched THEN "sti" ELSE "start",
                                   irq |-> "off"]
  BY DEF Init, CpuInit
<1>3. \A x \in Contexts : /\ pc[x].irq = "off"
                          /\ pc[x].main = IF x = Sched THEN "sti" ELSE "start"
  <2>1. TAKE x \in Contexts
  <2>2. pc[x] = [main |-> IF x = Sched THEN "sti" ELSE "start", irq |-> "off"]
    BY <1>2
  <2> QED
    BY <2>2
<1>4. \A p \in Procs : pc[p].main = "start"
  <2>1. \A p \in Procs : p \in Contexts /\ p # Sched
    BY CpuConstants DEF Contexts
  <2> QED
    BY <1>3, <2>1
<1>5. LockTypes
  BY <1>3 DEF Init, CpuInit, LockTypes, ClockLabels, CpuLabels
<1>6. Guarded
  BY <1>4 DEF Init, CpuInit, Guarded, OwnerLabels
<1> QED
  BY <1>1, <1>6, <1>5 DEF LockInv

(* The invariant of the sleep lock, for any number of processes and in     *)
(* whatever order the clock interrupts them.                               *)
THEOREM Invariance == Spec => []LockInv
<1>1. LockInv /\ [Next]_lockVars => LockInv'
  BY LockStep
<1> QED
  BY <1>1, InitLockInv, PTL DEF Spec

(* Every variable keeps its type.                                          *)
LEMMA LockInvTypes == LockInv => TypeOK
<1> SUFFICES ASSUME LockInv PROVE TypeOK
  OBVIOUS
<1>1. pc \in [Contexts -> [main : CpuLabels \cup LockLabels,
                           irq : CpuLabels \cup LockLabels]]
  <2>1. PcType /\ ClockLabels \subseteq CpuLabels
    BY DEF LockInv, CpuInv, Types, ClockLabels, CpuLabels
  <2>2. ASSUME NEW x \in Contexts
        PROVE  pc[x] \in [main : CpuLabels \cup LockLabels,
                          irq : CpuLabels \cup LockLabels]
    <3>1. pc[x] \in [main : AllLabels, irq : AllLabels]
      BY <2>1 DEF PcType
    <3>2. pc[x].main \in CpuLabels \cup LockLabels /\ pc[x].irq \in CpuLabels
      BY <2>1 DEF LockInv, LockTypes
    <3> QED
      BY <3>1, <3>2
  <2> QED
    BY <2>1, <2>2 DEF PcType
<1>2. Types /\ panic \in BOOLEAN /\ LockTypes
  BY DEF LockInv, CpuInv, LockTypes
<1>3. CpuTypeOK(CpuLabels \cup LockLabels)
  BY <1>1, <1>2 DEF Types, CpuTypeOK
<1> QED
  BY <1>2, <1>3 DEF LockTypes, TypeOK

(* The lock excludes: acquire_sleeplock lets one process through at a time *)
(* and the field locked says whether there is one, although the woken race *)
(* with newcomers; and no check of the spin locks, of sched or of trap     *)
(* fails on the way.                                                       *)
THEOREM MutualExclusionCorrect == Spec => []MutualExclusion
<1>1. LockInv => MutualExclusion
  BY DEF LockInv, CpuInv, Guarded, MutualExclusion, NoPanic, Owner, MainAt,
         OwnerLabels
<1> QED
  BY <1>1, Invariance, PTL

(* Nobody sleeps on a free lock: no wakeup of release_sleeplock is lost.   *)
THEOREM NoSleepOnFreeLockCorrect == Spec => []NoSleepOnFreeLock
<1>1. LockInv => NoSleepOnFreeLock
  BY LockInvTypes DEF LockInv, Guarded, NoSleepOnFreeLock
<1> QED
  BY <1>1, Invariance, PTL

(* Under the sleep lock the CPU keeps its promises: interrupts are off     *)
(* exactly while a spin lock is held or an interrupt handled, and every    *)
(* process is at one place.                                                *)
THEOREM LockCpuCorrect == Spec => [](NoPanic /\ CpuInOrder)
<1>1. LockInv => NoPanic /\ CpuInOrder
  BY CpuInvGives DEF LockInv
<1> QED
  BY <1>1, Invariance, PTL
==============================================================================

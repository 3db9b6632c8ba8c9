--------------------------- MODULE KSemaphoreProofs ---------------------------
(***************************************************************************)
(* Proofs about the kernel semaphore, for any set of processes, initial    *)
(* value and bound on the posts of the interrupt handler: count says how   *)
(* many sleep, no permit is made or lost, the kernel does not panic, and   *)
(* the semaphore implements the first-come first-served queue of           *)
(* FifoSemaphore.                                                          *)
(*                                                                         *)
(* count and the channel agree only outside wait and signal.  Channel says *)
(* by how much they differ at each label within them, of which there is at *)
(* most one at a time because both hold the guard (CpuInv).                *)
(***************************************************************************)
EXTENDS KSemaphore, KernelCpuProofs

(* A process on its way into the channel, a sleeper on its way out of it,  *)
(* and signal before the increment.                                        *)
JoinLabels == {"sleep", "block"}
WakeLabels == {"wakeup", "dequeue"}
RaiseLabels == {"signal", "increment"}

(* Past the decrement of wait and not yet at the increment of signal.      *)
InsideLabels ==
  {"sleep", "block", "unguard", "sched", "woke", "reguard", "waitDone",
   "section", "signal", "increment"}

(* The processes there.                                                    *)
Inside == {p \in Procs : pc[p].main \in InsideLabels}

(* The types of the variables, and the labels that this system uses.       *)
SemTypes ==
  /\ \A p \in Procs : pc[p].main \in CpuLabels \cup SemLabels
  /\ count \in Int /\ posts \in 0..MaxPosts /\ panic \in BOOLEAN

(* The channel has one sleeper for every process that count owes a permit  *)
(* to, but for the one that is on its way in or out.                       *)
Channel ==
  LET here == Here(pc[running])
  IN  /\ Len(waiting) = IF here \in JoinLabels THEN -count - 1
                        ELSE IF here \in WakeLabels THEN 1 - count
                        ELSE IF count < 0 THEN -count ELSE 0
      /\ here \in JoinLabels => count < 0
      /\ here \in WakeLabels => count <= 0

(* No permit is made or lost: count and the processes inside add up to the *)
(* initial value and the posts, but for a post that is not counted yet.    *)
Pending == IF pc[running].irq \in RaiseLabels THEN 1 ELSE 0
Permits ==
  /\ count + Cardinality(Inside) = Value + posts - Pending
  /\ posts >= Pending

(* Who is in the channel's queue has gone to sleep in wait.                *)
Sleepers ==
  \A p \in Range(waiting) : /\ pc[p].irq = "off"
                            /\ pc[p].main \in {"unguard", "sched", "woke"}

(* The inductive invariant.                                                *)
SemInv == CpuInv /\ SemTypes /\ Channel /\ Permits /\ Sleepers

-----------------------------------------------------------------------------
(* The CPU's part of the invariant.                                        *)

(* The labels of wait and signal.                                          *)
LEMMA SemKinds ==
  /\ SameKind("user", "wait") /\ Goes("user", "wait")
  /\ SameKind("wait", "decrement") /\ Takes("lk", "wait", "decrement")
  /\ SameKind("decrement", "sleep") /\ Goes("decrement", "sleep")
  /\ SameKind("decrement", "waitDone") /\ Goes("decrement", "waitDone")
  /\ SameKind("waitDone", "section") /\ Gives("lk", "waitDone", "section")
  /\ SameKind("section", "signal") /\ Goes("section", "signal")
  /\ SameKind("signal", "increment") /\ Takes("lk", "signal", "increment")
  /\ SameKind("increment", "wakeup") /\ Goes("increment", "wakeup")
  /\ SameKind("increment", "signalDone") /\ Goes("increment", "signalDone")
  /\ SameKind("wakeup", "dequeue") /\ Takes("qlock", "wakeup", "dequeue")
  /\ SameKind("dequeue", "woken")
  /\ SameKind("woken", "signalDone") /\ Gives("qlock", "woken", "signalDone")
  /\ SameKind("signalDone", "iret") /\ Gives("lk", "signalDone", "iret")
  /\ Gives("lk", "signalDone", "user")
BY DEF SameKind, Takes, Gives, Goes, Joins, StatusAt, HeldAt, Locks, QLabels,
       LkLabels, MainLabels, HandlerLabels

(* A wakeup never meets an empty channel.                                  *)
LEMMA DequeueFinds ==
  ASSUME SemInv, NEW x \in Contexts, At(x, "dequeue")
  PROVE  waiting # <<>> /\ count <= 0 /\ Len(waiting) = 1 - count
<1>1. Here(pc[running]) = "dequeue" /\ "dequeue" \in WakeLabels
      /\ "dequeue" \notin JoinLabels
  BY AtFits DEF SemInv, WakeLabels, JoinLabels
<1>2. count \in Int /\ Len(waiting) = 1 - count /\ count <= 0
  BY <1>1 DEF SemInv, Channel, SemTypes
<1> QED
  BY <1>2

(* The oldest sleeper leaves the channel.                                  *)
LEMMA HeadLeaves ==
  ASSUME SemInv, waiting # <<>>
  PROVE  /\ <<Head(waiting)>> \in Seq(Procs) /\ Tail(waiting) \in Seq(Procs)
         /\ Head(waiting) \in Procs
         /\ IsInjective(<<Head(waiting)>>) /\ IsInjective(Tail(waiting))
         /\ Range(<<Head(waiting)>>) = {Head(waiting)}
         /\ Head(waiting) \in Range(waiting)
         /\ Range(Tail(waiting)) = Range(waiting) \ {Head(waiting)}
         /\ Len(Tail(waiting)) = Len(waiting) - 1
<1>1. waiting \in Seq(Procs) /\ IsInjective(waiting)
  BY DEF SemInv, CpuInv, Types, PlacedOnce
<1>2. /\ Head(waiting) \in Procs /\ Head(waiting) \in Range(waiting)
      /\ Tail(waiting) \in Seq(Procs)
      /\ Range(Tail(waiting)) = Range(waiting) \ {Head(waiting)}
      /\ IsInjective(Tail(waiting))
  BY <1>1, TailRange
<1>3. Len(Tail(waiting)) = Len(waiting) - 1
  BY <1>1
<1>4. IsInjective(<<Head(waiting)>>) /\ Range(<<Head(waiting)>>) = {Head(waiting)}
  BY DEF IsInjective, Range
<1> QED
  BY <1>2, <1>3, <1>4

(* Every step keeps the CPU's part.                                        *)
LEMMA SemCpuStep ==
  ASSUME SemInv, [Next]_semVars
  PROVE  CpuInv'
<1> USE DEF SemInv
<1>0. /\ "qlock" \in Locks /\ "lk" \in Locks
      /\ Procs \subseteq Contexts /\ Sched \in Contexts
  BY DEF Locks, Contexts
<1>1. ASSUME NEW x \in Contexts, NEW from, NEW to, At(x, from), Goto(x, to),
             SameKind(from, to), Goes(from, to),
             UNCHANGED <<cpu, running, proc, locked, status, ready, waiting,
                         intena, panic>>
      PROVE  CpuInv'
  BY <1>0, <1>1, GoKeeps
<1>2. ASSUME NEW x \in Contexts, NEW k \in Locks, NEW from, NEW to,
             Acquire(x, k, from, to), SameKind(from, to), Takes(k, from, to)
      PROVE  CpuInv'
  BY <1>0, <1>2, AcquireKeeps
<1>3. ASSUME NEW x \in Contexts, NEW k \in Locks, NEW from, NEW to,
             Release(x, k, from, to), SameKind(from, to), Gives(k, from, to)
      PROVE  CpuInv'
  <2>1. Fits(x, pc[x], to)
    BY <1>0, <1>3, KindFits DEF Release
  <2> QED
    BY <1>0, <1>3, <2>1, ReleaseKeeps
<1>4. ASSUME NEW p \in Procs, Wait(p) PROVE CpuInv'
  <2>1. CallWait(p) => CpuInv'
    BY <1>0, <1>1, SemKinds DEF CallWait
  <2>2. Acquire(p, "lk", "wait", "decrement") => CpuInv'
    BY <1>0, <1>2, SemKinds
  <2>3. ASSUME Decrement(p) PROVE CpuInv'
    <3>1. Goto(p, "sleep") \/ Goto(p, "waitDone")
      BY <2>3 DEF Decrement
    <3> QED
      BY <1>0, <1>1, <2>3, <3>1, SemKinds DEF Decrement
  <2>4. Sleeping(p, "waitDone") => CpuInv'
    BY SleepingStep
  <2>5. Release(p, "lk", "waitDone", "section") => CpuInv'
    BY <1>0, <1>3, SemKinds
  <2> QED
    BY <1>4, <2>1, <2>2, <2>3, <2>4, <2>5 DEF Wait
<1>5. ASSUME NEW x \in Contexts, Signal(x) PROVE CpuInv'
  <2>1. Acquire(x, "lk", "signal", "increment") => CpuInv'
    BY <1>0, <1>2, SemKinds
  <2>2. ASSUME Increment(x) PROVE CpuInv'
    <3>1. Goto(x, "wakeup") \/ Goto(x, "signalDone")
      BY <2>2 DEF Increment
    <3> QED
      BY <1>0, <1>1, <2>2, <3>1, SemKinds DEF Increment
  <2>3. Acquire(x, "qlock", "wakeup", "dequeue") => CpuInv'
    BY <1>0, <1>2, SemKinds
  <2>4. ASSUME Dequeue(x) PROVE CpuInv'
    <3>1. At(x, "dequeue")
      BY <2>4 DEF Dequeue, MakeReady
    <3>2. waiting # <<>>
      BY <3>1, DequeueFinds
    <3>3. MakeReady(x, "dequeue", <<Head(waiting)>>, Tail(waiting), "woken")
      BY <2>4, <3>2 DEF Dequeue
    <3>4. Range(<<Head(waiting)>>) \subseteq Range(waiting)
      BY <3>2, HeadLeaves
    <3> QED
      BY <3>2, <3>3, <3>4, HeadLeaves, MakeReadyStep
  <2>5. Release(x, "qlock", "woken", "signalDone") => CpuInv'
    BY <1>0, <1>3, SemKinds
  <2>6. ASSUME Release(x, "lk", "signalDone",
                       IF Frame(x) = "irq" THEN "iret" ELSE "user")
        PROVE  CpuInv'
    <3>1. CASE Frame(x) = "irq"
      BY <1>0, <1>3, <2>6, <3>1, SemKinds
    <3>2. CASE Frame(x) # "irq"
      <4>1. At(x, "signalDone") /\ Release(x, "lk", "signalDone", "user")
        BY <2>6, <3>2 DEF Release
      <4>2. pc[x].irq = "off"
        BY <3>2 DEF Frame
      <4>3. Fits(x, pc[x], "signalDone")
        BY <4>1, AtFits
      <4>4. x # Sched
        BY <4>2, <4>3 DEF Fits, SchedLabels
      <4>5. Fits(x, pc[x], "user")
        BY <4>2, <4>4 DEF Fits, MainLabels
      <4> QED
        BY <1>0, <4>1, <4>5, ReleaseKeeps, SemKinds
    <3> QED
      BY <3>1, <3>2
  <2> QED
    BY <1>5, <2>1, <2>2, <2>3, <2>4, <2>5, <2>6 DEF Signal
<1>6. ASSUME NEW p \in Procs, ProcStep(p) PROVE CpuInv'
  <2>1. CallSignal(p) => CpuInv'
    BY <1>0, <1>1, SemKinds DEF CallSignal
  <2> QED
    BY <1>0, <1>4, <1>5, <1>6, <2>1, ProcessStep DEF ProcStep, Handler
<1>7. SchedStep => CpuInv'
  BY <1>0, <1>5, SchedulerStep, IretStep DEF SchedStep
<1>8. (\E p \in Procs : ClockInterrupt(p) /\ CpuOnly) => CpuInv'
  BY ProcessStep
<1>9. ASSUME NEW x \in Contexts, Post(x) PROVE CpuInv'
  <2>1. /\ "signal" \in HandlerLabels /\ NoneHeld("signal")
        /\ StatusAt("signal") = "RUNNING"
    BY DEF NoneHeld, QLabels, LkLabels, HandlerLabels, StatusAt
  <2> QED
    BY <1>9, <2>1, InterruptStep DEF Post
<1>10. UNCHANGED semVars => CpuInv'
  BY CpuUnchanged DEF semVars
<1> QED
  BY <1>6, <1>7, <1>8, <1>9, <1>10 DEF Next

-----------------------------------------------------------------------------
(* The semaphore's part of the invariant.                                  *)

(* A context that is not running is in no part of wait or signal that the  *)
(* invariant tells apart.                                                  *)
LEMMA SuspendedLabels ==
  ASSUME CpuInv, NEW y \in Contexts, y # running
  PROVE  /\ Here(pc[y]) \notin JoinLabels \cup WakeLabels \cup {"decrement"}
         /\ Here(pc[y]) \notin {"increment"}
         /\ pc[y].irq \in {"off", "yielded"} /\ pc[y].irq \notin RaiseLabels
<1>1. CASE y = Sched
  <2>1. pc[y] = [main |-> "back", irq |-> "off"]
    BY <1>1 DEF CpuInv, Suspended
  <2> QED
    BY <2>1 DEF Here, JoinLabels, WakeLabels, RaiseLabels
<1>2. CASE y # Sched
  <2>1. y \in Procs
    BY <1>2 DEF Contexts
  <2>2. \/ pc[y].irq = "off" /\ pc[y].main \in {"start", "woke"}
        \/ pc[y].irq = "yielded"
    BY <2>1 DEF CpuInv, Suspended
  <2> QED
    BY <2>2 DEF Here, JoinLabels, WakeLabels, RaiseLabels
<1> QED
  BY <1>1, <1>2

(* A process in the channel's queue that is running has not yet switched.  *)
LEMMA RunningSleeper ==
  ASSUME SemInv, NEW p \in Procs, running = p, p \in Range(waiting)
  PROVE  pc[p].irq = "off" /\ pc[p].main \in {"unguard", "sched"}
<1>1. pc[p].irq = "off" /\ pc[p].main \in {"unguard", "sched", "woke"}
  BY DEF SemInv, Sleepers
<1>2. status[p] = "BLOCKED" /\ status[p] = StatusAt(Here(pc[p]))
  BY CpuConstants DEF SemInv, CpuInv, PlacedOnce, ProcMatches
<1>3. pc[p].main # "woke"
  BY <1>1, <1>2 DEF Here, StatusAt
<1> QED
  BY <1>1, <1>3

(* Sets of processes are finite.                                           *)
LEMMA InsideFinite ==
  ASSUME NEW S \in SUBSET Procs
  PROVE  IsFiniteSet(S) /\ Cardinality(S) \in Nat
<1>1. IsFiniteSet(S)
  BY CpuConstants, FS_Subset
<1> QED
  BY <1>1, FS_CardinalityType

(* What a step does to the semaphore: nothing, or one of the four things   *)
(* that move the count or the channel's queue.                             *)
Quiet ==
  /\ UNCHANGED <<waiting, count>> /\ Inside' = Inside
  /\ Here(pc'[running']) \in JoinLabels <=> Here(pc[running]) \in JoinLabels
  /\ Here(pc'[running']) \in WakeLabels <=> Here(pc[running]) \in WakeLabels
  /\ Here(pc[running]) \in JoinLabels => running' = running

(* One of these.                                                           *)
SemMove ==
  \/ Quiet
  \/ \E p \in Procs : Decrement(p) \/ (Block(p) /\ CpuOnly)
  \/ \E x \in Contexts : Increment(x) \/ (Dequeue(x) /\ CpuOnly)

(* It is one of these and keeps the invariant.                             *)
Moves == SemInv' /\ SemMove

(* Steps that count and the channel do not notice.                         *)
LEMMA QuietStep ==
  ASSUME SemInv, CpuInv', UNCHANGED <<waiting, count, posts>>,
         panic' \in BOOLEAN,
         \A p \in Procs : pc'[p].main \in CpuLabels \cup SemLabels,
         \A p \in Procs :
           pc'[p].main \in InsideLabels <=> pc[p].main \in InsideLabels,
         \A p \in Range(waiting) :
           /\ pc'[p].irq = "off"
           /\ pc'[p].main \in {"unguard", "sched", "woke"},
         Here(pc'[running']) \in JoinLabels <=> Here(pc[running]) \in JoinLabels,
         Here(pc'[running']) \in WakeLabels <=> Here(pc[running]) \in WakeLabels,
         pc'[running'].irq \in RaiseLabels <=> pc[running].irq \in RaiseLabels,
         Here(pc[running]) \in JoinLabels => running' = running
  PROVE  Moves
<1>1. SemTypes'
  BY DEF SemInv, SemTypes
<1>2. Channel'
  BY DEF SemInv, Channel
<1>3. Inside' = Inside
  BY DEF Inside
<1>4. Permits'
  <2>1. Pending' = Pending
    BY DEF Pending
  <2> QED
    BY <1>3, <2>1 DEF SemInv, Permits
<1>5. Sleepers'
  BY DEF Sleepers
<1>6. Quiet
  BY <1>3 DEF Quiet
<1> QED
  BY <1>1, <1>2, <1>4, <1>5, <1>6 DEF SemInv, Moves, SemMove

(* Two labels of one frame that are the same for the invariant.            *)
Same(from, to) ==
  /\ to \in (CpuLabels \cup SemLabels) \ {"off"}
  /\ from \in JoinLabels <=> to \in JoinLabels
  /\ from \in WakeLabels <=> to \in WakeLabels
  /\ from \in MainLabels => (from \in InsideLabels <=> to \in InsideLabels)
  /\ from \in HandlerLabels => (from \in RaiseLabels <=> to \in RaiseLabels)
  /\ from \in {"unguard", "sched"} => to \in {"sched", "woke"}

(* The labels that only move a context on.                                 *)
LEMMA SameLabels ==
  /\ Same("user", "wait") /\ Same("wait", "decrement")
  /\ Same("sleep", "block") /\ Same("unguard", "sched")
  /\ Same("sched", "woke") /\ Same("woke", "reguard")
  /\ Same("reguard", "waitDone") /\ Same("waitDone", "section")
  /\ Same("section", "signal") /\ Same("signal", "increment")
  /\ Same("wakeup", "dequeue") /\ Same("woken", "signalDone")
  /\ Same("signalDone", "iret") /\ Same("signalDone", "user")
BY DEF Same, CpuLabels, SemLabels, JoinLabels, WakeLabels, MainLabels,
       InsideLabels, HandlerLabels, RaiseLabels

(* Where a step of the running context from one label to another leads.    *)
LEMMA Leads ==
  ASSUME CpuInv, NEW x \in Contexts, NEW from, NEW to \in AllLabels \ {"off"},
         At(x, from), Goto(x, to)
  PROVE  /\ running = x /\ Here(pc[x]) = from /\ Here(pc'[x]) = to
         /\ \A y \in Contexts \ {x} : pc'[y] = pc[y]
         /\ pc[x].irq = "off" =>
              pc[x].main = from /\ pc'[x].main = to /\ pc'[x].irq = "off"
         /\ pc[x].irq # "off" =>
              /\ pc[x].irq = from /\ from \in HandlerLabels /\ pc'[x].irq = to
              /\ pc'[x].main = pc[x].main
<1>1. /\ running = x /\ Here(pc[x]) = from /\ Fits(x, pc[x], from)
      /\ pc[x] \in [main : AllLabels, irq : AllLabels]
  BY AtFits
<1>2. pc'[x] = Moved(pc[x], to) /\ \A y \in Contexts \ {x} : pc'[y] = pc[y]
  BY GotoMoves DEF CpuInv, Types
<1> QED
  BY <1>1, <1>2 DEF Here, Moved, Fits

(* A step between two such labels.                                         *)
LEMMA SameStep ==
  ASSUME SemInv, CpuInv', NEW x \in Contexts, NEW from,
         NEW to \in AllLabels \ {"off"},
         At(x, from), Goto(x, to), Same(from, to),
         UNCHANGED <<waiting, count, posts>>, panic' \in BOOLEAN,
         running' = x \/ from = "sched"
  PROVE  Moves
<1>1. /\ running = x /\ Here(pc[x]) = from /\ Here(pc'[x]) = to
      /\ \A y \in Contexts \ {x} : pc'[y] = pc[y]
      /\ pc[x].irq = "off" =>
           pc[x].main = from /\ pc'[x].main = to /\ pc'[x].irq = "off"
      /\ pc[x].irq # "off" =>
           /\ pc[x].irq = from /\ from \in HandlerLabels /\ pc'[x].irq = to
           /\ pc'[x].main = pc[x].main
  BY Leads DEF SemInv
<1>2. Procs \subseteq Contexts /\ Range(waiting) \subseteq Procs
  BY DEF Contexts, SemInv, CpuInv, Types, Range
<1>3. x \in Procs /\ pc[x].irq = "off" => from \in MainLabels
  BY <1>1, CpuConstants DEF SemInv, CpuInv, ContextOK
<1>4. \A p \in Procs : pc'[p].main \in CpuLabels \cup SemLabels
  BY <1>1, <1>2 DEF SemInv, SemTypes, Same
<1>5. \A p \in Procs :
        pc'[p].main \in InsideLabels <=> pc[p].main \in InsideLabels
  BY <1>1, <1>2, <1>3 DEF Same
<1>6. ASSUME NEW p \in Range(waiting)
      PROVE  pc'[p].irq = "off" /\ pc'[p].main \in {"unguard", "sched", "woke"}
  <2>1. CASE p = x
    BY <1>1, <1>2, <2>1, RunningSleeper DEF Same
  <2>2. CASE p # x
    BY <1>1, <1>2, <2>2 DEF SemInv, Sleepers
  <2> QED
    BY <2>1, <2>2
<1>7. CASE running' = x
  <2>1. pc'[x].irq \in RaiseLabels <=> pc[x].irq \in RaiseLabels
    BY <1>1 DEF Same
  <2> QED
    BY <1>1, <1>4, <1>5, <1>6, <1>7, <2>1, QuietStep DEF Same
<1>8. CASE running' # x
  <2>1. running' \in Contexts
    BY DEF CpuInv, Types
  <2>2. /\ Here(pc[running']) \notin JoinLabels \cup WakeLabels
        /\ pc[running'].irq \notin RaiseLabels
    BY <1>1, <1>8, <2>1, SuspendedLabels DEF SemInv
  <2>3. pc'[running'] = pc[running']
    BY <1>1, <1>8, <2>1
  <2>4. /\ "sched" \notin JoinLabels /\ "sched" \notin WakeLabels
        /\ pc[x].irq \notin RaiseLabels
    BY <1>1, <1>8 DEF JoinLabels, WakeLabels, RaiseLabels, HandlerLabels
  <2> QED
    BY <1>1, <1>4, <1>5, <1>6, <1>8, <2>2, <2>3, <2>4, QuietStep
<1> QED
  BY <1>7, <1>8

(* Steps of the scheduler, of the clock's handler, and of a process on its *)
(* way to user mode for the first time.                                    *)
LEMMA ElsewhereStep ==
  ASSUME SemInv, CpuInv', UNCHANGED <<waiting, count, posts>>,
         panic' \in BOOLEAN, NEW x \in Contexts, running = x,
         \A y \in Contexts \ {x} : pc'[y] = pc[y],
         pc[x].irq \notin SemLabels, pc'[x].irq \notin SemLabels,
         NoneHeld(pc[x].main) \/ pc[x].main \in SchedLabels \cup {"start"},
         \/ pc'[x].main = pc[x].main
         \/ /\ pc[x].main \in SchedLabels \cup {"start", "iret"}
            /\ pc'[x].main \in SchedLabels \cup {"iret", "user"}
  PROVE  Moves
<1> DEFINE Plain == SchedLabels \cup {"start", "iret", "user"}
<1>1. /\ Plain \cap (InsideLabels \cup JoinLabels \cup WakeLabels) = {}
      /\ Plain \cap {"unguard", "sched", "woke"} = {}
      /\ Plain \subseteq CpuLabels
  BY DEF InsideLabels, JoinLabels, WakeLabels, SchedLabels, CpuLabels
<1>2. \/ pc'[x].main = pc[x].main
      \/ pc[x].main \in Plain /\ pc'[x].main \in Plain
  OBVIOUS
<1>3. NoneHeld(pc[x].main) \/ pc[x].main \in Plain
  OBVIOUS
<1> HIDE DEF Plain
<1>4. Procs \subseteq Contexts /\ Range(waiting) \subseteq Procs
  BY DEF Contexts, SemInv, CpuInv, Types, Range
<1>5. \A p \in Procs : pc'[p].main \in CpuLabels \cup SemLabels
  BY <1>1, <1>2, <1>4 DEF SemInv, SemTypes
<1>6. \A p \in Procs :
        pc'[p].main \in InsideLabels <=> pc[p].main \in InsideLabels
  BY <1>1, <1>2, <1>4
<1>7. x \notin Range(waiting)
  <2>1. pc[x].main \notin {"unguard", "sched"}
    BY <1>1, <1>3 DEF NoneHeld, QLabels
  <2> QED
    BY <1>4, <2>1, RunningSleeper
<1>8. \A p \in Range(waiting) :
        pc'[p].irq = "off" /\ pc'[p].main \in {"unguard", "sched", "woke"}
  BY <1>4, <1>7 DEF SemInv, Sleepers
<1>9. Here(pc[x]) \notin JoinLabels \cup WakeLabels
  BY <1>1, <1>3 DEF Here, NoneHeld, JoinLabels, WakeLabels, LkLabels, QLabels,
                    SemLabels, SemInv, CpuInv, ContextOK, HandlerLabels
<1>10. NoneHeld(pc'[x].main) \/ pc'[x].main \in Plain
  BY <1>2, <1>3
<1>11. /\ Here(pc'[running']) \notin JoinLabels \cup WakeLabels
       /\ pc'[running'].irq \notin RaiseLabels
  <2>1. CASE running' = x
    BY <1>1, <1>10, <2>1
       DEF Here, NoneHeld, JoinLabels, WakeLabels, LkLabels, QLabels, SemLabels,
           RaiseLabels, CpuInv, ContextOK, HandlerLabels
  <2>2. CASE running' # x
    <3>1. running' \in Contexts
      BY DEF CpuInv, Types
    <3> QED
      BY <2>2, <3>1, SuspendedLabels DEF SemInv
  <2> QED
    BY <2>1, <2>2
<1>12. pc[x].irq \notin RaiseLabels
  BY DEF RaiseLabels, SemLabels
<1> QED
  BY <1>5, <1>6, <1>8, <1>9, <1>11, <1>12, QuietStep

(* wait counts the process in, and sends it to sleep when no permit is     *)
(* left.                                                                   *)
LEMMA DecrementStep ==
  ASSUME SemInv, CpuInv', NEW p \in Procs, Decrement(p)
  PROVE  /\ SemInv'
         /\ Here(pc[running]) = "decrement" /\ running = p
         /\ running' = p /\ waiting' = waiting /\ count' = count - 1
         /\ Here(pc'[p]) = IF count - 1 < 0 THEN "sleep" ELSE "waitDone"
         /\ p \notin Inside /\ p \notin Range(waiting)
         /\ Inside' = Inside \cup {p}
<1>1. /\ At(p, "decrement") /\ count' = count - 1
      /\ Goto(p, IF count - 1 < 0 THEN "sleep" ELSE "waitDone")
      /\ UNCHANGED <<running, waiting, panic, posts>>
  BY DEF Decrement, MustSleep
<1>2. PICK to \in {"sleep", "waitDone"} :
        Goto(p, to) /\ (to = "sleep" <=> count - 1 < 0)
  BY <1>1
<1>3. /\ to \in AllLabels \ {"off"} /\ p \in Contexts /\ to \in InsideLabels
      /\ to \in CpuLabels \cup SemLabels /\ to \notin WakeLabels
      /\ to \notin RaiseLabels /\ (to \in JoinLabels <=> to = "sleep")
      /\ "decrement" \notin InsideLabels \cup JoinLabels \cup WakeLabels
      /\ "decrement" \notin HandlerLabels
  BY DEF AllLabels, MainLabels, Contexts, InsideLabels, CpuLabels, SemLabels,
         WakeLabels, RaiseLabels, JoinLabels, HandlerLabels
<1>4. /\ running = p /\ Here(pc[p]) = "decrement" /\ Here(pc'[p]) = to
      /\ \A y \in Contexts \ {p} : pc'[y] = pc[y]
      /\ pc[p].irq = "off" /\ pc[p].main = "decrement"
      /\ pc'[p].irq = "off" /\ pc'[p].main = to
  BY <1>1, <1>2, <1>3, Leads DEF SemInv
<1>5. /\ count \in Int /\ posts \in 0..MaxPosts /\ panic \in BOOLEAN
      /\ \A q \in Procs : pc[q].main \in CpuLabels \cup SemLabels
  BY DEF SemInv, SemTypes
<1>6. Procs \subseteq Contexts /\ Range(waiting) \subseteq Procs
  BY DEF Contexts, SemInv, CpuInv, Types, Range
<1>7. SemTypes'
  BY <1>1, <1>3, <1>4, <1>5, <1>6 DEF SemTypes
<1>8. Channel'
  <2>1. Len(waiting) = IF count < 0 THEN -count ELSE 0
    BY <1>3, <1>4 DEF SemInv, Channel
  <2> QED
    BY <1>1, <1>2, <1>3, <1>4, <1>5, <2>1 DEF Channel
<1>9. Inside' = Inside \cup {p} /\ p \notin Inside
  BY <1>3, <1>4, <1>6 DEF Inside
<1>10. p \notin Range(waiting)
  BY <1>4, RunningSleeper
<1>11. Permits'
  <2>2. Cardinality(Inside') = Cardinality(Inside) + 1
    BY <1>9, InsideFinite, FS_AddElement DEF Inside
  <2>3. Pending = 0 /\ Pending' = 0 /\ Cardinality(Inside) \in Nat
    BY <1>1, <1>4, InsideFinite DEF Pending, RaiseLabels, Inside
  <2> QED
    BY <1>1, <1>5, <2>2, <2>3, SemConstants DEF SemInv, Permits
<1>12. Sleepers'
  BY <1>1, <1>4, <1>6, <1>10 DEF SemInv, Sleepers
<1> QED
  BY <1>1, <1>2, <1>4, <1>7, <1>8, <1>11, <1>12, <1>9, <1>10 DEF SemInv

(* sleep puts the process in the channel's queue.                          *)
LEMMA JoinStep ==
  ASSUME SemInv, CpuInv', NEW p \in Procs, Block(p), UNCHANGED <<count, posts>>
  PROVE  /\ SemInv'
         /\ Here(pc[running]) = "block" /\ running = p
         /\ running' = p /\ Here(pc'[p]) = "unguard"
         /\ waiting' = Append(waiting, p) /\ Inside' = Inside
<1>1. /\ At(p, "block") /\ Goto(p, "unguard")
      /\ waiting' = Append(waiting, proc) /\ UNCHANGED <<running, panic>>
  BY DEF Block
<1>2. /\ "unguard" \in AllLabels \ {"off"} /\ p \in Contexts
      /\ "unguard" \in InsideLabels /\ "block" \in InsideLabels
      /\ "unguard" \in CpuLabels /\ "block" \in JoinLabels
      /\ "unguard" \notin WakeLabels \cup JoinLabels
      /\ "block" \notin HandlerLabels
  BY DEF AllLabels, MainLabels, Contexts, InsideLabels, CpuLabels,
         WakeLabels, JoinLabels, HandlerLabels
<1>3. /\ running = p /\ Here(pc[p]) = "block" /\ Here(pc'[p]) = "unguard"
      /\ \A y \in Contexts \ {p} : pc'[y] = pc[y]
      /\ pc[p].irq = "off" /\ pc[p].main = "block"
      /\ pc'[p].irq = "off" /\ pc'[p].main = "unguard"
  BY <1>1, <1>2, Leads DEF SemInv
<1>4. proc = p
  BY <1>3, CpuConstants DEF SemInv, CpuInv, ProcMatches
<1>5. /\ count \in Int /\ posts \in 0..MaxPosts /\ panic \in BOOLEAN
      /\ \A q \in Procs : pc[q].main \in CpuLabels \cup SemLabels
  BY DEF SemInv, SemTypes
<1>6. Procs \subseteq Contexts /\ Range(waiting) \subseteq Procs
  BY DEF Contexts, SemInv, CpuInv, Types, Range
<1>7. waiting \in Seq(Procs)
  BY DEF SemInv, CpuInv, Types
<1>8. SemTypes'
  BY <1>1, <1>2, <1>3, <1>5, <1>6 DEF SemTypes
<1>9. Channel'
  <2>1. Len(waiting) = -count - 1 /\ count < 0
    BY <1>2, <1>3 DEF SemInv, Channel
  <2>2. Len(waiting') = Len(waiting) + 1
    BY <1>1, <1>4, <1>7
  <2> QED
    BY <1>1, <1>2, <1>3, <1>5, <2>1, <2>2 DEF Channel
<1>10. Inside' = Inside
  BY <1>2, <1>3, <1>6 DEF Inside
<1>11. Permits'
  <2>2. Pending = 0 /\ Pending' = 0
    BY <1>1, <1>3 DEF Pending, RaiseLabels
  <2> QED
    BY <1>10, <2>2 DEF SemInv, Permits
<1>12. Sleepers'
  <2>1. Range(waiting') = Range(waiting) \cup {p}
    BY <1>1, <1>4, <1>7, AppendRange
  <2> QED
    BY <1>3, <1>6, <2>1 DEF SemInv, Sleepers
<1> QED
  BY <1>1, <1>3, <1>4, <1>8, <1>9, <1>11, <1>12, <1>10 DEF SemInv

(* signal counts the process out, or counts a post of the interrupt        *)
(* handler, and goes to wake somebody if anybody has to sleep.             *)
LEMMA IncrementStep ==
  ASSUME SemInv, CpuInv', NEW x \in Contexts, Increment(x)
  PROVE  /\ SemInv'
         /\ Here(pc[running]) = "increment" /\ running' = running
         /\ waiting' = waiting /\ count' = count + 1
         /\ Here(pc'[running]) = IF count + 1 <= 0 THEN "wakeup" ELSE "signalDone"
         /\ x \notin Range(waiting)
         /\ IF pc[x].irq = "off" THEN x \in Inside /\ Inside' = Inside \ {x}
            ELSE Inside' = Inside
<1>1. /\ At(x, "increment") /\ count' = count + 1
      /\ Goto(x, IF count + 1 <= 0 THEN "wakeup" ELSE "signalDone")
      /\ UNCHANGED <<running, waiting, panic, posts>>
  BY DEF Increment, MustWake
<1>2. PICK to \in {"wakeup", "signalDone"} :
        Goto(x, to) /\ (to = "wakeup" <=> count + 1 <= 0)
  BY <1>1
<1>3. /\ to \in AllLabels \ {"off"} /\ to \notin InsideLabels
      /\ to \in SemLabels /\ to \notin JoinLabels
      /\ to \notin RaiseLabels /\ (to \in WakeLabels <=> to = "wakeup")
      /\ "increment" \in InsideLabels /\ "increment" \in RaiseLabels
      /\ "increment" \notin JoinLabels \cup WakeLabels
      /\ "increment" \notin SchedLabels
      /\ "off" \notin RaiseLabels
  BY DEF AllLabels, MainLabels, InsideLabels, SemLabels, WakeLabels, RaiseLabels,
         JoinLabels, SchedLabels
<1>4. /\ running = x /\ Here(pc[x]) = "increment" /\ Here(pc'[x]) = to
      /\ \A y \in Contexts \ {x} : pc'[y] = pc[y]
      /\ pc[x].irq = "off" =>
           pc[x].main = "increment" /\ pc'[x].main = to /\ pc'[x].irq = "off"
      /\ pc[x].irq # "off" =>
           /\ pc[x].irq = "increment" /\ pc'[x].irq = to
           /\ pc'[x].main = pc[x].main
  BY <1>1, <1>2, <1>3, Leads DEF SemInv
<1>5. /\ count \in Int /\ posts \in 0..MaxPosts /\ panic \in BOOLEAN
      /\ \A q \in Procs : pc[q].main \in CpuLabels \cup SemLabels
  BY DEF SemInv, SemTypes
<1>6. Procs \subseteq Contexts /\ Range(waiting) \subseteq Procs
  BY DEF Contexts, SemInv, CpuInv, Types, Range
<1>7. SemTypes'
  <2>1. \A q \in Procs : pc'[q].main \in CpuLabels \cup SemLabels
    BY <1>3, <1>4, <1>5, <1>6
  <2> QED
    BY <1>1, <1>5, <2>1 DEF SemTypes
<1>8. Channel'
  <2>1. Len(waiting) = IF count < 0 THEN -count ELSE 0
    BY <1>3, <1>4 DEF SemInv, Channel
  <2> QED
    BY <1>1, <1>2, <1>3, <1>4, <1>5, <2>1 DEF Channel
<1>9. ASSUME pc[x].irq = "off"
       PROVE  Inside' = Inside \ {x} /\ x \in Inside
  <2>1. x \in Procs
    BY <1>3, <1>4, <1>9 DEF SemInv, CpuInv, ContextOK, Contexts
  <2> QED
    BY <1>3, <1>4, <1>6, <1>9, <2>1 DEF Inside
<1>10. ASSUME pc[x].irq # "off" PROVE Inside' = Inside
  BY <1>4, <1>6, <1>10 DEF Inside
<1>11. x \notin Range(waiting)
  BY <1>4, <1>6, RunningSleeper DEF Here
<1>12. Permits'
  <2>1. Cardinality(Inside) \in Nat /\ IsFiniteSet(Inside)
    BY InsideFinite DEF Inside
  <2>2. Pending' = 0
    BY <1>1, <1>3, <1>4 DEF Pending
  <2>3. CASE pc[x].irq = "off"
    <3>2. Inside' = Inside \ {x} /\ x \in Inside
      BY <1>9, <2>3
    <3>3. Cardinality(Inside') = Cardinality(Inside) - 1
      BY <2>1, <3>2, FS_RemoveElement
    <3>4. Pending = 0
      BY <1>3, <1>4, <2>3 DEF Pending
    <3> QED
      BY <1>1, <1>5, <2>1, <2>2, <3>3, <3>4, SemConstants DEF SemInv, Permits
  <2>4. CASE pc[x].irq # "off"
    <3>1. Inside' = Inside
      BY <1>10, <2>4
    <3>2. Pending = 1
      BY <1>3, <1>4, <2>4 DEF Pending
    <3> QED
      BY <1>1, <1>5, <2>1, <2>2, <3>1, <3>2, SemConstants DEF SemInv, Permits
  <2> QED
    BY <2>3, <2>4
<1>13. Sleepers'
  BY <1>1, <1>4, <1>6, <1>11 DEF SemInv, Sleepers
<1>14. SemInv'
  BY <1>7, <1>8, <1>12, <1>13 DEF SemInv
<1> QED
  BY <1>1, <1>2, <1>4, <1>9, <1>10, <1>11, <1>14

(* The oldest sleeper leaves the channel.                                  *)
LEMMA DequeueStep ==
  ASSUME SemInv, CpuInv', NEW x \in Contexts, Dequeue(x), UNCHANGED <<count, posts>>
  PROVE  /\ SemInv'
         /\ Here(pc[running]) = "dequeue" /\ running' = running
         /\ waiting # <<>> /\ waiting' = Tail(waiting) /\ Inside' = Inside
         /\ Here(pc'[running]) = "woken"
<1>1. At(x, "dequeue")
  BY DEF Dequeue, MakeReady
<1>2. waiting # <<>> /\ count <= 0 /\ Len(waiting) = 1 - count
  BY <1>1, DequeueFinds
<1>3. /\ Goto(x, "woken") /\ waiting' = Tail(waiting) /\ UNCHANGED <<running, panic>>
  BY <1>2 DEF Dequeue, MakeReady
<1>4. /\ "woken" \in AllLabels \ {"off"} /\ "woken" \in SemLabels
      /\ "woken" \notin InsideLabels \cup JoinLabels \cup WakeLabels \cup RaiseLabels
      /\ "dequeue" \notin InsideLabels \cup RaiseLabels
      /\ "off" \notin RaiseLabels
  BY DEF AllLabels, MainLabels, InsideLabels, SemLabels, WakeLabels, RaiseLabels,
         JoinLabels
<1>5. /\ running = x /\ Here(pc[x]) = "dequeue" /\ Here(pc'[x]) = "woken"
      /\ \A y \in Contexts \ {x} : pc'[y] = pc[y]
      /\ pc[x].irq = "off" =>
           pc[x].main = "dequeue" /\ pc'[x].main = "woken" /\ pc'[x].irq = "off"
      /\ pc[x].irq # "off" =>
           /\ pc[x].irq = "dequeue" /\ pc'[x].irq = "woken"
           /\ pc'[x].main = pc[x].main
  BY <1>1, <1>3, <1>4, Leads DEF SemInv
<1>6. /\ count \in Int /\ posts \in 0..MaxPosts /\ panic \in BOOLEAN
      /\ \A q \in Procs : pc[q].main \in CpuLabels \cup SemLabels
  BY DEF SemInv, SemTypes
<1>7. Procs \subseteq Contexts /\ Range(waiting) \subseteq Procs
  BY DEF Contexts, SemInv, CpuInv, Types, Range
<1>8. SemTypes'
  <2>1. \A q \in Procs : pc'[q].main \in CpuLabels \cup SemLabels
    BY <1>4, <1>5, <1>6, <1>7
  <2> QED
    BY <1>3, <1>6, <2>1 DEF SemTypes
<1>9. /\ Len(waiting') = Len(waiting) - 1
      /\ Range(waiting') \subseteq Range(waiting)
  BY <1>2, <1>3, HeadLeaves
<1>10. Channel'
  BY <1>2, <1>3, <1>4, <1>5, <1>6, <1>9 DEF Channel
<1>11. Inside' = Inside
  BY <1>4, <1>5, <1>7 DEF Inside
<1>12. Permits'
  <2>2. Pending = 0 /\ Pending' = 0
    BY <1>3, <1>4, <1>5 DEF Pending
  <2> QED
    BY <1>11, <2>2 DEF SemInv, Permits
<1>13. Sleepers'
  <2>1. x \notin Range(waiting)
    BY <1>5, <1>7, RunningSleeper DEF Here
  <2> QED
    BY <1>5, <1>7, <1>9, <2>1 DEF SemInv, Sleepers
<1> QED
  BY <1>2, <1>3, <1>5, <1>8, <1>10, <1>12, <1>13, <1>11 DEF SemInv

(* The device interrupt comes.                                             *)
LEMMA PostStep ==
  ASSUME SemInv, CpuInv', NEW x \in Contexts, Post(x)
  PROVE  Moves
<1>1. /\ posts < MaxPosts /\ posts' = posts + 1 /\ running = x /\ cpu.if
      /\ pc[x].irq = "off" /\ pc' = [pc EXCEPT ![x].irq = "signal"]
      /\ UNCHANGED <<running, waiting, panic, count>>
  BY DEF Post, Interrupt
<1>2. /\ pc'[x] = [pc[x] EXCEPT !.irq = "signal"]
      /\ \A y \in Contexts \ {x} : pc'[y] = pc[y]
      /\ pc[x] \in [main : AllLabels, irq : AllLabels]
  BY <1>1 DEF SemInv, CpuInv, Types, PcType
<1>3. pc'[x].irq = "signal" /\ pc'[x].main = pc[x].main /\ Here(pc'[x]) = "signal"
  BY <1>2 DEF Here
<1>4. NoneHeld(pc[x].main) /\ Here(pc[x]) = pc[x].main
  BY <1>1 DEF SemInv, CpuInv, CpuAt, Here
<1>5. /\ Here(pc[x]) \notin JoinLabels \cup WakeLabels
      /\ "signal" \notin JoinLabels \cup WakeLabels
      /\ "signal" \in RaiseLabels /\ "off" \notin RaiseLabels
      /\ pc[x].main \notin {"unguard", "sched"}
  BY <1>4 DEF NoneHeld, JoinLabels, WakeLabels, RaiseLabels, LkLabels, QLabels
<1>6. /\ count \in Int /\ posts \in 0..MaxPosts /\ panic \in BOOLEAN
      /\ \A q \in Procs : pc[q].main \in CpuLabels \cup SemLabels
  BY DEF SemInv, SemTypes
<1>7. Procs \subseteq Contexts /\ Range(waiting) \subseteq Procs
  BY DEF Contexts, SemInv, CpuInv, Types, Range
<1>8. \A q \in Procs : pc'[q].main = pc[q].main
  BY <1>2, <1>3, <1>7
<1>9. SemTypes'
  BY <1>1, <1>6, <1>8, SemConstants DEF SemTypes
<1>10. Channel'
  BY <1>1, <1>3, <1>5 DEF SemInv, Channel
<1>11. Permits'
  <2>1. Inside' = Inside
    BY <1>8 DEF Inside
  <2>2. Pending = 0 /\ Pending' = 1
    BY <1>1, <1>3, <1>5 DEF Pending
  <2>3. Cardinality(Inside) \in Nat
    BY InsideFinite DEF Inside
  <2> QED
    BY <1>1, <1>6, <2>1, <2>2, <2>3, SemConstants DEF SemInv, Permits
<1>12. Sleepers'
  <2>1. x \notin Range(waiting)
    BY <1>1, <1>5, <1>7, RunningSleeper
  <2> QED
    BY <1>1, <1>2, <1>7, <2>1 DEF SemInv, Sleepers
<1>13. Quiet
  <2>1. Inside' = Inside
    BY <1>8 DEF Inside
  <2> QED
    BY <1>1, <1>3, <1>5, <2>1 DEF Quiet
<1> QED
  BY <1>9, <1>10, <1>11, <1>12, <1>13 DEF SemInv, Moves, SemMove

(* Spin locks that are taken or given back, wherever it happens.           *)
LEMMA SpinStep ==
  ASSUME SemInv, CpuInv', panic' \in BOOLEAN, NEW x \in Contexts, NEW k,
         NEW from, NEW to \in AllLabels \ {"off"},
         Acquire(x, k, from, to) \/ Release(x, k, from, to), CpuOnly,
         Same(from, to)
  PROVE  Moves
<1>1. ~panic'
  BY DEF CpuInv
<1>2. /\ At(x, from) /\ Goto(x, to) /\ UNCHANGED <<running, waiting, count, posts>>
  BY <1>1 DEF Acquire, Release, Check, CpuOnly
<1>3. running' = x
  BY <1>2 DEF At
<1> QED
  BY <1>2, <1>3, SameStep

(* wait and signal.                                                        *)
LEMMA WaitStep ==
  ASSUME SemInv, CpuInv', panic' \in BOOLEAN, NEW p \in Procs, Wait(p)
  PROVE  Moves
<1>0. /\ p \in Contexts /\ p # Sched
      /\ MainLabels \subseteq AllLabels \ {"off"}
      /\ {"wait", "decrement", "waitDone", "section", "block", "sched", "woke",
          "reguard"} \subseteq MainLabels
  BY CpuConstants DEF Contexts, MainLabels, AllLabels
<1>1. ASSUME CallWait(p) PROVE Moves
  BY <1>0, <1>1, SameStep, SameLabels DEF CallWait, At
<1>2. Acquire(p, "lk", "wait", "decrement") /\ CpuOnly => Moves
  BY <1>0, SpinStep, SameLabels
<1>3. Release(p, "lk", "waitDone", "section") /\ CpuOnly => Moves
  BY <1>0, SpinStep, SameLabels
<1>4. ASSUME Sleeping(p, "waitDone"), CpuOnly PROVE Moves
  <2>1. Acquire(p, "qlock", "sleep", "block") => Moves
    BY <1>0, <1>4, SpinStep, SameLabels
  <2>2. Block(p) => Moves
    BY <1>4, JoinStep DEF CpuOnly, Moves, SemMove
  <2>3. Release(p, "lk", "unguard", "sched") => Moves
    BY <1>0, <1>4, SpinStep, SameLabels
  <2>4. ASSUME SwitchToScheduler(p, "sched", "woke") PROVE Moves
    <3>1. ~panic'
      BY DEF CpuInv
    <3>2. /\ At(p, "sched") /\ Goto(p, "woke")
          /\ UNCHANGED <<waiting, count, posts>>
      BY <1>4, <2>4, <3>1 DEF SwitchToScheduler, Check, CpuOnly
    <3> QED
      BY <1>0, <3>2, SameStep, SameLabels
  <2>5. Release(p, "qlock", "woke", "reguard") => Moves
    BY <1>0, <1>4, SpinStep, SameLabels
  <2>6. Acquire(p, "lk", "reguard", "waitDone") => Moves
    BY <1>0, <1>4, SpinStep, SameLabels
  <2> QED
    BY <1>4, <2>1, <2>2, <2>3, <2>4, <2>5, <2>6 DEF Sleeping
<1> QED
  BY <1>1, <1>2, <1>3, <1>4, DecrementStep DEF Wait, Moves, SemMove

(* Every step of signal.                                                   *)
LEMMA SignalStep ==
  ASSUME SemInv, CpuInv', panic' \in BOOLEAN, NEW x \in Contexts, Signal(x)
  PROVE  Moves
<1>0. {"increment", "dequeue", "signalDone", "iret", "user"}
        \subseteq AllLabels \ {"off"}
  BY DEF MainLabels, AllLabels
<1>1. Acquire(x, "lk", "signal", "increment") /\ CpuOnly => Moves
  BY <1>0, SpinStep, SameLabels
<1>2. Acquire(x, "qlock", "wakeup", "dequeue") /\ CpuOnly => Moves
  BY <1>0, SpinStep, SameLabels
<1>3. Dequeue(x) /\ CpuOnly => Moves
  BY DequeueStep DEF CpuOnly, Moves, SemMove
<1>4. Release(x, "qlock", "woken", "signalDone") /\ CpuOnly => Moves
  BY <1>0, SpinStep, SameLabels
<1>5. Release(x, "lk", "signalDone", "iret") /\ CpuOnly => Moves
  BY <1>0, SpinStep, SameLabels
<1>6. Release(x, "lk", "signalDone", "user") /\ CpuOnly => Moves
  BY <1>0, SpinStep, SameLabels
<1>7. ASSUME Release(x, "lk", "signalDone",
                     IF Frame(x) = "irq" THEN "iret" ELSE "user"), CpuOnly
      PROVE  Moves
  <2>1. CASE Frame(x) = "irq"
    BY <1>5, <1>7, <2>1
  <2>2. CASE Frame(x) # "irq"
    BY <1>6, <1>7, <2>2
  <2> QED
    BY <2>1, <2>2
<1> QED
  BY <1>1, <1>2, <1>3, <1>4, <1>7, IncrementStep DEF Signal, Moves, SemMove

-----------------------------------------------------------------------------
(* The theorems.                                                           *)

(* Every step is a move.                                                   *)
LEMMA SemStep ==
  ASSUME SemInv, [Next]_semVars
  PROVE  Moves
<1>1. CpuInv' /\ ~panic' /\ CpuInv
  BY SemCpuStep DEF CpuInv, SemInv
<1>2. Sched \in Contexts /\ Procs \subseteq Contexts
  BY DEF Contexts
<1>3. panic' \in BOOLEAN
  <2>1. panic \in BOOLEAN
    BY DEF SemInv, SemTypes
  <2>2. ASSUME NEW x, Signal(x) PROVE panic' \in BOOLEAN
    BY <2>1, <2>2, PanicTyped DEF Signal, Increment, Dequeue
  <2>3. ASSUME NEW p \in Procs, ProcStep(p) PROVE panic' \in BOOLEAN
    BY <2>1, <2>2, <2>3, PanicTyped
       DEF ProcStep, Wait, CallWait, Decrement, CallSignal, Handler
  <2>4. SchedStep => panic' \in BOOLEAN
    BY <2>1, <2>2, PanicTyped DEF SchedStep
  <2>5. ASSUME NEW x, ClockInterrupt(x) \/ Post(x) PROVE panic' \in BOOLEAN
    BY <2>1, <2>5 DEF ClockInterrupt, Post, Interrupt
  <2> QED
    BY <2>1, <2>3, <2>4, <2>5 DEF Next, semVars, cpuVars
<1>4. /\ ClockLabels \cap SemLabels = {}
      /\ "signal" \in AllLabels \ {"off"}
  BY DEF ClockLabels, SemLabels, AllLabels, MainLabels
<1>5. ASSUME NEW p \in Procs, CpuOnly,
             Start(p) \/ ClockHandler(p) \/ Iret(p) \/ ClockInterrupt(p)
      PROVE  Moves
  <2>1. /\ waiting' = waiting /\ running = p
        /\ pc[p].irq \in ClockLabels /\ pc'[p].irq \in ClockLabels
        /\ pc[p].main = "start" \/ NoneHeld(pc[p].main)
        /\ \/ pc'[p].main = pc[p].main
           \/ pc[p].main \in {"start", "iret"} /\ pc'[p].main \in {"iret", "user"}
        /\ \A y \in Contexts \ {p} : pc'[y] = pc[y]
    BY <1>1, <1>5, ProcessOnly
  <2> QED
    BY <1>1, <1>2, <1>3, <1>4, <1>5, <2>1, ElsewhereStep DEF CpuOnly
<1>6. ASSUME NEW p \in Procs, CallSignal(p) PROVE Moves
  BY <1>1, <1>2, <1>3, <1>4, <1>6, SameStep, SameLabels DEF CallSignal, At
<1>7. ASSUME NEW p \in Procs, ProcStep(p) PROVE Moves
  BY <1>1, <1>2, <1>3, <1>5, <1>6, <1>7, WaitStep, SignalStep
     DEF ProcStep, Handler
<1>8. ASSUME Scheduler, CpuOnly PROVE Moves
  <2>1. /\ waiting' = waiting
        /\ pc[Sched].irq = "off" /\ pc[Sched].main \in SchedLabels
        /\ pc'[Sched].irq = "off" /\ pc'[Sched].main \in SchedLabels
        /\ \A y \in Contexts \ {Sched} : pc'[y] = pc[y]
    BY <1>1, <1>8, SchedulerOnly
  <2>2. running = Sched
    BY <1>8 DEF Scheduler, Sti, Acquire, Resume, NoneReady, Back, Release, At
  <2>3. "off" \notin SemLabels
    BY DEF SemLabels
  <2> QED
    BY <1>1, <1>2, <1>3, <1>8, <2>1, <2>2, <2>3, ElsewhereStep DEF CpuOnly
<1>9. ASSUME Iret(Sched), CpuOnly PROVE Moves
  <2>1. /\ At(Sched, "iret") /\ waiting' = waiting
        /\ pc' = IF pc[Sched].irq = "off" THEN [pc EXCEPT ![Sched].main = "user"]
                 ELSE [pc EXCEPT ![Sched].irq = "off"]
    BY <1>1, <1>9 DEF Iret, Check
  <2>2. /\ running = Sched /\ Here(pc[Sched]) = "iret"
        /\ pc[Sched].main \in SchedLabels
        /\ pc[Sched] \in [main : AllLabels, irq : AllLabels] /\ PcType
    BY <1>1, <1>2, <2>1, AtFits DEF CpuInv, ContextOK, Types
  <2>3. pc[Sched].irq = "iret"
    BY <2>2 DEF Here, SchedLabels
  <2>4. /\ pc'[Sched] = [pc[Sched] EXCEPT !.irq = "off"]
        /\ \A y \in Contexts \ {Sched} : pc'[y] = pc[y]
    BY <1>2, <2>1, <2>2, <2>3 DEF PcType
  <2>5. pc'[Sched].irq = "off" /\ pc'[Sched].main = pc[Sched].main
    BY <2>2, <2>4
  <2>6. "off" \notin SemLabels /\ "iret" \notin SemLabels
    BY DEF SemLabels
  <2> QED
    BY <1>1, <1>2, <1>3, <1>9, <2>1, <2>2, <2>3, <2>4, <2>5, <2>6, ElsewhereStep
       DEF CpuOnly
<1>10. ASSUME SchedStep PROVE Moves
  BY <1>1, <1>2, <1>3, <1>8, <1>9, <1>10, SignalStep DEF SchedStep
<1>11. ASSUME UNCHANGED semVars PROVE Moves
  <2>1. Inside' = Inside /\ Pending' = Pending /\ Channel' = Channel
    BY <1>11 DEF semVars, cpuVars, Inside, Pending, Channel
  <2>2. SemInv'
    BY <1>1, <1>11, <2>1 DEF semVars, cpuVars, SemInv, SemTypes, Permits, Sleepers
  <2>3. Quiet
    BY <1>11, <2>1 DEF semVars, cpuVars, Quiet
  <2> QED
    BY <2>2, <2>3 DEF Moves, SemMove
<1> QED
  BY <1>1, <1>2, <1>5, <1>7, <1>10, <1>11, PostStep DEF Next

(* The invariant holds at first.                                           *)
LEMMA InitSemInv == Init => SemInv
<1> SUFFICES ASSUME Init PROVE SemInv
  OBVIOUS
<1>1. CpuInv
  BY InitCpuInv DEF Init
<1>2. \A x \in Contexts : /\ pc[x].irq = "off"
                          /\ pc[x].main = IF x = Sched THEN "sti" ELSE "start"
  <2>1. TAKE x \in Contexts
  <2>2. pc[x] = [main |-> IF x = Sched THEN "sti" ELSE "start", irq |-> "off"]
    BY DEF Init, CpuInit
  <2> QED
    BY <2>2
<1>3. \A p \in Procs : pc[p].main = "start"
  BY <1>2, CpuConstants DEF Contexts
<1>4. /\ running = Sched /\ waiting = <<>> /\ count = Value /\ posts = 0
      /\ panic = FALSE /\ Range(<<>>) = {}
  BY DEF Init, CpuInit, Range
<1>5. Here(pc[running]) = "sti" /\ pc[running].irq = "off"
  BY <1>2, <1>4 DEF Here, Contexts
<1>6. SemTypes
  <2>1. \A p \in Procs : pc[p].main \in CpuLabels
    BY <1>3 DEF CpuLabels
  <2>2. count \in Int /\ posts \in 0..MaxPosts
    <3>1. Value \in Int /\ 0 \in 0..MaxPosts
      BY SemConstants
    <3> QED
      BY <1>4, <3>1
  <2>3. panic \in BOOLEAN
    BY <1>4
  <2> QED
    BY <2>1, <2>2, <2>3 DEF SemTypes
<1>7. Channel
  BY <1>4, <1>5, SemConstants DEF Channel, JoinLabels, WakeLabels
<1>8. Permits
  <2>1. Inside = {} /\ Pending = 0
    BY <1>3, <1>5 DEF Inside, InsideLabels, Pending, RaiseLabels
  <2> QED
    BY <1>4, <2>1, FS_EmptySet, SemConstants DEF Permits
<1>9. Sleepers
  BY <1>4 DEF Sleepers
<1> QED
  BY <1>1, <1>6, <1>7, <1>8, <1>9 DEF SemInv

(* The invariant of the kernel semaphore, for any number of processes, any *)
(* initial value and any number of signals from the interrupt handler.     *)
THEOREM Invariance == Spec => []SemInv
<1>1. SemInv /\ [Next]_semVars => SemInv'
  BY SemStep DEF Moves
<1> QED
  BY <1>1, InitSemInv, PTL DEF Spec

(* Every variable keeps its type; count stays between the initial value    *)
(* less one for every process and the initial value plus the posts.        *)
LEMMA SemInvTypes == SemInv => TypeOK
<1> SUFFICES ASSUME SemInv PROVE TypeOK
  OBVIOUS
<1>1. ASSUME NEW x \in Contexts
      PROVE  pc[x] \in [main : CpuLabels \cup SemLabels,
                        irq : CpuLabels \cup SemLabels]
  <2>1. pc[x] \in [main : AllLabels, irq : AllLabels] /\ ContextOK(x, pc[x])
    BY DEF SemInv, CpuInv, Types, PcType
  <2>2. pc[x].irq \in CpuLabels \cup SemLabels
    BY <2>1 DEF ContextOK, HandlerLabels, CpuLabels, SemLabels
  <2>3. CASE x = Sched
    BY <2>1, <2>2, <2>3 DEF ContextOK, SchedLabels, CpuLabels
  <2>4. CASE x # Sched
    BY <2>1, <2>2, <2>4 DEF Contexts, SemInv, SemTypes
  <2> QED
    BY <2>3, <2>4
<1>2. pc \in [Contexts -> [main : CpuLabels \cup SemLabels,
                           irq : CpuLabels \cup SemLabels]]
  BY <1>1 DEF SemInv, CpuInv, Types, PcType
<1>3. Types /\ SemTypes /\ Permits
  BY DEF SemInv, CpuInv
<1>4. CpuTypeOK(CpuLabels \cup SemLabels)
  BY <1>2, <1>3 DEF Types, SemTypes, CpuTypeOK
<1>5. /\ Cardinality(Inside) \in Nat /\ Cardinality(Procs) \in Nat
      /\ Cardinality(Inside) <= Cardinality(Procs)
  <2>1. Inside \subseteq Procs /\ IsFiniteSet(Procs)
    BY CpuConstants DEF Inside
  <2> QED
    BY <2>1, InsideFinite, FS_Subset
<1>6. Pending \in {0, 1}
  BY DEF Pending
<1>7. count \in (Value - Cardinality(Procs))..(Value + MaxPosts)
  BY <1>3, <1>5, <1>6, SemConstants DEF SemTypes, Permits
<1> QED
  BY <1>3, <1>4, <1>7 DEF SemTypes, TypeOK

(* A negative count says how many processes sleep whenever nobody is       *)
(* inside wait or signal: no wakeup is lost, none goes to an empty channel.*)
THEOREM CountMatchesSleepersCorrect == Spec => []CountMatchesSleepers
<1>1. SemInv => CountMatchesSleepers
  <2> SUFFICES ASSUME SemInv PROVE CountMatchesSleepers
    OBVIOUS
  <2>1. ASSUME ~locked["lk"]
        PROVE  Here(pc[running]) \notin JoinLabels \cup WakeLabels
    <3>1. ~HeldAt("lk", Here(pc[running]))
      BY <2>1 DEF SemInv, CpuInv, CpuAt, Locks
    <3> QED
      BY <3>1 DEF HeldAt, LkLabels, JoinLabels, WakeLabels
  <2> QED
    BY <2>1, SemInvTypes DEF SemInv, Channel, CountMatchesSleepers
<1> QED
  BY <1>1, Invariance, PTL

(* No check of the spin locks, of sched or of trap fails, although a       *)
(* signal may come from a handler on top of any process or the scheduler.  *)
THEOREM NoPanicCorrect == Spec => []NoPanic
<1>1. SemInv => NoPanic
  BY CpuInvGives DEF SemInv
<1> QED
  BY <1>1, Invariance, PTL

(* Interrupts are off exactly while a spin lock is held or an interrupt    *)
(* handled, and every process is at one place.                             *)
THEOREM CpuInOrderCorrect == Spec => []CpuInOrder
<1>1. SemInv => CpuInOrder
  BY CpuInvGives DEF SemInv
<1> QED
  BY <1>1, Invariance, PTL

-----------------------------------------------------------------------------
(* The kernel semaphore implements the queue of FifoSemaphore.             *)

(* What the refinement mapping gives for the queue, by where the running   *)
(* context is.                                                             *)
QueueNow ==
  LET here == Here(pc[running])
  IN  IF here \in WakeLabels THEN Tail(waiting)
      ELSE IF here \in JoinLabels THEN Append(waiting, running)
      ELSE waiting

(* Concatenation with at most one element.                                 *)
LEMMA ConcatSmall ==
  ASSUME NEW T, NEW q \in Seq(T), NEW e \in T
  PROVE  q \o <<>> = q /\ q \o <<e>> = Append(q, e)
<1>1. q \o <<>> = q
  OBVIOUS
<1>2. q \o <<e>> = Append(q, e)
  OBVIOUS
<1> QED
  BY <1>1, <1>2

(* The mapped queue, which WaitQueue defines with a choice among all       *)
(* contexts, is the one of the running context.                            *)
LEMMA QueueIs == SemInv => WaitQueue = QueueNow
<1> SUFFICES ASSUME SemInv PROVE WaitQueue = QueueNow
  OBVIOUS
<1> DEFINE here == Here(pc[running])
<1>1. /\ running \in Contexts /\ ContextOK(running, pc[running])
      /\ waiting \in Seq(Procs) /\ Procs \subseteq Contexts
  BY DEF SemInv, CpuInv, Types, Contexts
<1>2. Waking <=> here \in WakeLabels
  <2>1. ASSUME NEW y \in Contexts, y # running
        PROVE  pc[y].main \notin WakeLabels /\ pc[y].irq \notin WakeLabels
    <3>1. ContextOK(y, pc[y]) /\ pc[y].irq \in {"off", "yielded"}
          /\ Here(pc[y]) \notin WakeLabels
      BY <2>1, SuspendedLabels DEF SemInv, CpuInv
    <3> QED
      BY <3>1 DEF ContextOK, NoneHeld, LkLabels, WakeLabels, Here
  <2>2. (pc[running].main \in WakeLabels \/ pc[running].irq \in WakeLabels)
          <=> here \in WakeLabels
    BY <1>1 DEF Here, ContextOK, NoneHeld, LkLabels, WakeLabels
  <2> QED
    BY <1>1, <2>1, <2>2 DEF Waking, MainAt, WakeLabels
<1>3. Joining = IF here \in JoinLabels THEN {running} ELSE {}
  <2>1. ASSUME NEW p \in Procs, p # running PROVE pc[p].main \notin JoinLabels
    <3>1. ContextOK(p, pc[p]) /\ pc[p].irq \in {"off", "yielded"}
          /\ Here(pc[p]) \notin JoinLabels
      BY <1>1, <2>1, SuspendedLabels DEF SemInv, CpuInv
    <3> QED
      BY <3>1 DEF ContextOK, NoneHeld, LkLabels, JoinLabels, Here
  <2>2. pc[running].main \in JoinLabels <=> here \in JoinLabels
    BY <1>1 DEF Here, ContextOK, NoneHeld, LkLabels, JoinLabels, HandlerLabels
  <2>3. here \in JoinLabels => running \in Procs
    BY <1>1, <2>2 DEF ContextOK, SchedLabels, JoinLabels, Contexts
  <2> QED
    BY <2>1, <2>2, <2>3 DEF Joining, MainAt, JoinLabels
<1>4. here \in WakeLabels => waiting # <<>> /\ here \notin JoinLabels
  <2>1. ASSUME here \in WakeLabels PROVE Len(waiting) = 1 - count /\ count <= 0
    BY <2>1 DEF SemInv, Channel, WakeLabels, JoinLabels
  <2> QED
    BY <2>1 DEF SemInv, SemTypes, WakeLabels, JoinLabels
<1>5. CASE here \in WakeLabels
  <2>1. Waking /\ waiting # <<>> /\ Joining = {}
    BY <1>2, <1>3, <1>4, <1>5
  <2>2. Tail(waiting) \in Seq(Procs) /\ Tail(waiting) \o <<>> = Tail(waiting)
    BY <1>1, <2>1
  <2> QED
    BY <1>5, <2>1, <2>2 DEF WaitQueue, QueueNow
<1>6. CASE here \in JoinLabels
  <2>1. ~Waking /\ Joining = {running} /\ Joining # {}
    BY <1>2, <1>3, <1>4, <1>6
  <2>2. running \in Procs
    BY <2>1 DEF Joining
  <2>3. (CHOOSE p \in Joining : TRUE) = running
    BY <2>1
  <2>4. waiting \o <<running>> = Append(waiting, running)
    BY <1>1, <2>2, ConcatSmall
  <2> QED
    BY <1>4, <1>6, <2>1, <2>3, <2>4 DEF WaitQueue, QueueNow
<1>7. CASE here \notin WakeLabels \cup JoinLabels
  <2>1. ~Waking /\ Joining = {} /\ waiting \o <<>> = waiting
    BY <1>1, <1>2, <1>3, <1>7
  <2> QED
    BY <1>7, <2>1 DEF WaitQueue, QueueNow
<1> QED
  BY <1>5, <1>6, <1>7

(* The processes inside: all but those that wait.                          *)
LEMMA InsideIs == {p \in Procs : InSection(p) \/ InWait(p)} = Inside
BY DEF Inside, InsideLabels, InSection, InWait, MainAt

(* What an abstract step has to be, in the terms of the invariant.         *)
Free == IF count > 0 THEN count ELSE 0
(* Who is inside and does not wait.                                        *)
Served == Inside \ Range(QueueNow)

(* Nothing, a process that enters or joins, a permit that comes back.      *)
FifoMove ==
  \/ Free' = Free /\ Served' = Served /\ QueueNow' = QueueNow
  \/ \E p \in Procs :
       /\ p \notin Served /\ p \notin Range(QueueNow)
       /\ \/ /\ Free > 0 /\ Free' = Free - 1
             /\ Served' = Served \cup {p} /\ QueueNow' = QueueNow
          \/ /\ Free = 0 /\ QueueNow' = Append(QueueNow, p)
             /\ Free' = Free /\ Served' = Served
  \/ \E S : /\ S = Served \/ \E p \in Procs : p \in Served /\ S = Served \ {p}
            /\ \/ /\ QueueNow = <<>> /\ QueueNow' = QueueNow
                  /\ Free' = Free + 1 /\ Served' = S
               \/ /\ QueueNow # <<>> /\ QueueNow' = Tail(QueueNow)
                  /\ Served' = S \cup {Head(QueueNow)} /\ Free' = Free

(* Such a step is a step of FifoSemaphore or a stutter.                    *)
LEMMA FifoMoves ==
  ASSUME WaitQueue = QueueNow, WaitQueue' = QueueNow', FifoMove
  PROVE  [Fifo!Next]_(Fifo!vars)
<1>1. /\ {p \in Procs : InSection(p) \/ InWait(p)} = Inside
      /\ {p \in Procs : InSection(p) \/ InWait(p)}' = Inside'
  BY InsideIs DEF Inside, InsideLabels, InSection, InWait, MainAt
<1>2. CASE Free' = Free /\ Served' = Served /\ QueueNow' = QueueNow
  BY <1>1, <1>2 DEF Fifo!vars, Free, Served
<1>3. ASSUME NEW p \in Procs, p \notin Served, p \notin Range(QueueNow),
             \/ /\ Free > 0 /\ Free' = Free - 1
                /\ Served' = Served \cup {p} /\ QueueNow' = QueueNow
             \/ /\ Free = 0 /\ QueueNow' = Append(QueueNow, p)
                /\ Free' = Free /\ Served' = Served
      PROVE  Fifo!Next
  <2>1. Fifo!Outside(p)
    BY <1>1, <1>3 DEF Fifo!Outside, Served, Range
  <2>2. Fifo!Enter(p) \/ Fifo!Join(p)
    BY <1>1, <1>3, <2>1 DEF Fifo!Enter, Fifo!Join, Free, Served
  <2> QED
    BY <2>2 DEF Fifo!Next
<1>4. ASSUME NEW S,
             \/ /\ QueueNow = <<>> /\ QueueNow' = QueueNow
                /\ Free' = Free + 1 /\ Served' = S
             \/ /\ QueueNow # <<>> /\ QueueNow' = Tail(QueueNow)
                /\ Served' = S \cup {Head(QueueNow)} /\ Free' = Free
      PROVE  Fifo!GiveBack(S)
  BY <1>1, <1>4 DEF Fifo!GiveBack, Free, Served
<1>5. ASSUME NEW S, Fifo!GiveBack(S),
             S = Served \/ \E p \in Procs : p \in Served /\ S = Served \ {p}
      PROVE  Fifo!Next
  <2>1. CASE S = Served
    BY <1>1, <1>5, <2>1 DEF Fifo!Next, Fifo!Post, Served
  <2>2. CASE \E p \in Procs : p \in Served /\ S = Served \ {p}
    BY <1>1, <1>5, <2>2 DEF Fifo!Next, Fifo!Leave, Served
  <2> QED
    BY <1>5, <2>1, <2>2
<1> QED
  BY <1>2, <1>3, <1>4, <1>5 DEF FifoMove

(* Every move is such a step.                                              *)
LEMMA MovesFifo ==
  ASSUME SemInv, Moves
  PROVE  FifoMove
<1> DEFINE here == Here(pc[running])
<1>0. /\ waiting \in Seq(Procs) /\ count \in Int /\ Range(waiting) \subseteq Procs
      /\ \A p \in Range(waiting) : pc[p].main \in {"unguard", "sched", "woke"}
      /\ Procs \subseteq Contexts
  BY DEF SemInv, CpuInv, Types, SemTypes, Sleepers, Range, Contexts
<1>1. Range(waiting) \subseteq Inside
  BY <1>0 DEF Inside, InsideLabels
<1>2. CASE Quiet
  <2>1. QueueNow' = QueueNow
    BY <1>2 DEF Quiet, QueueNow
  <2> QED
    BY <1>2, <2>1 DEF Quiet, FifoMove, Free, Served
<1>3. ASSUME NEW p \in Procs, Decrement(p) PROVE FifoMove
  <2>1. /\ here = "decrement" /\ running = p
        /\ running' = p /\ waiting' = waiting /\ count' = count - 1
        /\ Here(pc'[p]) = IF count - 1 < 0 THEN "sleep" ELSE "waitDone"
        /\ p \notin Inside /\ p \notin Range(waiting)
        /\ Inside' = Inside \cup {p}
    BY <1>3, DecrementStep DEF Moves, SemInv
  <2>2. QueueNow = waiting
    BY <2>1 DEF QueueNow, WakeLabels, JoinLabels
  <2>3. p \notin Served /\ p \notin Range(QueueNow)
    BY <2>1, <2>2 DEF Served
  <2>4. CASE count - 1 < 0
    <3>1. QueueNow' = Append(waiting, p)
      BY <2>1, <2>4 DEF QueueNow, WakeLabels, JoinLabels
    <3>2. Range(Append(waiting, p)) = Range(waiting) \cup {p}
      BY <1>0, AppendRange
    <3>3. Served' = Served
      BY <2>1, <2>2, <3>1, <3>2 DEF Served
    <3>4. Free = 0 /\ Free' = Free
      BY <1>0, <2>1, <2>4 DEF Free
    <3> QED
      BY <2>2, <2>3, <3>1, <3>3, <3>4 DEF FifoMove
  <2>5. CASE ~(count - 1 < 0)
    <3>1. QueueNow' = waiting
      BY <2>1, <2>5 DEF QueueNow, WakeLabels, JoinLabels
    <3>2. Served' = Served \cup {p}
      BY <2>1, <2>2, <3>1 DEF Served
    <3>3. Free > 0 /\ Free' = Free - 1
      BY <1>0, <2>1, <2>5 DEF Free
    <3> QED
      BY <2>2, <2>3, <3>1, <3>2, <3>3 DEF FifoMove
  <2> QED
    BY <2>4, <2>5
<1>4. ASSUME NEW p \in Procs, Block(p), CpuOnly PROVE FifoMove
  <2>1. /\ here = "block" /\ running = p
        /\ running' = p /\ Here(pc'[p]) = "unguard"
        /\ waiting' = Append(waiting, p) /\ Inside' = Inside
        /\ count' = count
    BY <1>4, JoinStep DEF Moves, SemInv, CpuOnly
  <2>2. QueueNow = Append(waiting, p) /\ QueueNow' = Append(waiting, p)
    BY <2>1 DEF QueueNow, WakeLabels, JoinLabels
  <2> QED
    BY <2>1, <2>2 DEF FifoMove, Free, Served
<1>5. ASSUME NEW x \in Contexts, Increment(x) PROVE FifoMove
  <2>1. /\ here = "increment" /\ running' = running
        /\ waiting' = waiting /\ count' = count + 1
        /\ Here(pc'[running]) = IF count + 1 <= 0 THEN "wakeup" ELSE "signalDone"
        /\ x \notin Range(waiting)
        /\ IF pc[x].irq = "off" THEN x \in Inside /\ Inside' = Inside \ {x}
           ELSE Inside' = Inside
    BY <1>5, IncrementStep DEF Moves, SemInv
  <2>2. QueueNow = waiting /\ Len(waiting) = IF count < 0 THEN -count ELSE 0
    BY <2>1 DEF QueueNow, WakeLabels, JoinLabels, SemInv, Channel
  <2> DEFINE S == IF pc[x].irq = "off" THEN Served \ {x} ELSE Served
  <2>3. S = Served \/ \E p \in Procs : p \in Served /\ S = Served \ {p}
    BY <2>1, <2>2 DEF Served, Inside
  <2>4. CASE count + 1 <= 0
    <3>1. waiting # <<>> /\ QueueNow' = Tail(waiting)
      BY <1>0, <2>1, <2>2, <2>4 DEF QueueNow, WakeLabels, JoinLabels
    <3>2. /\ Range(Tail(waiting)) = Range(waiting) \ {Head(waiting)}
          /\ Head(waiting) \in Range(waiting)
      BY <3>1, HeadLeaves
    <3>3. Served' = S \cup {Head(waiting)}
      BY <1>1, <2>1, <2>2, <3>1, <3>2 DEF Served
    <3>4. Free' = Free
      BY <1>0, <2>1, <2>4 DEF Free
    <3> HIDE DEF S
    <3> QED
      BY <2>2, <2>3, <3>1, <3>3, <3>4 DEF FifoMove
  <2>5. CASE ~(count + 1 <= 0)
    <3>1. waiting = <<>> /\ QueueNow' = waiting
      BY <1>0, <2>1, <2>2, <2>5 DEF QueueNow, WakeLabels, JoinLabels
    <3>2. Served' = S
      BY <2>1, <2>2, <3>1 DEF Served
    <3>3. Free' = Free + 1
      BY <1>0, <2>1, <2>5 DEF Free
    <3> HIDE DEF S
    <3> QED
      BY <2>2, <2>3, <3>1, <3>2, <3>3 DEF FifoMove
  <2> QED
    BY <2>4, <2>5
<1>6. ASSUME NEW x \in Contexts, Dequeue(x), CpuOnly PROVE FifoMove
  <2>1. /\ here = "dequeue" /\ running' = running
        /\ waiting # <<>> /\ waiting' = Tail(waiting) /\ Inside' = Inside
        /\ Here(pc'[running]) = "woken" /\ count' = count
    BY <1>6, DequeueStep DEF Moves, SemInv, CpuOnly
  <2>2. QueueNow = Tail(waiting) /\ QueueNow' = Tail(waiting)
    BY <2>1 DEF QueueNow, WakeLabels, JoinLabels
  <2> QED
    BY <2>1, <2>2 DEF FifoMove, Free, Served
<1> QED
  BY <1>2, <1>3, <1>4, <1>5, <1>6 DEF Moves, SemMove

(* The kernel semaphore implements the queue of FifoSemaphore: every step  *)
(* of wait_ksemaphore, signal_ksemaphore, sleep and wakeup_one is a step   *)
(* of a queue served in the order of arrival, or does not touch it.        *)
THEOREM FifoCorrect == Spec => FifoSpec
<1>1. Init => Fifo!Init
  <2> SUFFICES ASSUME Init PROVE Fifo!Init
    OBVIOUS
  <2>1. SemInv
    BY InitSemInv
  <2>2. /\ running = Sched /\ waiting = <<>> /\ count = Value
        /\ pc = [x \in Contexts |-> [main |-> IF x = Sched THEN "sti" ELSE "start",
                                     irq |-> "off"]]
    BY DEF Init, CpuInit
  <2>3. Here(pc[running]) = "sti"
    BY <2>2 DEF Here, Contexts
  <2>4. WaitQueue = <<>>
    BY <2>1, <2>2, <2>3, QueueIs DEF QueueNow, WakeLabels, JoinLabels
  <2>5. \A p \in Procs : pc[p].main = "start"
    BY <2>2, CpuConstants DEF Contexts
  <2>6. Inside = {}
    BY <2>5 DEF Inside, InsideLabels
  <2> QED
    BY <2>2, <2>4, <2>6, InsideIs, SemConstants DEF Fifo!Init
<1> DEFINE Mapped == SemInv /\ WaitQueue = QueueNow
<1>2. SemInv => Mapped
  BY QueueIs
<1>3. Mapped /\ Mapped' /\ [Next]_semVars => [Fifo!Next]_(Fifo!vars)
  BY SemStep, MovesFifo, FifoMoves
<1> HIDE DEF Mapped
<1> QED
  BY <1>1, <1>2, <1>3, Invariance, PTL DEF Spec, FifoSpec, Fifo!Spec
==============================================================================

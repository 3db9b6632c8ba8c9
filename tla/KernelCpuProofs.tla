---------------------------- MODULE KernelCpuProofs ----------------------------
(***************************************************************************)
(* Lemmas about the CPU of KernelCpu: spin locks, pushcli and popcli, the  *)
(* switch between the scheduler and a process, sleep and the clock         *)
(* handler, for any set of processes.                                      *)
(*                                                                         *)
(* CpuInv is inductive: each step of the CPU keeps it, and so does a step  *)
(* of a primitive that only moves one context between two labels of one    *)
(* kind.  The locks, ncli and the interrupt flag are all functions of the  *)
(* label that the running context is at (CpuAt), and every other context   *)
(* is where it gave the CPU away (Suspended).  The primitives built on the *)
(* CPU add a part of their own to it and cite the lemmas for theirs.       *)
(***************************************************************************)
EXTENDS KernelCpu, ListOpsProofs

(* What a context may be at: a handler, the scheduler's loop, and what the *)
(* processes do in this module and in the primitives built on it.          *)
HandlerLabels ==
  {"clock", "yield", "yielding", "yielded", "iret",
   "signal", "increment", "wakeup", "dequeue", "woken", "signalDone"}
SchedLabels == {"sti", "acquire", "pick", "back", "release"}
MainLabels ==
  {"start", "iret", "user", "section",
   "sleep", "block", "unguard", "sched", "woke", "reguard",
   "acq", "test", "acqDone", "hold", "holds", "holdDone",
   "rel", "any", "wakeup", "dequeue", "woken", "clear", "relDone",
   "wait", "decrement", "waitDone", "signal", "increment", "signalDone"}
AllLabels == HandlerLabels \cup SchedLabels \cup MainLabels \cup {"off"}

(* Where qlock is held, and where the guard of the primitive is.           *)
QLabels ==
  {"pick", "back", "release", "start", "block", "unguard", "sched", "woke",
   "yield", "yielding", "yielded", "dequeue", "woken"}
LkLabels ==
  {"sleep", "block", "unguard", "test", "acqDone", "holds", "holdDone", "any",
   "wakeup", "dequeue", "woken", "clear", "relDone",
   "decrement", "waitDone", "increment", "signalDone"}
HeldAt(k, label) == IF k = "qlock" THEN label \in QLabels ELSE label \in LkLabels
NoneHeld(label) == label \notin QLabels /\ label \notin LkLabels

PcType == pc \in [Contexts -> [main : AllLabels, irq : AllLabels]]

(* Where a context with the two labels of r goes on, and its labels after  *)
(* its innermost frame has gone to label.                                  *)
Here(r) == IF r.irq = "off" THEN r.main ELSE r.irq
Moved(r, label) ==
  IF r.irq = "off" THEN [main |-> label, irq |-> "off"]
  ELSE [main |-> r.main, irq |-> label]

(* A label that a context may go to in the frame it is in.                 *)
Fits(x, r, label) ==
  IF r.irq # "off" THEN label \in HandlerLabels
  ELSE IF x = Sched THEN label \in SchedLabels ELSE label \in MainLabels

-----------------------------------------------------------------------------
(* The inductive invariant.                                                *)

(* The types of the variables.                                             *)
Types ==
  /\ cpu \in [if : BOOLEAN, ncli : 0..3, intena : BOOLEAN]
  /\ running \in Contexts /\ proc \in Procs \cup {NoProc}
  /\ locked \in [Locks -> BOOLEAN]
  /\ status \in [Procs -> {"READY", "RUNNING", "BLOCKED"}]
  /\ ready \in Seq(Procs) /\ waiting \in Seq(Procs)
  /\ PcType
  /\ intena \in [Procs -> BOOLEAN]

(* The labels of a context: a handler comes only on top of main code that  *)
(* holds no lock.                                                          *)
ContextOK(x, r) ==
  /\ r.irq \in HandlerLabels \cup {"off"}
  /\ r.main \in IF x = Sched THEN SchedLabels ELSE MainLabels
  /\ r.irq # "off" => NoneHeld(r.main)

(* The locks and the interrupt flag follow from where the running context  *)
(* x, with the labels r, is.  intena remembers that interrupts were off in *)
(* a handler, and that they were on in the main code of a process, except  *)
(* for one that the scheduler starts.                                      *)
CpuAt(c, l, x, r) ==
  /\ \A k \in Locks : l[k] <=> HeldAt(k, Here(r))
  /\ c.ncli = (IF l["qlock"] THEN 1 ELSE 0) + (IF l["lk"] THEN 1 ELSE 0)
  /\ c.if => NoneHeld(Here(r)) /\ r.irq = "off"
  /\ r.irq # "off" /\ ~NoneHeld(Here(r)) => ~c.intena
  /\ r.irq = "off" /\ x # Sched /\ NoneHeld(r.main) /\ r.main # "iret" => c.if
  /\ r.irq = "off" /\ x # Sched /\ ~NoneHeld(r.main) /\ r.main # "start"
       => c.intena

(* A context that is not running has given the CPU away or never had it.   *)
Suspended ==
  /\ running # Sched => pc[Sched] = [main |-> "back", irq |-> "off"]
  /\ \A p \in Procs : p # running =>
       \/ pc[p].irq = "off" /\ pc[p].main = "start"
       \/ pc[p].irq = "off" /\ pc[p].main = "woke" /\ intena[p] = TRUE
       \/ pc[p].irq = "yielded" /\ intena[p] = FALSE

(* The status of the running process, and the process that the scheduler   *)
(* has just taken the CPU from.                                            *)
StatusAt(label) ==
  IF label \in {"unguard", "sched"} THEN "BLOCKED"
  ELSE IF label = "yielding" THEN "READY" ELSE "RUNNING"

SchedProcAt(label) ==
  IF label = "back" THEN proc \in Procs /\ status[proc] \in {"READY", "BLOCKED"}
  ELSE IF label = "pick" THEN proc = NoProc \/ status[proc] = "READY"
  ELSE proc = NoProc

ProcMatches ==
  /\ running # Sched => proc = running /\ status[proc] = StatusAt(Here(pc[running]))
  /\ running = Sched => SchedProcAt(pc[Sched].main)

(* All of it.  PlacedOnce says that a process is in at most one queue, and *)
(* in the one that fits its status.                                        *)
CpuInv ==
  /\ Types /\ ~panic
  /\ \A x \in Contexts : ContextOK(x, pc[x])
  /\ CpuAt(cpu, locked, running, pc[running])
  /\ Suspended /\ ProcMatches /\ PlacedOnce

-----------------------------------------------------------------------------
(* Control.                                                                *)

(* What Goto does to the labels.                                           *)
LEMMA GotoMoves ==
  ASSUME PcType, NEW x \in Contexts, NEW label \in AllLabels, Goto(x, label)
  PROVE  /\ pc' \in [Contexts -> [main : AllLabels, irq : AllLabels]]
         /\ pc'[x] = Moved(pc[x], label)
         /\ \A y \in Contexts \ {x} : pc'[y] = pc[y]
<1>1. pc[x] \in [main : AllLabels, irq : AllLabels]
  BY DEF PcType
<1>2. [pc[x] EXCEPT ![Frame(x)] = label] = Moved(pc[x], label)
  <2>1. CASE pc[x].irq = "off"
    BY <1>1, <2>1 DEF Frame, Moved
  <2>2. CASE pc[x].irq # "off"
    BY <1>1, <2>2 DEF Frame, Moved
  <2> QED
    BY <2>1, <2>2
<1>3. pc' = [pc EXCEPT ![x] = Moved(pc[x], label)]
  BY <1>2 DEF Goto
<1>4. Moved(pc[x], label) \in [main : AllLabels, irq : AllLabels]
  BY <1>1 DEF Moved, AllLabels
<1> QED
  BY <1>3, <1>4 DEF PcType

(* A context at a label is at one that fits its frame.                     *)
LEMMA AtFits ==
  ASSUME CpuInv, NEW x \in Contexts, NEW label, At(x, label)
  PROVE  /\ running = x /\ Here(pc[x]) = label /\ Fits(x, pc[x], label)
         /\ pc[x] \in [main : AllLabels, irq : AllLabels]
         /\ label \in AllLabels
<1>1. pc[x] \in [main : AllLabels, irq : AllLabels]
  BY DEF CpuInv, Types, PcType
<1>2. running = x /\ Here(pc[x]) = label
  <2>1. CASE pc[x].irq = "off"
    BY <1>1, <2>1 DEF At, Frame, Here
  <2>2. CASE pc[x].irq # "off"
    BY <1>1, <2>2 DEF At, Frame, Here
  <2> QED
    BY <2>1, <2>2
<1>3. ContextOK(x, pc[x])
  BY DEF CpuInv
<1>4. Fits(x, pc[x], label)
  BY <1>1, <1>2, <1>3 DEF ContextOK, Fits, Here
<1>5. label \in AllLabels
  BY <1>4 DEF Fits, AllLabels
<1> QED
  BY <1>1, <1>2, <1>4, <1>5

(* A step of the running context that leaves alone who runs, who is queued *)
(* where and what the suspended contexts remember.                         *)
LEMMA LocalStep ==
  ASSUME CpuInv, NEW x \in Contexts, running = x,
         UNCHANGED <<running, proc, status, ready, waiting, intena>>, ~panic',
         cpu' \in [if : BOOLEAN, ncli : 0..3, intena : BOOLEAN],
         locked' \in [Locks -> BOOLEAN],
         pc' \in [Contexts -> [main : AllLabels, irq : AllLabels]],
         \A y \in Contexts \ {x} : pc'[y] = pc[y],
         ContextOK(x, pc'[x]), CpuAt(cpu', locked', x, pc'[x]),
         x # Sched => StatusAt(Here(pc'[x])) = StatusAt(Here(pc[x])),
         x = Sched => SchedProcAt(pc'[x].main)
  PROVE  CpuInv'
<1>1. Types' /\ ~panic'
  BY DEF CpuInv, Types, PcType
<1>2. \A y \in Contexts : ContextOK(y, pc'[y])
  BY DEF CpuInv
<1>3. CpuAt(cpu', locked', running', pc'[running'])
  OBVIOUS
<1>4. Suspended'
  <2>1. Sched \in Contexts /\ Procs \subseteq Contexts
    BY DEF Contexts
  <2> QED
    BY <2>1 DEF CpuInv, Suspended
<1>5. ProcMatches'
  BY DEF CpuInv, ProcMatches, SchedProcAt
<1>6. PlacedOnce'
  BY DEF CpuInv, PlacedOnce
<1> QED
  BY <1>1, <1>2, <1>3, <1>4, <1>5, <1>6 DEF CpuInv

(* The labels of the context after a local step fit.                       *)
LEMMA MovedFits ==
  ASSUME NEW x \in Contexts, NEW r \in [main : AllLabels, irq : AllLabels],
         NEW label \in AllLabels, ContextOK(x, r), Fits(x, r, label)
  PROVE  /\ ContextOK(x, Moved(r, label))
         /\ Here(Moved(r, label)) = label
         /\ Moved(r, label).irq = "off" <=> r.irq = "off"
         /\ r.irq = "off" => Moved(r, label).main = label
         /\ r.irq # "off" => Moved(r, label).main = r.main
BY DEF ContextOK, Fits, Moved, Here, HandlerLabels

(* Taking a spin lock.                                                     *)
LEMMA AcquireStep ==
  ASSUME CpuInv, NEW x \in Contexts, NEW k \in Locks, NEW from, NEW to,
         Acquire(x, k, from, to), Fits(x, pc[x], to),
         ~HeldAt(k, from), HeldAt(k, to),
         \A j \in Locks \ {k} : HeldAt(j, to) <=> HeldAt(j, from),
         from \notin {"iret", "start", "pick", "back"}, to # "back",
         x # Sched => StatusAt(to) = StatusAt(from)
  PROVE  CpuInv'
<1> DEFINE r == pc[x]
<1>1. At(x, from) /\ to \in AllLabels
  BY DEF Acquire, Fits, AllLabels
<1>2. /\ running = x /\ Here(r) = from /\ Fits(x, r, from)
      /\ r \in [main : AllLabels, irq : AllLabels]
      /\ ContextOK(x, r) /\ CpuAt(cpu, locked, x, r)
  BY <1>1, AtFits DEF CpuInv
<1>3. ~locked[k]
  BY <1>2 DEF CpuAt
<1>4. /\ cpu' = Pushcli(cpu) /\ locked' = [locked EXCEPT ![k] = TRUE]
      /\ Goto(x, to) /\ ~panic'
      /\ UNCHANGED <<running, proc, status, ready, waiting, intena>>
  BY <1>3 DEF Acquire, Check
<1>5. /\ pc' \in [Contexts -> [main : AllLabels, irq : AllLabels]]
      /\ pc'[x] = Moved(r, to)
      /\ \A y \in Contexts \ {x} : pc'[y] = pc[y]
  BY <1>1, <1>4, GotoMoves DEF CpuInv, Types
<1>6. /\ ContextOK(x, pc'[x]) /\ Here(pc'[x]) = to
      /\ pc'[x].irq = "off" <=> r.irq = "off"
      /\ r.irq = "off" => pc'[x].main = to
      /\ r.irq # "off" => pc'[x].main = r.main
  BY <1>1, <1>2, <1>5, MovedFits
<1>7. cpu \in [if : BOOLEAN, ncli : 0..3, intena : BOOLEAN]
  BY DEF CpuInv, Types
<1>8. locked' \in [Locks -> BOOLEAN] /\ locked \in [Locks -> BOOLEAN]
  BY <1>4 DEF CpuInv, Types
<1>9. /\ cpu' \in [if : BOOLEAN, ncli : 0..3, intena : BOOLEAN]
      /\ ~cpu'.if /\ cpu'.ncli = cpu.ncli + 1
      /\ cpu'.intena = IF cpu.ncli = 0 THEN cpu.if ELSE cpu.intena
  <2>1. cpu.ncli \in 0..2
    BY <1>2, <1>3, <1>8 DEF CpuAt, Locks
  <2> QED
    BY <1>4, <1>7, <2>1 DEF Pushcli
<1>10. locked'[k] /\ \A j \in Locks \ {k} : locked'[j] = locked[j]
  BY <1>4, <1>8
<1>11. \A j \in Locks : locked'[j] <=> HeldAt(j, to)
  BY <1>2, <1>10 DEF CpuAt
<1>12. CpuAt(cpu', locked', x, pc'[x])
  <2>1. cpu'.ncli = (IF locked'["qlock"] THEN 1 ELSE 0)
                      + (IF locked'["lk"] THEN 1 ELSE 0)
    BY <1>2, <1>3, <1>9, <1>10 DEF CpuAt, Locks
  <2>2. ~NoneHeld(to)
    BY DEF HeldAt, NoneHeld
  <2>3. cpu.ncli = 0 <=> NoneHeld(from)
    BY <1>2 DEF CpuAt, NoneHeld, HeldAt, Locks
  <2>4. r.irq # "off" => ~cpu'.intena
    BY <1>2, <1>9, <2>3 DEF CpuAt
  <2>5. r.irq = "off" /\ x # Sched => cpu'.intena
    BY <1>2, <1>9, <2>3 DEF CpuAt, Here
  <2> QED
    BY <1>6, <1>9, <1>11, <2>1, <2>2, <2>4, <2>5 DEF CpuAt
<1>13. x = Sched => SchedProcAt(pc'[x].main)
  BY <1>2, <1>6 DEF CpuInv, ProcMatches, SchedProcAt, Here
<1> QED
  BY <1>2, <1>4, <1>5, <1>6, <1>8, <1>9, <1>12, <1>13, LocalStep

(* Giving a spin lock back.                                                *)
LEMMA ReleaseStep ==
  ASSUME CpuInv, NEW x \in Contexts, NEW k \in Locks, NEW from, NEW to,
         Release(x, k, from, to), Fits(x, pc[x], to),
         HeldAt(k, from), ~HeldAt(k, to),
         \A j \in Locks \ {k} : HeldAt(j, to) <=> HeldAt(j, from),
         from = "start" => to = "iret",
         from \notin {"pick", "back"}, to \notin {"pick", "back"},
         x # Sched => StatusAt(to) = StatusAt(from)
  PROVE  CpuInv'
<1> DEFINE r == pc[x]
<1>1. At(x, from) /\ to \in AllLabels
  BY DEF Release, Fits, AllLabels
<1>2. /\ running = x /\ Here(r) = from /\ Fits(x, r, from)
      /\ r \in [main : AllLabels, irq : AllLabels]
      /\ ContextOK(x, r) /\ CpuAt(cpu, locked, x, r)
  BY <1>1, AtFits DEF CpuInv
<1>3. /\ cpu \in [if : BOOLEAN, ncli : 0..3, intena : BOOLEAN]
      /\ locked \in [Locks -> BOOLEAN]
  BY DEF CpuInv, Types
<1>4. locked[k] /\ ~cpu.if /\ cpu.ncli > 0
  <2>1. locked[k] /\ ~NoneHeld(from)
    BY <1>2 DEF CpuAt, HeldAt, NoneHeld
  <2> QED
    BY <1>2, <1>3, <2>1 DEF CpuAt, Locks
<1>5. /\ cpu' = Popcli(cpu) /\ locked' = [locked EXCEPT ![k] = FALSE]
      /\ Goto(x, to) /\ ~panic'
      /\ UNCHANGED <<running, proc, status, ready, waiting, intena>>
  BY <1>4 DEF Release, Check
<1>6. /\ pc' \in [Contexts -> [main : AllLabels, irq : AllLabels]]
      /\ pc'[x] = Moved(r, to)
      /\ \A y \in Contexts \ {x} : pc'[y] = pc[y]
  BY <1>1, <1>5, GotoMoves DEF CpuInv, Types
<1>7. /\ ContextOK(x, pc'[x]) /\ Here(pc'[x]) = to
      /\ pc'[x].irq = "off" <=> r.irq = "off"
      /\ r.irq = "off" => pc'[x].main = to
      /\ r.irq # "off" => pc'[x].main = r.main
  BY <1>1, <1>2, <1>6, MovedFits
<1>8. locked' \in [Locks -> BOOLEAN]
  BY <1>3, <1>5
<1>9. /\ cpu' \in [if : BOOLEAN, ncli : 0..3, intena : BOOLEAN]
      /\ cpu'.if <=> cpu.ncli = 1 /\ cpu.intena
      /\ cpu'.ncli = cpu.ncli - 1 /\ cpu'.intena = cpu.intena
  <2> DEFINE on == cpu.ncli = 1 /\ cpu.intena
  <2>1. cpu' = [cpu EXCEPT !.ncli = cpu.ncli - 1, !.if = on]
    BY <1>5 DEF Popcli
  <2>2. on \in BOOLEAN /\ cpu.ncli - 1 \in 0..3
    BY <1>3, <1>4
  <2>3. on <=> cpu.ncli = 1 /\ cpu.intena
    OBVIOUS
  <2> HIDE DEF on
  <2>4. /\ cpu' \in [if : BOOLEAN, ncli : 0..3, intena : BOOLEAN]
        /\ cpu'.if = on /\ cpu'.ncli = cpu.ncli - 1 /\ cpu'.intena = cpu.intena
    BY <1>3, <2>1, <2>2
  <2> QED
    BY <2>3, <2>4
<1>10. ~locked'[k] /\ \A j \in Locks \ {k} : locked'[j] = locked[j]
  BY <1>3, <1>5
<1>11. \A j \in Locks : locked'[j] <=> HeldAt(j, to)
  BY <1>2, <1>10 DEF CpuAt
<1>12. CpuAt(cpu', locked', x, pc'[x])
  <2>1. cpu'.ncli = (IF locked'["qlock"] THEN 1 ELSE 0)
                      + (IF locked'["lk"] THEN 1 ELSE 0)
    BY <1>2, <1>4, <1>9, <1>10 DEF CpuAt, Locks
  <2>2. ~NoneHeld(from)
    BY DEF HeldAt, NoneHeld
  <2>3. cpu'.ncli = 0 <=> NoneHeld(to)
    BY <1>11, <2>1 DEF NoneHeld, HeldAt, Locks
  <2>4. r.irq # "off" => ~cpu'.intena
    BY <1>2, <1>9, <2>2 DEF CpuAt
  <2>5. r.irq = "off" /\ x # Sched /\ from # "start" => cpu'.intena
    BY <1>2, <1>9, <2>2 DEF CpuAt, Here
  <2>6. cpu'.if => NoneHeld(to) /\ r.irq = "off"
    BY <1>3, <1>9, <2>3, <2>4
  <2>7. r.irq = "off" /\ x # Sched /\ NoneHeld(to) /\ to # "iret" => cpu'.if
    BY <1>3, <1>9, <2>3, <2>5
  <2>8. r.irq = "off" /\ x # Sched /\ ~NoneHeld(to) => cpu'.intena
    BY <2>5 DEF NoneHeld, QLabels, LkLabels
  <2> QED
    BY <1>7, <1>9, <1>11, <2>1, <2>4, <2>6, <2>7, <2>8 DEF CpuAt
<1>13. x = Sched => SchedProcAt(pc'[x].main)
  BY <1>2, <1>7 DEF CpuInv, ProcMatches, SchedProcAt, Here
<1> QED
  BY <1>2, <1>5, <1>6, <1>7, <1>8, <1>9, <1>12, <1>13, LocalStep

(* A step of a primitive that only goes on within the same locks.          *)
LEMMA PlainStep ==
  ASSUME CpuInv, NEW x \in Contexts, NEW from, NEW to,
         At(x, from), Goto(x, to), Fits(x, pc[x], to),
         UNCHANGED <<cpu, running, proc, locked, status, ready, waiting, intena,
                     panic>>,
         \A j \in Locks : HeldAt(j, to) <=> HeldAt(j, from),
         from \notin {"iret", "start", "pick", "back"},
         to \notin {"pick", "back"},
         x # Sched => StatusAt(to) = StatusAt(from)
  PROVE  CpuInv'
<1> DEFINE r == pc[x]
<1>1. to \in AllLabels
  BY DEF Fits, AllLabels
<1>2. /\ running = x /\ Here(r) = from /\ Fits(x, r, from)
      /\ r \in [main : AllLabels, irq : AllLabels]
      /\ ContextOK(x, r) /\ CpuAt(cpu, locked, x, r)
  BY AtFits DEF CpuInv
<1>3. /\ pc' \in [Contexts -> [main : AllLabels, irq : AllLabels]]
      /\ pc'[x] = Moved(r, to)
      /\ \A y \in Contexts \ {x} : pc'[y] = pc[y]
  BY <1>1, GotoMoves DEF CpuInv, Types
<1>4. /\ ContextOK(x, pc'[x]) /\ Here(pc'[x]) = to
      /\ pc'[x].irq = "off" <=> r.irq = "off"
      /\ r.irq = "off" => pc'[x].main = to
      /\ r.irq # "off" => pc'[x].main = r.main
  BY <1>1, <1>2, <1>3, MovedFits
<1>5. NoneHeld(to) <=> NoneHeld(from)
  BY DEF NoneHeld, HeldAt, Locks
<1>6. r.irq = "off" => r.main = from
  BY <1>2 DEF Here
<1>7. CpuAt(cpu, locked, x, pc'[x])
  BY <1>2, <1>4, <1>5, <1>6 DEF CpuAt
<1>8. x = Sched => SchedProcAt(pc'[x].main)
  BY <1>2, <1>4, <1>6 DEF CpuInv, ProcMatches, SchedProcAt
<1>9. /\ cpu' \in [if : BOOLEAN, ncli : 0..3, intena : BOOLEAN]
      /\ locked' \in [Locks -> BOOLEAN] /\ ~panic'
  BY DEF CpuInv, Types
<1> QED
  BY <1>2, <1>3, <1>4, <1>7, <1>8, <1>9, LocalStep

-----------------------------------------------------------------------------
(* Giving the CPU away and getting it back.                                *)

(* Here only a process is running: its status and place follow.            *)
LEMMA RunningProcess ==
  ASSUME CpuInv, NEW x \in Contexts, NEW label, At(x, label),
         label \notin SchedLabels, x # Sched \/ pc[x].irq = "off"
  PROVE  /\ x \in Procs /\ x # Sched /\ running = x /\ proc = x
         /\ status[x] = StatusAt(label)
         /\ x \notin Range(ready)
         /\ \A p \in Procs : p # x => status[p] # "RUNNING"
<1>1. running = x /\ Here(pc[x]) = label /\ Fits(x, pc[x], label)
  BY AtFits
<1>2. x # Sched
  BY <1>1 DEF Fits
<1>3. x \in Procs
  BY <1>2 DEF Contexts
<1>4. proc = x /\ status[x] = StatusAt(label)
  BY <1>1, <1>2 DEF CpuInv, ProcMatches
<1> QED
  BY <1>1, <1>2, <1>3, <1>4 DEF CpuInv, PlacedOnce

(* sleep enqueues the caller in the channel and marks it blocked.          *)
LEMMA BlockStep ==
  ASSUME CpuInv, NEW x \in Contexts, Block(x), x # Sched
  PROVE  CpuInv'
<1> DEFINE r == pc[x]
<1>1. At(x, "block") /\ Goto(x, "unguard")
  BY DEF Block
<1>2. /\ x \in Procs /\ x # Sched /\ running = x /\ proc = x
      /\ status[x] = "RUNNING" /\ x \notin Range(ready)
      /\ \A p \in Procs : p # x => status[p] # "RUNNING"
  BY <1>1, RunningProcess DEF SchedLabels, StatusAt
<1>3. /\ Here(r) = "block" /\ Fits(x, r, "block")
      /\ r \in [main : AllLabels, irq : AllLabels]
      /\ ContextOK(x, r) /\ CpuAt(cpu, locked, x, r)
  BY <1>1, <1>2, AtFits DEF CpuInv
<1>4. Fits(x, r, "unguard") /\ "unguard" \in AllLabels
  BY <1>3, CpuConstants
     DEF Fits, HandlerLabels, SchedLabels, MainLabels, AllLabels
<1>5. /\ pc' \in [Contexts -> [main : AllLabels, irq : AllLabels]]
      /\ pc'[x] = Moved(r, "unguard")
      /\ \A y \in Contexts \ {x} : pc'[y] = pc[y]
  BY <1>1, <1>4, GotoMoves DEF CpuInv, Types
<1>6. /\ ContextOK(x, pc'[x]) /\ Here(pc'[x]) = "unguard"
      /\ pc'[x].irq = "off" <=> r.irq = "off"
      /\ r.irq = "off" => pc'[x].main = "unguard"
      /\ r.irq # "off" => pc'[x].main = r.main
  BY <1>3, <1>4, <1>5, MovedFits
<1>7. CpuAt(cpu, locked, x, pc'[x])
  <2>1. \A j \in Locks : HeldAt(j, "block") <=> HeldAt(j, "unguard")
    BY DEF HeldAt, QLabels, LkLabels
  <2>2. ~NoneHeld("block") /\ ~NoneHeld("unguard")
    BY DEF NoneHeld, QLabels, LkLabels
  <2>3. r.irq = "off" => r.main = "block"
    BY <1>3 DEF Here
  <2> QED
    BY <1>3, <1>6, <2>1, <2>2, <2>3 DEF CpuAt
<1>8. /\ waiting \in Seq(Procs) /\ status \in [Procs -> {"READY", "RUNNING", "BLOCKED"}]
      /\ PlacedOnce
  BY DEF CpuInv, Types
<1>9. /\ waiting' = Append(waiting, x) /\ status' = [status EXCEPT ![x] = "BLOCKED"]
      /\ UNCHANGED <<cpu, running, proc, locked, ready, intena, panic>>
  BY <1>2 DEF Block
<1>10. /\ waiting' \in Seq(Procs) /\ Range(waiting') = Range(waiting) \cup {x}
       /\ IsInjective(waiting')
  <2>1. x \notin Range(waiting)
    BY <1>2, <1>8 DEF PlacedOnce
  <2> QED
    BY <1>2, <1>8, <1>9, <2>1, AppendRange DEF PlacedOnce
<1>11. /\ status' \in [Procs -> {"READY", "RUNNING", "BLOCKED"}]
       /\ status'[x] = "BLOCKED" /\ \A p \in Procs \ {x} : status'[p] = status[p]
  BY <1>2, <1>8, <1>9
<1>12. Types' /\ ~panic'
  BY <1>5, <1>9, <1>10, <1>11 DEF CpuInv, Types, PcType
<1>13. \A y \in Contexts : ContextOK(y, pc'[y])
  BY <1>5, <1>6 DEF CpuInv
<1>14. Suspended'
  <2>1. Sched \in Contexts /\ Procs \subseteq Contexts
    BY DEF Contexts
  <2> QED
    BY <1>2, <1>5, <1>9, <2>1 DEF CpuInv, Suspended
<1>15. ProcMatches'
  BY <1>2, <1>6, <1>9, <1>11 DEF ProcMatches, StatusAt
<1>16. PlacedOnce'
  BY <1>2, <1>8, <1>9, <1>10, <1>11 DEF PlacedOnce
<1>17. CpuAt(cpu', locked', running', pc'[running'])
  BY <1>2, <1>7, <1>9
<1> QED
  BY <1>12, <1>13, <1>14, <1>15, <1>16, <1>17 DEF CpuInv

(* sched: interrupts were on where a process went to sleep, and off where  *)
(* the clock made it yield; so intena is remembered.                       *)
LEMMA SwitchStep ==
  ASSUME CpuInv, NEW x \in Contexts, NEW from, NEW to,
         SwitchToScheduler(x, from, to),
         \/ from = "sched" /\ to = "woke"
         \/ from = "yielding" /\ to = "yielded"
  PROVE  CpuInv'
<1> DEFINE r == pc[x]
<1>1. At(x, from) /\ x \in Procs /\ x # Sched
  BY CpuConstants DEF SwitchToScheduler
<1>2. /\ running = x /\ proc = x /\ status[x] = StatusAt(from)
      /\ x \notin Range(ready)
      /\ \A p \in Procs : p # x => status[p] # "RUNNING"
  BY <1>1, RunningProcess DEF SchedLabels
<1>3. /\ Here(r) = from /\ Fits(x, r, from)
      /\ r \in [main : AllLabels, irq : AllLabels]
      /\ ContextOK(x, r) /\ CpuAt(cpu, locked, x, r)
  BY <1>1, <1>2, AtFits DEF CpuInv
<1>4. /\ cpu \in [if : BOOLEAN, ncli : 0..3, intena : BOOLEAN]
      /\ intena \in [Procs -> BOOLEAN] /\ locked \in [Locks -> BOOLEAN]
  BY DEF CpuInv, Types
<1>5. locked["qlock"] /\ ~locked["lk"] /\ cpu.ncli = 1 /\ ~cpu.if
  <2>1. HeldAt("qlock", from) /\ ~HeldAt("lk", from) /\ ~NoneHeld(from)
    BY DEF HeldAt, NoneHeld, QLabels, LkLabels
  <2> QED
    BY <1>3, <2>1 DEF CpuAt, Locks
<1>6. status[x] \in {"READY", "BLOCKED"}
  BY <1>2 DEF StatusAt
<1>7. /\ intena' = [intena EXCEPT ![x] = cpu.intena] /\ running' = Sched
      /\ Goto(x, to) /\ ~panic'
      /\ UNCHANGED <<cpu, proc, locked, status, ready, waiting>>
  BY <1>5, <1>6 DEF SwitchToScheduler, Check
<1>8. Fits(x, r, to) /\ to \in AllLabels
  BY <1>1, <1>3 DEF Fits, HandlerLabels, MainLabels, AllLabels
<1>9. /\ pc' \in [Contexts -> [main : AllLabels, irq : AllLabels]]
      /\ pc'[x] = Moved(r, to)
      /\ \A y \in Contexts \ {x} : pc'[y] = pc[y]
  BY <1>7, <1>8, GotoMoves DEF CpuInv, Types
<1>10. /\ ContextOK(x, pc'[x]) /\ Here(pc'[x]) = to
       /\ pc'[x].irq = "off" <=> r.irq = "off"
       /\ r.irq = "off" => pc'[x].main = to
  BY <1>3, <1>8, <1>9, MovedFits
<1>11. Sched \in Contexts /\ Procs \subseteq Contexts /\ Sched \notin Procs
  BY CpuConstants DEF Contexts
<1>12. pc[Sched] = [main |-> "back", irq |-> "off"] /\ pc'[Sched] = pc[Sched]
  BY <1>1, <1>2, <1>9, <1>11 DEF CpuInv, Suspended
<1>13. Types' /\ ~panic'
  <2>1. intena' \in [Procs -> BOOLEAN]
    BY <1>4, <1>7
  <2> QED
    BY <1>7, <1>9, <1>11, <2>1 DEF CpuInv, Types, PcType
<1>14. \A y \in Contexts : ContextOK(y, pc'[y])
  BY <1>9, <1>10 DEF CpuInv
<1>15. CpuAt(cpu', locked', running', pc'[running'])
  <2>1. HeldAt("qlock", "back") /\ ~HeldAt("lk", "back")
    BY DEF HeldAt, QLabels, LkLabels
  <2>2. Here(pc[Sched]) = "back" /\ pc[Sched].irq = "off"
    BY <1>12 DEF Here
  <2> QED
    BY <1>5, <1>7, <1>12, <2>1, <2>2 DEF CpuAt, Locks
<1>16. Suspended'
  <2>1. intena'[x] = cpu.intena /\ \A p \in Procs \ {x} : intena'[p] = intena[p]
    BY <1>1, <1>4, <1>7
  <2>2. \/ pc'[x].irq = "off" /\ pc'[x].main = "woke" /\ intena'[x] = TRUE
        \/ pc'[x].irq = "yielded" /\ intena'[x] = FALSE
    <3>1. CASE from = "sched"
      <4>1. r.irq = "off" /\ r.main = "sched"
        BY <1>1, <1>3, <3>1 DEF Fits, Here, HandlerLabels
      <4>2. cpu.intena = TRUE
        BY <1>1, <1>3, <1>4, <4>1 DEF CpuAt, NoneHeld, QLabels
      <4> QED
        BY <1>10, <2>1, <3>1, <4>1, <4>2
    <3>2. CASE from = "yielding"
      <4>1. r.irq # "off"
        BY <1>1, <1>3, <3>2 DEF Fits, MainLabels
      <4>2. cpu.intena = FALSE
        BY <1>3, <1>4, <3>2, <4>1 DEF CpuAt, NoneHeld, QLabels
      <4>3. pc'[x].irq = "yielded"
        BY <1>10, <3>2, <4>1 DEF Here
      <4> QED
        BY <2>1, <4>2, <4>3
    <3> QED
      BY <3>1, <3>2
  <2>3. \A p \in Procs : p # x => pc'[p] = pc[p]
    BY <1>9, <1>11
  <2> QED
    BY <1>2, <1>7, <2>1, <2>2, <2>3 DEF CpuInv, Suspended
<1>17. ProcMatches'
  BY <1>1, <1>2, <1>6, <1>7, <1>12 DEF ProcMatches, SchedProcAt
<1>18. PlacedOnce'
  BY <1>2, <1>6, <1>7, <1>11 DEF CpuInv, PlacedOnce
<1> QED
  BY <1>13, <1>14, <1>15, <1>16, <1>17, <1>18 DEF CpuInv

(* The scheduler at one of its own labels.                                 *)
LEMMA SchedulerAt ==
  ASSUME CpuInv, NEW label \in SchedLabels, At(Sched, label)
  PROVE  /\ running = Sched /\ pc[Sched] = [main |-> label, irq |-> "off"]
         /\ SchedProcAt(label) /\ CpuAt(cpu, locked, Sched, pc[Sched])
         /\ Sched \in Contexts /\ Sched \notin Procs /\ Procs \subseteq Contexts
<1>1. Sched \in Contexts /\ Sched \notin Procs /\ Procs \subseteq Contexts
  BY CpuConstants DEF Contexts
<1>2. /\ running = Sched /\ Here(pc[Sched]) = label /\ Fits(Sched, pc[Sched], label)
      /\ pc[Sched] \in [main : AllLabels, irq : AllLabels]
  BY <1>1, AtFits
<1>3. pc[Sched].irq = "off" /\ pc[Sched].main = label
  BY <1>2 DEF Fits, Here, HandlerLabels, SchedLabels
<1>4. pc[Sched] = [main |-> label, irq |-> "off"]
  BY <1>2, <1>3
<1> QED
  BY <1>1, <1>2, <1>3, <1>4 DEF CpuInv, ProcMatches

(* Where it goes on.                                                       *)
LEMMA SchedulerMoves ==
  ASSUME CpuInv, NEW label \in SchedLabels, Goto(Sched, label),
         pc[Sched].irq = "off"
  PROVE  /\ pc' \in [Contexts -> [main : AllLabels, irq : AllLabels]]
         /\ pc'[Sched] = [main |-> label, irq |-> "off"]
         /\ \A y \in Contexts \ {Sched} : pc'[y] = pc[y]
<1>1. PcType /\ Sched \in Contexts /\ label \in AllLabels
  BY DEF CpuInv, Types, Contexts, AllLabels
<1>2. Moved(pc[Sched], label) = [main |-> label, irq |-> "off"]
  BY DEF Moved
<1> QED
  BY <1>1, <1>2, GotoMoves

(* The scheduler's loop turns interrupts on.                               *)
LEMMA StiStep ==
  ASSUME CpuInv, Sti
  PROVE  CpuInv'
<1>1. At(Sched, "sti") /\ Goto(Sched, "acquire")
  BY DEF Sti
<1>2. /\ running = Sched /\ pc[Sched] = [main |-> "sti", irq |-> "off"]
      /\ SchedProcAt("sti") /\ CpuAt(cpu, locked, Sched, pc[Sched])
      /\ Sched \in Contexts
  BY <1>1, SchedulerAt DEF SchedLabels
<1>3. /\ pc' \in [Contexts -> [main : AllLabels, irq : AllLabels]]
      /\ pc'[Sched] = [main |-> "acquire", irq |-> "off"]
      /\ \A y \in Contexts \ {Sched} : pc'[y] = pc[y]
  BY <1>1, <1>2, SchedulerMoves DEF SchedLabels
<1>4. cpu \in [if : BOOLEAN, ncli : 0..3, intena : BOOLEAN]
  BY DEF CpuInv, Types
<1>5. /\ cpu' \in [if : BOOLEAN, ncli : 0..3, intena : BOOLEAN]
      /\ cpu'.ncli = cpu.ncli
  BY <1>4 DEF Sti
<1>6. NoneHeld("sti") /\ NoneHeld("acquire")
  BY DEF NoneHeld, QLabels, LkLabels
<1>7. CpuAt(cpu', locked', Sched, pc'[Sched])
  <2>1. locked' = locked
    BY DEF Sti
  <2>2. Here(pc[Sched]) = "sti" /\ Here(pc'[Sched]) = "acquire"
    BY <1>2, <1>3 DEF Here
  <2>3. \A j \in Locks : HeldAt(j, "acquire") <=> HeldAt(j, "sti")
    BY DEF HeldAt, QLabels, LkLabels
  <2> QED
    BY <1>2, <1>3, <1>5, <1>6, <2>1, <2>2, <2>3 DEF CpuAt
<1>8. ContextOK(Sched, pc'[Sched])
  BY <1>3 DEF ContextOK, SchedLabels
<1>9. Sched = Sched => SchedProcAt(pc'[Sched].main)
  BY <1>2, <1>3 DEF SchedProcAt
<1>10. /\ UNCHANGED <<running, proc, status, ready, waiting, intena>> /\ ~panic'
       /\ locked' \in [Locks -> BOOLEAN]
  BY DEF Sti, CpuInv, Types
<1> QED
  BY <1>2, <1>3, <1>5, <1>7, <1>8, <1>9, <1>10, LocalStep

(* The scheduler finds no process ready.                                   *)
LEMMA NoneReadyStep ==
  ASSUME CpuInv, NoneReady
  PROVE  CpuInv'
<1>1. At(Sched, "pick") /\ Goto(Sched, "release")
  BY DEF NoneReady
<1>2. /\ running = Sched /\ pc[Sched] = [main |-> "pick", irq |-> "off"]
      /\ SchedProcAt("pick") /\ CpuAt(cpu, locked, Sched, pc[Sched])
      /\ Sched \in Contexts
  BY <1>1, SchedulerAt DEF SchedLabels
<1>3. /\ pc' \in [Contexts -> [main : AllLabels, irq : AllLabels]]
      /\ pc'[Sched] = [main |-> "release", irq |-> "off"]
      /\ \A y \in Contexts \ {Sched} : pc'[y] = pc[y]
  BY <1>1, <1>2, SchedulerMoves DEF SchedLabels
<1>4. CpuAt(cpu, locked, Sched, pc'[Sched])
  <2>1. Here(pc[Sched]) = "pick" /\ Here(pc'[Sched]) = "release"
    BY <1>2, <1>3 DEF Here
  <2>2. \A j \in Locks : HeldAt(j, "pick") <=> HeldAt(j, "release")
    BY DEF HeldAt, QLabels, LkLabels
  <2>3. ~NoneHeld("pick") /\ ~NoneHeld("release")
    BY DEF NoneHeld, QLabels, LkLabels
  <2> QED
    BY <1>2, <1>3, <2>1, <2>2, <2>3 DEF CpuAt
<1>5. ContextOK(Sched, pc'[Sched])
  BY <1>3 DEF ContextOK, SchedLabels
<1>6. proc = NoProc
  <2> SUFFICES ASSUME proc # NoProc PROVE FALSE
    OBVIOUS
  <2>1. proc \in Procs /\ ready \in Seq(Procs)
    BY DEF CpuInv, Types
  <2>2. Append(ready, proc) # <<>>
    <3>1. Len(Append(ready, proc)) = Len(ready) + 1 /\ Len(ready) \in Nat
      BY <2>1
    <3> QED
      BY <3>1
  <2> QED
    BY <2>2 DEF NoneReady, Candidates
<1>7. Sched = Sched => SchedProcAt(pc'[Sched].main)
  BY <1>3, <1>6 DEF SchedProcAt
<1>8. /\ UNCHANGED <<cpu, locked, running, proc, status, ready, waiting, intena,
                     panic>>
      /\ cpu \in [if : BOOLEAN, ncli : 0..3, intena : BOOLEAN]
      /\ locked \in [Locks -> BOOLEAN] /\ ~panic
  BY DEF NoneReady, CpuInv, Types
<1> QED
  BY <1>2, <1>3, <1>4, <1>5, <1>7, <1>8, LocalStep

(* The scheduler has the CPU again.                                        *)
LEMMA BackStep ==
  ASSUME CpuInv, Back
  PROVE  CpuInv'
<1>1. At(Sched, "back")
  BY DEF Back
<1>2. /\ running = Sched /\ pc[Sched] = [main |-> "back", irq |-> "off"]
      /\ SchedProcAt("back") /\ CpuAt(cpu, locked, Sched, pc[Sched])
      /\ Sched \in Contexts /\ Sched \notin Procs /\ Procs \subseteq Contexts
  BY <1>1, SchedulerAt DEF SchedLabels
<1>3. proc \in Procs /\ status[proc] \in {"READY", "BLOCKED"}
  BY <1>2 DEF SchedProcAt
<1>4. locked["qlock"]
  BY <1>2 DEF CpuAt, Here, HeldAt, QLabels, Locks
<1>5. /\ proc' = IF status[proc] = "READY" THEN proc ELSE NoProc
      /\ Goto(Sched, "pick") /\ ~panic'
      /\ UNCHANGED <<cpu, running, locked, status, ready, waiting, intena>>
  BY <1>3, <1>4 DEF Back, Check
<1>6. /\ pc' \in [Contexts -> [main : AllLabels, irq : AllLabels]]
      /\ pc'[Sched] = [main |-> "pick", irq |-> "off"]
      /\ \A y \in Contexts \ {Sched} : pc'[y] = pc[y]
  BY <1>2, <1>5, SchedulerMoves DEF SchedLabels
<1>7. Types' /\ ~panic'
  BY <1>3, <1>5, <1>6 DEF CpuInv, Types, PcType
<1>8. \A y \in Contexts : ContextOK(y, pc'[y])
  <2>1. ContextOK(Sched, pc'[Sched])
    BY <1>6 DEF ContextOK, SchedLabels
  <2> QED
    BY <1>6, <2>1 DEF CpuInv
<1>9. CpuAt(cpu', locked', running', pc'[running'])
  <2>1. Here(pc[Sched]) = "back" /\ Here(pc'[Sched]) = "pick"
    BY <1>2, <1>6 DEF Here
  <2>2. \A j \in Locks : HeldAt(j, "pick") <=> HeldAt(j, "back")
    BY DEF HeldAt, QLabels, LkLabels
  <2>3. ~NoneHeld("pick") /\ ~NoneHeld("back")
    BY DEF NoneHeld, QLabels, LkLabels
  <2> QED
    BY <1>2, <1>5, <1>6, <2>1, <2>2, <2>3 DEF CpuAt
<1>10. Suspended'
  BY <1>2, <1>5, <1>6 DEF CpuInv, Suspended
<1>11. ProcMatches'
  BY <1>2, <1>3, <1>5, <1>6 DEF ProcMatches, SchedProcAt
<1>12. PlacedOnce'
  BY <1>2, <1>3, <1>5, CpuConstants DEF CpuInv, PlacedOnce
<1> QED
  BY <1>7, <1>8, <1>9, <1>10, <1>11, <1>12 DEF CpuInv

(* The dispatch: whoever is resumed finds interrupts and locks as it left  *)
(* them.                                                                   *)
LEMMA ResumeStep ==
  ASSUME CpuInv, NEW p \in Procs, Resume(p)
  PROVE  CpuInv'
<1>1. At(Sched, "pick") /\ Goto(Sched, "back")
  BY DEF Resume
<1>2. /\ running = Sched /\ pc[Sched] = [main |-> "pick", irq |-> "off"]
      /\ SchedProcAt("pick") /\ CpuAt(cpu, locked, Sched, pc[Sched])
      /\ Sched \in Contexts /\ Sched \notin Procs /\ Procs \subseteq Contexts
      /\ p # Sched
  BY <1>1, SchedulerAt DEF SchedLabels
<1>3. /\ pc' \in [Contexts -> [main : AllLabels, irq : AllLabels]]
      /\ pc'[Sched] = [main |-> "back", irq |-> "off"]
      /\ \A y \in Contexts \ {Sched} : pc'[y] = pc[y]
  BY <1>1, <1>2, SchedulerMoves DEF SchedLabels
<1>4. /\ cpu \in [if : BOOLEAN, ncli : 0..3, intena : BOOLEAN]
      /\ ready \in Seq(Procs) /\ intena \in [Procs -> BOOLEAN]
      /\ status \in [Procs -> {"READY", "RUNNING", "BLOCKED"}]
      /\ proc \in Procs \cup {NoProc}
  BY DEF CpuInv, Types
<1>5. PlacedOnce
  BY DEF CpuInv
<1> DEFINE c == Candidates
<1>6. /\ c \in Seq(Procs) /\ IsInjective(c)
      /\ \A q \in Procs : q \in Range(c) <=> status[q] = "READY"
  <2>1. CASE proc = NoProc
    BY <1>2, <1>4, <1>5, <2>1, CpuConstants DEF Candidates, PlacedOnce
  <2>2. CASE proc # NoProc
    <3>1. proc \in Procs /\ status[proc] = "READY" /\ proc \notin Range(ready)
      BY <1>2, <1>4, <1>5, <2>2 DEF SchedProcAt, PlacedOnce
    <3>2. /\ c = Append(ready, proc) /\ c \in Seq(Procs) /\ IsInjective(c)
          /\ Range(c) = Range(ready) \cup {proc}
      BY <1>4, <1>5, <2>2, <3>1, AppendRange DEF Candidates, PlacedOnce
    <3> QED
      BY <1>2, <1>5, <3>1, <3>2 DEF PlacedOnce
  <2> QED
    BY <2>1, <2>2
<1>7. /\ c # <<>> /\ p = Head(c) /\ ready' = Tail(c)
      /\ proc' = p /\ running' = p
      /\ status' = [status EXCEPT ![p] = "RUNNING"]
      /\ cpu' = [cpu EXCEPT !.intena = IF pc[p].main = "start" THEN @
                                       ELSE intena[p]]
      /\ UNCHANGED <<locked, waiting, intena, panic>>
  BY DEF Resume
<1> HIDE DEF c
<1>8. /\ ready' \in Seq(Procs) /\ IsInjective(ready')
      /\ p \in Range(c) /\ Range(ready') = Range(c) \ {p}
  BY <1>6, <1>7, TailRange
<1>9. /\ status[p] = "READY" /\ status'[p] = "RUNNING"
      /\ status' \in [Procs -> {"READY", "RUNNING", "BLOCKED"}]
      /\ \A q \in Procs \ {p} : status'[q] = status[q]
  BY <1>4, <1>6, <1>7, <1>8
<1>10. /\ cpu' \in [if : BOOLEAN, ncli : 0..3, intena : BOOLEAN]
       /\ cpu'.if = cpu.if /\ cpu'.ncli = cpu.ncli
       /\ pc[p].main # "start" => cpu'.intena = intena[p]
  <2>1. CASE pc[p].main = "start"
    BY <1>4, <1>7, <2>1
  <2>2. CASE pc[p].main # "start"
    <3>1. cpu' = [cpu EXCEPT !.intena = intena[p]] /\ intena[p] \in BOOLEAN
      BY <1>4, <1>7, <2>2
    <3> QED
      BY <1>4, <3>1
  <2> QED
    BY <2>1, <2>2
<1>11. Types' /\ ~panic'
  BY <1>2, <1>3, <1>7, <1>8, <1>9, <1>10 DEF CpuInv, Types, PcType
<1>12. \A y \in Contexts : ContextOK(y, pc'[y])
  <2>1. ContextOK(Sched, pc'[Sched])
    BY <1>3 DEF ContextOK, SchedLabels
  <2> QED
    BY <1>3, <2>1 DEF CpuInv
<1>13. pc'[p] = pc[p] /\ pc[p] \in [main : AllLabels, irq : AllLabels]
  BY <1>2, <1>3 DEF CpuInv, Types, PcType
<1>14. \/ pc[p].irq = "off" /\ pc[p].main = "start"
       \/ pc[p].irq = "off" /\ pc[p].main = "woke" /\ intena[p] = TRUE
       \/ pc[p].irq = "yielded" /\ intena[p] = FALSE
  BY <1>2 DEF CpuInv, Suspended
<1>15. ContextOK(p, pc[p])
  BY <1>2 DEF CpuInv
<1>16. Here(pc[p]) \in {"start", "woke", "yielded"}
  BY <1>14 DEF Here
<1>17. CpuAt(cpu', locked', running', pc'[running'])
  <2>1. Here(pc[Sched]) = "pick"
    BY <1>2 DEF Here
  <2>2. \A k \in Locks : HeldAt(k, "pick") <=> HeldAt(k, Here(pc[p]))
    BY <1>16 DEF HeldAt, QLabels, LkLabels
  <2>3. ~NoneHeld("pick") /\ ~NoneHeld(Here(pc[p]))
    BY <1>16 DEF NoneHeld, QLabels, LkLabels
  <2>4. ~cpu.if
    BY <1>2, <2>1, <2>3 DEF CpuAt
  <2>5. pc[p].irq # "off" => ~cpu'.intena
    <3>1. pc[p].irq # "off" => pc[p].main # "start"
      BY <1>15 DEF ContextOK, NoneHeld, QLabels
    <3> QED
      BY <1>10, <1>14, <3>1
  <2>6. pc[p].irq = "off" => ~NoneHeld(pc[p].main)
    BY <2>3 DEF Here
  <2>7. pc[p].irq = "off" /\ pc[p].main # "start" => cpu'.intena
    BY <1>10, <1>14
  <2>8. \A k \in Locks : locked'[k] <=> HeldAt(k, Here(pc[p]))
    BY <1>2, <1>7, <2>1, <2>2 DEF CpuAt
  <2>9. cpu'.ncli = (IF locked'["qlock"] THEN 1 ELSE 0)
                      + (IF locked'["lk"] THEN 1 ELSE 0)
    BY <1>2, <1>7, <1>10 DEF CpuAt
  <2> QED
    BY <1>7, <1>10, <1>13, <2>4, <2>5, <2>6, <2>7, <2>8, <2>9 DEF CpuAt
<1>18. Suspended'
  BY <1>2, <1>3, <1>7 DEF CpuInv, Suspended
<1>19. ProcMatches'
  <2>1. StatusAt(Here(pc[p])) = "RUNNING"
    BY <1>16 DEF StatusAt
  <2> QED
    BY <1>2, <1>7, <1>9, <1>13, <2>1 DEF ProcMatches
<1>20. PlacedOnce'
  <2>1. IsInjective(ready') /\ IsInjective(waiting')
    BY <1>5, <1>7, <1>8 DEF PlacedOnce
  <2>2. \A q \in Procs : q \in Range(waiting') <=> status'[q] = "BLOCKED"
    BY <1>5, <1>7, <1>9 DEF PlacedOnce
  <2>3. \A q \in Procs : q \in Range(ready') <=> status'[q] = "READY" /\ q # p
    BY <1>6, <1>8, <1>9
  <2>4. \A q \in Procs : status[q] # "RUNNING"
    BY <1>2, <1>5 DEF PlacedOnce
  <2> QED
    BY <1>2, <1>7, <1>9, <2>1, <2>2, <2>3, <2>4 DEF PlacedOnce
<1> QED
  BY <1>11, <1>12, <1>17, <1>18, <1>19, <1>20 DEF CpuInv

-----------------------------------------------------------------------------
(* Interrupts.                                                             *)

(* An interrupt comes where no lock is held, and its handler begins there. *)
LEMMA InterruptStep ==
  ASSUME CpuInv, NEW x \in Contexts, NEW handler \in HandlerLabels,
         Interrupt(x, handler), NoneHeld(handler), StatusAt(handler) = "RUNNING"
  PROVE  CpuInv'
<1> DEFINE r == pc[x]
<1>1. /\ running = x /\ cpu.if /\ r.irq = "off"
      /\ cpu' = [cpu EXCEPT !.if = FALSE]
      /\ pc' = [pc EXCEPT ![x].irq = handler]
      /\ UNCHANGED <<running, proc, locked, status, ready, waiting, intena, panic>>
  BY DEF Interrupt
<1>2. /\ cpu \in [if : BOOLEAN, ncli : 0..3, intena : BOOLEAN]
      /\ locked \in [Locks -> BOOLEAN] /\ ~panic
      /\ pc \in [Contexts -> [main : AllLabels, irq : AllLabels]]
      /\ ContextOK(x, r) /\ CpuAt(cpu, locked, x, r)
  BY <1>1 DEF CpuInv, Types, PcType
<1>3. handler \in AllLabels /\ handler # "off"
  BY DEF AllLabels, HandlerLabels
<1>4. /\ pc' \in [Contexts -> [main : AllLabels, irq : AllLabels]]
      /\ pc'[x].main = r.main /\ pc'[x].irq = handler
      /\ \A y \in Contexts \ {x} : pc'[y] = pc[y]
  BY <1>1, <1>2, <1>3
<1>5. /\ cpu' \in [if : BOOLEAN, ncli : 0..3, intena : BOOLEAN]
      /\ ~cpu'.if /\ cpu'.ncli = cpu.ncli
  BY <1>1, <1>2
<1>6. Here(r) = r.main /\ NoneHeld(r.main) /\ Here(pc'[x]) = handler
  BY <1>1, <1>2, <1>3, <1>4 DEF CpuAt, Here
<1>7. ContextOK(x, pc'[x])
  BY <1>2, <1>4, <1>6 DEF ContextOK
<1>8. CpuAt(cpu', locked', x, pc'[x])
  <2>1. \A k \in Locks : HeldAt(k, handler) <=> HeldAt(k, r.main)
    BY <1>6 DEF HeldAt, NoneHeld
  <2> QED
    BY <1>1, <1>2, <1>3, <1>4, <1>5, <1>6, <2>1 DEF CpuAt
<1>9. StatusAt(r.main) = "RUNNING"
  BY <1>2, <1>6, CpuConstants DEF NoneHeld, StatusAt, QLabels, ContextOK,
     MainLabels, SchedLabels
<1>10. x = Sched => SchedProcAt(pc'[x].main)
  BY <1>1, <1>4 DEF CpuInv, ProcMatches
<1> QED
  BY <1>1, <1>2, <1>4, <1>5, <1>6, <1>7, <1>8, <1>9, <1>10, LocalStep

(* The return from a handler, or of a new process to user mode.            *)
LEMMA IretStep ==
  ASSUME CpuInv, NEW x \in Contexts, Iret(x)
  PROVE  CpuInv'
<1> DEFINE r == pc[x]
<1>1. At(x, "iret")
  BY DEF Iret
<1>2. /\ running = x /\ Here(r) = "iret" /\ Fits(x, r, "iret")
      /\ r \in [main : AllLabels, irq : AllLabels]
      /\ ContextOK(x, r) /\ CpuAt(cpu, locked, x, r)
  BY <1>1, AtFits DEF CpuInv
<1>3. /\ cpu \in [if : BOOLEAN, ncli : 0..3, intena : BOOLEAN]
      /\ locked \in [Locks -> BOOLEAN]
      /\ pc \in [Contexts -> [main : AllLabels, irq : AllLabels]]
  BY DEF CpuInv, Types, PcType
<1>4. ~cpu.if \/ r.irq = "off"
  BY <1>2 DEF CpuAt
<1>5. /\ cpu' = [cpu EXCEPT !.if = TRUE]
      /\ pc' = IF r.irq = "off" THEN [pc EXCEPT ![x].main = "user"]
               ELSE [pc EXCEPT ![x].irq = "off"]
      /\ ~panic'
      /\ UNCHANGED <<running, proc, locked, status, ready, waiting, intena>>
  BY <1>4 DEF Iret, Check
<1>6. "user" \in AllLabels /\ "off" \in AllLabels
  BY DEF AllLabels, MainLabels
<1>7. /\ pc' \in [Contexts -> [main : AllLabels, irq : AllLabels]]
      /\ pc'[x].irq = "off"
      /\ pc'[x].main = IF r.irq = "off" THEN "user" ELSE r.main
      /\ \A y \in Contexts \ {x} : pc'[y] = pc[y]
  BY <1>3, <1>5, <1>6
<1>8. /\ cpu' \in [if : BOOLEAN, ncli : 0..3, intena : BOOLEAN]
      /\ cpu'.if /\ cpu'.ncli = cpu.ncli
  BY <1>3, <1>5
<1>9. r.irq = "off" => x # Sched
  BY <1>2 DEF Fits, SchedLabels
<1>10. ContextOK(x, pc'[x])
  BY <1>2, <1>7, <1>9 DEF ContextOK, MainLabels
<1>11. NoneHeld("iret") /\ NoneHeld(pc'[x].main) /\ Here(pc'[x]) = pc'[x].main
  BY <1>2, <1>7 DEF ContextOK, NoneHeld, QLabels, LkLabels, Here
<1>12. CpuAt(cpu', locked', x, pc'[x])
  <2>1. \A k \in Locks : HeldAt(k, "iret") <=> HeldAt(k, pc'[x].main)
    BY <1>11 DEF HeldAt, NoneHeld
  <2> QED
    BY <1>2, <1>5, <1>7, <1>8, <1>11, <2>1 DEF CpuAt
<1>13. StatusAt(pc'[x].main) = "RUNNING" /\ StatusAt("iret") = "RUNNING"
  BY <1>10, <1>11, CpuConstants DEF NoneHeld, StatusAt, QLabels, ContextOK,
     MainLabels, SchedLabels
<1>14. x = Sched => SchedProcAt(pc'[x].main)
  BY <1>2, <1>7, <1>9 DEF CpuInv, ProcMatches
<1>15. locked' \in [Locks -> BOOLEAN]
  BY <1>3, <1>5
<1> QED
  BY <1>2, <1>5, <1>7, <1>8, <1>10, <1>11, <1>12, <1>13, <1>14, <1>15, LocalStep

(* The clock makes the running process ready.                              *)
LEMMA YieldStep ==
  ASSUME CpuInv, NEW x \in Procs, Yield(x)
  PROVE  CpuInv'
<1> DEFINE r == pc[x]
<1>1. At(x, "yield") /\ Goto(x, "yielding") /\ x \in Contexts /\ x # Sched
  BY CpuConstants DEF Yield, Contexts
<1>2. /\ running = x /\ proc = x /\ x \notin Range(ready)
      /\ status[x] = "RUNNING"
      /\ \A p \in Procs : p # x => status[p] # "RUNNING"
  BY <1>1, RunningProcess DEF SchedLabels, StatusAt
<1>3. /\ Here(r) = "yield" /\ Fits(x, r, "yield")
      /\ r \in [main : AllLabels, irq : AllLabels]
      /\ ContextOK(x, r) /\ CpuAt(cpu, locked, x, r)
  BY <1>1, <1>2, AtFits DEF CpuInv
<1>4. Fits(x, r, "yielding") /\ "yielding" \in AllLabels /\ r.irq # "off"
  BY <1>1, <1>3 DEF Fits, HandlerLabels, MainLabels, AllLabels
<1>5. /\ pc' \in [Contexts -> [main : AllLabels, irq : AllLabels]]
      /\ pc'[x] = Moved(r, "yielding")
      /\ \A y \in Contexts \ {x} : pc'[y] = pc[y]
  BY <1>1, <1>4, GotoMoves DEF CpuInv, Types
<1>6. /\ ContextOK(x, pc'[x]) /\ Here(pc'[x]) = "yielding"
      /\ pc'[x].irq # "off" /\ pc'[x].main = r.main
  BY <1>1, <1>3, <1>4, <1>5, MovedFits
<1>7. status \in [Procs -> {"READY", "RUNNING", "BLOCKED"}] /\ PlacedOnce
  BY DEF CpuInv, Types
<1>8. /\ status' = [status EXCEPT ![x] = "READY"]
      /\ UNCHANGED <<cpu, running, proc, locked, ready, waiting, intena, panic>>
  BY <1>2 DEF Yield
<1>9. /\ status' \in [Procs -> {"READY", "RUNNING", "BLOCKED"}]
      /\ status'[x] = "READY" /\ \A p \in Procs \ {x} : status'[p] = status[p]
  BY <1>7, <1>8
<1>10. Types' /\ ~panic'
  BY <1>5, <1>8, <1>9 DEF CpuInv, Types, PcType
<1>11. \A y \in Contexts : ContextOK(y, pc'[y])
  BY <1>5, <1>6 DEF CpuInv
<1>12. CpuAt(cpu', locked', running', pc'[running'])
  <2>1. \A k \in Locks : HeldAt(k, "yield") <=> HeldAt(k, "yielding")
    BY DEF HeldAt, QLabels, LkLabels
  <2>2. ~NoneHeld("yield") /\ ~NoneHeld("yielding")
    BY DEF NoneHeld, QLabels, LkLabels
  <2> QED
    BY <1>2, <1>3, <1>4, <1>6, <1>8, <2>1, <2>2 DEF CpuAt
<1>13. Suspended'
  <2>1. Sched \in Contexts /\ Procs \subseteq Contexts
    BY DEF Contexts
  <2> QED
    BY <1>1, <1>2, <1>5, <1>8, <2>1 DEF CpuInv, Suspended
<1>14. ProcMatches'
  BY <1>1, <1>2, <1>6, <1>8, <1>9 DEF ProcMatches, StatusAt
<1>15. PlacedOnce'
  <2>1. x \notin Range(waiting)
    BY <1>2, <1>7 DEF PlacedOnce
  <2> QED
    BY <1>2, <1>7, <1>8, <1>9, <2>1 DEF PlacedOnce
<1> QED
  BY <1>10, <1>11, <1>12, <1>13, <1>14, <1>15 DEF CpuInv

-----------------------------------------------------------------------------
(* A wakeup: the processes of q leave the channel for the ready queue.     *)
LEMMA MakeReadyStep ==
  ASSUME CpuInv, NEW x \in Contexts, NEW q \in Seq(Procs), NEW rest \in Seq(Procs),
         MakeReady(x, "dequeue", q, rest, "woken"),
         IsInjective(q), IsInjective(rest),
         Range(q) \subseteq Range(waiting), Range(rest) = Range(waiting) \ Range(q)
  PROVE  CpuInv'
<1> DEFINE r == pc[x]
<1>1. At(x, "dequeue") /\ Goto(x, "woken")
  BY DEF MakeReady
<1>2. /\ running = x /\ Here(r) = "dequeue" /\ Fits(x, r, "dequeue")
      /\ r \in [main : AllLabels, irq : AllLabels]
      /\ ContextOK(x, r) /\ CpuAt(cpu, locked, x, r)
  BY <1>1, AtFits DEF CpuInv
<1>3. Fits(x, r, "woken") /\ "woken" \in AllLabels
  BY <1>2 DEF Fits, HandlerLabels, SchedLabels, MainLabels, AllLabels
<1>4. /\ pc' \in [Contexts -> [main : AllLabels, irq : AllLabels]]
      /\ pc'[x] = Moved(r, "woken")
      /\ \A y \in Contexts \ {x} : pc'[y] = pc[y]
  BY <1>1, <1>3, GotoMoves DEF CpuInv, Types
<1>5. /\ ContextOK(x, pc'[x]) /\ Here(pc'[x]) = "woken"
      /\ pc'[x].irq = "off" <=> r.irq = "off"
      /\ r.irq = "off" => pc'[x].main = "woken"
      /\ r.irq # "off" => pc'[x].main = r.main
  BY <1>2, <1>3, <1>4, MovedFits
<1>6. /\ ready \in Seq(Procs) /\ waiting \in Seq(Procs)
      /\ status \in [Procs -> {"READY", "RUNNING", "BLOCKED"}] /\ PlacedOnce
  BY DEF CpuInv, Types
<1>7. /\ waiting' = rest /\ ready' = ready \o q
      /\ status' = [p \in Procs |-> IF p \in Range(q) THEN "READY" ELSE status[p]]
      /\ UNCHANGED <<cpu, running, proc, locked, intena, panic>>
  BY DEF MakeReady
<1>8. \A p \in Range(q) : p \in Procs /\ status[p] = "BLOCKED" /\ p \notin Range(ready)
  <2>1. Range(q) \subseteq Procs
    BY RangeOfSeq
  <2> QED
    BY <1>6, <2>1 DEF PlacedOnce
<1>9. /\ ready' \in Seq(Procs) /\ IsInjective(ready')
      /\ Range(ready') = Range(ready) \cup Range(q)
  BY <1>6, <1>7, <1>8, ConcatRange DEF PlacedOnce
<1>10. Types' /\ ~panic'
  BY <1>4, <1>6, <1>7, <1>9 DEF CpuInv, Types, PcType
<1>11. \A y \in Contexts : ContextOK(y, pc'[y])
  BY <1>4, <1>5 DEF CpuInv
<1>12. CpuAt(cpu', locked', running', pc'[running'])
  <2>1. \A k \in Locks : HeldAt(k, "dequeue") <=> HeldAt(k, "woken")
    BY DEF HeldAt, QLabels, LkLabels
  <2>2. ~NoneHeld("dequeue") /\ ~NoneHeld("woken")
    BY DEF NoneHeld, QLabels, LkLabels
  <2>3. r.irq = "off" => r.main = "dequeue"
    BY <1>2 DEF Here
  <2> QED
    BY <1>2, <1>5, <1>7, <2>1, <2>2, <2>3 DEF CpuAt
<1>13. Suspended'
  <2>1. Sched \in Contexts /\ Procs \subseteq Contexts
    BY DEF Contexts
  <2> QED
    BY <1>2, <1>4, <1>7, <2>1 DEF CpuInv, Suspended
<1>14. /\ x # Sched => proc = x /\ status[x] = "RUNNING" /\ x \in Procs
       /\ x = Sched => proc = NoProc /\ r.irq # "off"
  <2>1. x # Sched => proc = x /\ status[x] = "RUNNING" /\ x \in Procs
    BY <1>2 DEF CpuInv, ProcMatches, StatusAt, Contexts
  <2>2. ASSUME x = Sched PROVE proc = NoProc /\ r.irq # "off"
    <3>1. r.irq # "off"
      BY <1>2, <2>2 DEF Fits, SchedLabels
    <3>2. r.main \notin {"back", "pick"}
      BY <1>2, <3>1 DEF ContextOK, NoneHeld, QLabels
    <3> QED
      BY <1>2, <2>2, <3>1, <3>2 DEF CpuInv, ProcMatches, SchedProcAt
  <2> QED
    BY <2>1, <2>2
<1>15. x \notin Range(q)
  BY <1>8, <1>14, CpuConstants
<1>16. ProcMatches'
  <2>1. CASE x # Sched
    BY <1>2, <1>5, <1>7, <1>14, <1>15, <2>1 DEF ProcMatches, StatusAt
  <2>2. CASE x = Sched
    <3>1. pc'[Sched].main = r.main
      BY <1>5, <1>14, <2>2
    <3>2. r.main \notin {"back", "pick"}
      BY <1>2, <1>14, <2>2 DEF ContextOK, NoneHeld, QLabels
    <3> QED
      BY <1>2, <1>7, <1>14, <2>2, <3>1, <3>2 DEF ProcMatches, SchedProcAt
  <2> QED
    BY <2>1, <2>2
<1>17. PlacedOnce'
  <2>1. IsInjective(ready') /\ IsInjective(waiting')
    BY <1>7, <1>9
  <2>2. \A p \in Procs : status'[p] = IF p \in Range(q) THEN "READY" ELSE status[p]
    BY <1>7
  <2>3. \A p \in Procs : p \in Range(waiting') <=> status'[p] = "BLOCKED"
    BY <1>6, <1>7, <2>2 DEF PlacedOnce
  <2>4. \A p \in Range(q) : ~(p = proc /\ (running = p \/ running = Sched))
    BY <1>8, <1>2, <1>14, <1>15, CpuConstants
  <2>5. \A p \in Procs : p \in Range(ready') <=>
          status'[p] = "READY" /\ ~(p = proc /\ (running = p \/ running = Sched))
    BY <1>6, <1>8, <1>9, <2>2, <2>4 DEF PlacedOnce
  <2>6. \A p \in Procs : status'[p] = "RUNNING" => running = p /\ proc = p
    BY <1>6, <2>2 DEF PlacedOnce
  <2> QED
    BY <1>7, <2>1, <2>3, <2>5, <2>6 DEF PlacedOnce
<1> QED
  BY <1>10, <1>11, <1>12, <1>13, <1>16, <1>17 DEF CpuInv

-----------------------------------------------------------------------------
(* The actions of KernelCpu, as the primitives use them.                   *)

(* At the start every process is ready, in some order.                     *)
LEMMA InitCpuInv == CpuInit => CpuInv
<1> SUFFICES ASSUME CpuInit PROVE CpuInv
  OBVIOUS
<1> USE CpuConstants DEF CpuInit
<1>1. /\ Sched \in Contexts /\ Procs \subseteq Contexts
      /\ \A x \in Contexts : pc[x] =
           [main |-> IF x = Sched THEN "sti" ELSE "start", irq |-> "off"]
  BY DEF Contexts
<1>2. PcType
  BY DEF PcType, AllLabels, SchedLabels, MainLabels
<1>3. /\ ready \in Seq(Procs) /\ IsInjective(ready) /\ Range(ready) = Procs
  <2>1. Cardinality(Procs) \in Nat /\ IsFiniteSet(1..Cardinality(Procs))
        /\ Cardinality(1..Cardinality(Procs)) = Cardinality(Procs)
    BY FS_CardinalityType, FS_Interval
  <2>2. ready \in [1..Cardinality(Procs) -> Procs] /\ IsInjective(ready)
    OBVIOUS
  <2>3. ready \in Injection(1..Cardinality(Procs), Procs)
    BY <2>2 DEF IsInjective, Injection
  <2>4. ready \in Surjection(1..Cardinality(Procs), Procs)
    BY <2>1, <2>3, FS_Injection
  <2>5. Range(ready) = Procs
    BY <2>2, <2>4 DEF Surjection, Range
  <2> QED
    BY <2>1, <2>2, <2>5
<1>4. waiting \in Seq(Procs) /\ Range(waiting) = {} /\ IsInjective(waiting)
  BY DEF Range, IsInjective
<1>5. Types /\ ~panic
  BY <1>1, <1>2, <1>3, <1>4 DEF Types
<1>6. \A x \in Contexts : ContextOK(x, pc[x])
  BY <1>1 DEF ContextOK, SchedLabels, MainLabels, Contexts
<1>7. CpuAt(cpu, locked, running, pc[running])
  <2>1. Here(pc[Sched]) = "sti"
    BY <1>1 DEF Here
  <2> QED
    BY <1>1, <2>1 DEF CpuAt, HeldAt, NoneHeld, QLabels, LkLabels, Locks
<1>8. Suspended /\ ProcMatches
  BY <1>1 DEF Suspended, ProcMatches, SchedProcAt
<1>9. PlacedOnce
  BY <1>3, <1>4 DEF PlacedOnce
<1> QED
  BY <1>5, <1>6, <1>7, <1>8, <1>9 DEF CpuInv

(* Nothing changes.                                                        *)
LEMMA CpuUnchanged == CpuInv /\ UNCHANGED cpuVars => CpuInv'
BY DEF CpuInv, cpuVars, Types, PcType, Suspended, ProcMatches, SchedProcAt,
       PlacedOnce

(* Every step of the scheduler's loop.                                     *)
LEMMA SchedulerStep == CpuInv /\ Scheduler => CpuInv'
<1> SUFFICES ASSUME CpuInv, Scheduler PROVE CpuInv'
  OBVIOUS
<1>1. Sched \in Contexts /\ {"qlock"} \subseteq Locks
  BY DEF Contexts, Locks
<1>2. ASSUME Acquire(Sched, "qlock", "acquire", "pick") PROVE CpuInv'
  <2>1. Fits(Sched, pc[Sched], "acquire")
    BY <1>1, <1>2, AtFits DEF Acquire
  <2>2. Fits(Sched, pc[Sched], "pick")
    BY <2>1 DEF Fits, SchedLabels, HandlerLabels
  <2>3. /\ ~HeldAt("qlock", "acquire") /\ HeldAt("qlock", "pick")
        /\ \A j \in Locks \ {"qlock"} : HeldAt(j, "pick") <=> HeldAt(j, "acquire")
    BY DEF HeldAt, QLabels, LkLabels
  <2> QED
    BY <1>1, <1>2, <2>2, <2>3, AcquireStep
<1>3. ASSUME Release(Sched, "qlock", "release", "sti") PROVE CpuInv'
  <2>1. Fits(Sched, pc[Sched], "release")
    BY <1>1, <1>3, AtFits DEF Release
  <2>2. Fits(Sched, pc[Sched], "sti")
    BY <2>1 DEF Fits, SchedLabels, HandlerLabels
  <2>3. /\ HeldAt("qlock", "release") /\ ~HeldAt("qlock", "sti")
        /\ \A j \in Locks \ {"qlock"} : HeldAt(j, "sti") <=> HeldAt(j, "release")
    BY DEF HeldAt, QLabels, LkLabels
  <2> QED
    BY <1>1, <1>3, <2>2, <2>3, ReleaseStep
<1> QED
  BY <1>2, <1>3, StiStep, ResumeStep, NoneReadyStep, BackStep DEF Scheduler

(* Two labels of a primitive, or of a handler, between which it takes lock *)
(* k, gives it back, or only goes on.                                      *)
SameKind(from, to) ==
  /\ from \in MainLabels \cup HandlerLabels
  /\ from \in MainLabels => to \in MainLabels
  /\ from \in HandlerLabels => to \in HandlerLabels

Joins(from, to) ==
  /\ from \in (MainLabels \cup HandlerLabels) \ {"iret", "start"}
  /\ to \in MainLabels \cup HandlerLabels
  /\ StatusAt(to) = StatusAt(from)

Takes(k, from, to) ==
  /\ Joins(from, to) /\ ~HeldAt(k, from) /\ HeldAt(k, to)
  /\ \A j \in Locks \ {k} : HeldAt(j, to) <=> HeldAt(j, from)

Gives(k, from, to) ==
  /\ Joins(from, to) /\ HeldAt(k, from) /\ ~HeldAt(k, to)
  /\ \A j \in Locks \ {k} : HeldAt(j, to) <=> HeldAt(j, from)

Goes(from, to) ==
  /\ Joins(from, to)
  /\ \A j \in Locks : HeldAt(j, to) <=> HeldAt(j, from)

(* The next label fits if it is a label of the same kind.                  *)
LEMMA KindFits ==
  ASSUME CpuInv, NEW x \in Contexts, NEW from, NEW to, At(x, from),
         SameKind(from, to)
  PROVE  Fits(x, pc[x], to)
<1>1. Fits(x, pc[x], from)
  BY AtFits
<1> QED
  BY <1>1 DEF Fits, SameKind, SchedLabels, MainLabels, HandlerLabels

(* A primitive, or a handler, takes lock k.                                *)
LEMMA AcquireKeeps ==
  ASSUME CpuInv, NEW x \in Contexts, NEW k \in Locks, NEW from, NEW to,
         Acquire(x, k, from, to), SameKind(from, to), Takes(k, from, to)
  PROVE  CpuInv'
<1>1. Fits(x, pc[x], to)
  BY KindFits DEF Acquire
<1>2. from \notin {"iret", "start", "pick", "back"} /\ to # "back"
  BY DEF Takes, Joins, MainLabels, HandlerLabels
<1> QED
  BY <1>1, <1>2, AcquireStep DEF Takes, Joins

(* It gives lock k back.                                                   *)
LEMMA ReleaseKeeps ==
  ASSUME CpuInv, NEW x \in Contexts, NEW k \in Locks, NEW from, NEW to,
         Release(x, k, from, to), Fits(x, pc[x], to), Gives(k, from, to)
  PROVE  CpuInv'
<1>1. /\ from \notin {"pick", "back", "start"}
      /\ to \notin {"pick", "back"}
  BY DEF Gives, Joins, MainLabels, HandlerLabels
<1> QED
  BY <1>1, ReleaseStep DEF Gives, Joins

(* It goes on with the locks that it has.                                  *)
LEMMA GoKeeps ==
  ASSUME CpuInv, NEW x \in Contexts, NEW from, NEW to,
         At(x, from), Goto(x, to), SameKind(from, to), Goes(from, to),
         UNCHANGED <<cpu, running, proc, locked, status, ready, waiting, intena,
                     panic>>
  PROVE  CpuInv'
<1>1. Fits(x, pc[x], to)
  BY KindFits
<1>2. /\ from \notin {"iret", "start", "pick", "back"}
      /\ to \notin {"pick", "back"}
  BY DEF Goes, Joins, MainLabels, HandlerLabels
<1> QED
  BY <1>1, <1>2, PlainStep DEF Goes, Joins

(* The labels of sleep and of the clock handler.                           *)
LEMMA CpuKinds ==
  /\ SameKind("sleep", "block") /\ Takes("qlock", "sleep", "block")
  /\ SameKind("unguard", "sched") /\ Gives("lk", "unguard", "sched")
  /\ SameKind("woke", "reguard") /\ Gives("qlock", "woke", "reguard")
  /\ SameKind("reguard", "test") /\ Takes("lk", "reguard", "test")
  /\ SameKind("reguard", "waitDone") /\ Takes("lk", "reguard", "waitDone")
  /\ SameKind("clock", "yield") /\ Takes("qlock", "clock", "yield")
  /\ SameKind("yielded", "iret") /\ Gives("qlock", "yielded", "iret")
  /\ SameKind("start", "iret")
BY DEF SameKind, Takes, Gives, Joins, StatusAt, HeldAt, Locks, QLabels, LkLabels,
       MainLabels, HandlerLabels

(* sleep, from the label where its caller holds the guard to the label     *)
(* where it holds the guard again.                                         *)
LEMMA SleepingStep ==
  ASSUME CpuInv, NEW x \in Procs, NEW return \in {"test", "waitDone"},
         Sleeping(x, return)
  PROVE  CpuInv'
<1>0. x \in Contexts /\ x # Sched /\ "qlock" \in Locks /\ "lk" \in Locks
  BY CpuConstants DEF Contexts, Locks
<1>1. ASSUME Acquire(x, "qlock", "sleep", "block") PROVE CpuInv'
  BY <1>0, <1>1, AcquireKeeps, CpuKinds
<1>2. ASSUME Release(x, "lk", "unguard", "sched") PROVE CpuInv'
  <2>1. Fits(x, pc[x], "sched")
    BY <1>0, <1>2, KindFits, CpuKinds DEF Release
  <2> QED
    BY <1>0, <1>2, <2>1, ReleaseKeeps, CpuKinds
<1>3. ASSUME Release(x, "qlock", "woke", "reguard") PROVE CpuInv'
  <2>1. Fits(x, pc[x], "reguard")
    BY <1>0, <1>3, KindFits, CpuKinds DEF Release
  <2> QED
    BY <1>0, <1>3, <2>1, ReleaseKeeps, CpuKinds
<1>4. ASSUME Acquire(x, "lk", "reguard", return) PROVE CpuInv'
  BY <1>0, <1>4, AcquireKeeps, CpuKinds
<1> QED
  BY <1>0, <1>1, <1>2, <1>3, <1>4, BlockStep, SwitchStep DEF Sleeping

(* env_start, the clock and the returns from interrupts.                   *)
LEMMA ProcessStep ==
  ASSUME CpuInv, NEW x \in Procs,
         Start(x) \/ ClockHandler(x) \/ Iret(x) \/ ClockInterrupt(x)
  PROVE  CpuInv'
<1>0. x \in Contexts /\ x # Sched /\ "qlock" \in Locks /\ "lk" \in Locks
  BY CpuConstants DEF Contexts, Locks
<1>1. ASSUME Start(x) PROVE CpuInv'
  <2>1. Fits(x, pc[x], "iret")
    BY <1>0, <1>1, KindFits, CpuKinds DEF Start, Release
  <2>2. /\ HeldAt("qlock", "start") /\ ~HeldAt("qlock", "iret")
        /\ \A j \in Locks \ {"qlock"} : HeldAt(j, "iret") <=> HeldAt(j, "start")
        /\ StatusAt("iret") = StatusAt("start")
    BY DEF HeldAt, QLabels, LkLabels, StatusAt
  <2> QED
    BY <1>0, <1>1, <2>1, <2>2, ReleaseStep DEF Start
<1>2. ASSUME Acquire(x, "qlock", "clock", "yield") PROVE CpuInv'
  BY <1>0, <1>2, AcquireKeeps, CpuKinds
<1>3. ASSUME Release(x, "qlock", "yielded", "iret") PROVE CpuInv'
  <2>1. Fits(x, pc[x], "iret")
    BY <1>0, <1>3, KindFits, CpuKinds DEF Release
  <2> QED
    BY <1>0, <1>3, <2>1, ReleaseKeeps, CpuKinds
<1>4. ASSUME ClockInterrupt(x) PROVE CpuInv'
  <2>1. "clock" \in HandlerLabels /\ NoneHeld("clock") /\ StatusAt("clock") = "RUNNING"
    BY DEF NoneHeld, QLabels, LkLabels, HandlerLabels, StatusAt
  <2> QED
    BY <1>0, <1>4, <2>1, InterruptStep DEF ClockInterrupt
<1> QED
  BY <1>0, <1>1, <1>2, <1>3, <1>4, YieldStep, SwitchStep, IretStep
     DEF ClockHandler

-----------------------------------------------------------------------------
(* The steps that are the same whatever primitive is built on the CPU.     *)

(* The labels of the clock's handler.                                      *)
ClockLabels == {"off", "clock", "yield", "yielding", "yielded", "iret"}

(* A step of the scheduler moves nobody else and leaves the channel alone. *)
LEMMA SchedulerOnly ==
  ASSUME CpuInv, Scheduler, ~panic'
  PROVE  /\ waiting' = waiting
         /\ pc[Sched].irq = "off" /\ pc[Sched].main \in SchedLabels
         /\ pc'[Sched].irq = "off" /\ pc'[Sched].main \in SchedLabels
         /\ \A y \in Contexts \ {Sched} : pc'[y] = pc[y]
<1>1. ASSUME NEW from \in SchedLabels, NEW to \in SchedLabels,
             At(Sched, from), Goto(Sched, to), waiting' = waiting
      PROVE  /\ waiting' = waiting
             /\ pc[Sched].irq = "off" /\ pc[Sched].main \in SchedLabels
             /\ pc'[Sched].irq = "off" /\ pc'[Sched].main \in SchedLabels
             /\ \A y \in Contexts \ {Sched} : pc'[y] = pc[y]
  <2>1. pc[Sched] = [main |-> from, irq |-> "off"]
    BY <1>1, SchedulerAt
  <2>2. /\ pc'[Sched] = [main |-> to, irq |-> "off"]
        /\ \A y \in Contexts \ {Sched} : pc'[y] = pc[y]
    BY <1>1, <2>1, SchedulerMoves
  <2> QED
    BY <1>1, <2>1, <2>2
<1>2. {"sti", "acquire", "pick", "back", "release"} = SchedLabels
  BY DEF SchedLabels
<1>3. \E from, to \in SchedLabels :
        At(Sched, from) /\ Goto(Sched, to) /\ waiting' = waiting
  <2>1. Sti => At(Sched, "sti") /\ Goto(Sched, "acquire") /\ waiting' = waiting
    BY DEF Sti
  <2>2. Acquire(Sched, "qlock", "acquire", "pick")
          => At(Sched, "acquire") /\ Goto(Sched, "pick") /\ waiting' = waiting
    BY DEF Acquire, Check
  <2>3. (\E p \in Procs : Resume(p))
          => At(Sched, "pick") /\ Goto(Sched, "back") /\ waiting' = waiting
    BY DEF Resume
  <2>4. NoneReady => At(Sched, "pick") /\ Goto(Sched, "release") /\ waiting' = waiting
    BY DEF NoneReady
  <2>5. Back => At(Sched, "back") /\ Goto(Sched, "pick") /\ waiting' = waiting
    BY DEF Back, Check
  <2>6. Release(Sched, "qlock", "release", "sti")
          => At(Sched, "release") /\ Goto(Sched, "sti") /\ waiting' = waiting
    BY DEF Release, Check
  <2> QED
    BY <1>2, <2>1, <2>2, <2>3, <2>4, <2>5, <2>6 DEF Scheduler
<1> QED
  BY <1>1, <1>3

(* env_start, the clock and the returns from interrupts move the process   *)
(* in its handler, or on its way to user mode for the first time.          *)
LEMMA ProcessOnly ==
  ASSUME CpuInv, NEW x \in Procs, ~panic',
         Start(x) \/ ClockHandler(x) \/ Iret(x) \/ ClockInterrupt(x)
  PROVE  /\ waiting' = waiting /\ running = x
         /\ pc[x].irq \in ClockLabels /\ pc'[x].irq \in ClockLabels
         /\ pc[x].main = "start" \/ NoneHeld(pc[x].main)
         /\ \/ pc'[x].main = pc[x].main
            \/ pc[x].main \in {"start", "iret"} /\ pc'[x].main \in {"iret", "user"}
         /\ \A y \in Contexts \ {x} : pc'[y] = pc[y]
<1> DEFINE Result ==
      /\ waiting' = waiting /\ running = x
      /\ pc[x].irq \in ClockLabels /\ pc'[x].irq \in ClockLabels
      /\ pc[x].main = "start" \/ NoneHeld(pc[x].main)
      /\ \/ pc'[x].main = pc[x].main
         \/ pc[x].main \in {"start", "iret"} /\ pc'[x].main \in {"iret", "user"}
      /\ \A y \in Contexts \ {x} : pc'[y] = pc[y]
<1>1. /\ x \in Contexts /\ x # Sched /\ PcType
      /\ pc[x] \in [main : AllLabels, irq : AllLabels]
      /\ ContextOK(x, pc[x])
  BY CpuConstants DEF Contexts, CpuInv, Types, PcType
<1>2. ASSUME NEW from \in ClockLabels \ {"off", "iret"},
             NEW to \in ClockLabels \ {"off"}, At(x, from), Goto(x, to),
             waiting' = waiting
      PROVE  Result
  <2>1. running = x /\ Here(pc[x]) = from /\ to \in AllLabels
    BY <1>1, <1>2, AtFits DEF AllLabels, HandlerLabels, ClockLabels
  <2>2. pc[x].irq = from /\ pc[x].irq # "off"
    BY <1>1, <2>1 DEF Here, ContextOK, MainLabels, ClockLabels
  <2>3. pc'[x] = Moved(pc[x], to) /\ \A y \in Contexts \ {x} : pc'[y] = pc[y]
    BY <1>1, <1>2, <2>1, GotoMoves
  <2>4. NoneHeld(pc[x].main)
    BY <1>1, <2>2 DEF ContextOK
  <2> QED
    BY <1>2, <2>1, <2>2, <2>3, <2>4 DEF Moved
<1>3. ASSUME Start(x) PROVE Result
  <2>1. At(x, "start") /\ Goto(x, "iret") /\ waiting' = waiting
    BY <1>3 DEF Start, Release, Check
  <2>2. running = x /\ Here(pc[x]) = "start" /\ "iret" \in AllLabels
    BY <1>1, <2>1, AtFits DEF AllLabels, HandlerLabels
  <2>3. pc[x].irq = "off" /\ pc[x].main = "start"
    BY <1>1, <2>2 DEF Here, ContextOK, HandlerLabels
  <2>4. pc'[x] = Moved(pc[x], "iret") /\ \A y \in Contexts \ {x} : pc'[y] = pc[y]
    BY <1>1, <2>1, <2>2, GotoMoves
  <2> QED
    BY <2>1, <2>2, <2>3, <2>4 DEF Moved, ClockLabels
<1>4. ASSUME ClockHandler(x) PROVE Result
  <2>1. Acquire(x, "qlock", "clock", "yield") => Result
    BY <1>2 DEF Acquire, Check, ClockLabels
  <2>2. Yield(x) => Result
    BY <1>2 DEF Yield, ClockLabels
  <2>3. SwitchToScheduler(x, "yielding", "yielded") => Result
    BY <1>2 DEF SwitchToScheduler, Check, ClockLabels
  <2>4. Release(x, "qlock", "yielded", "iret") => Result
    BY <1>2 DEF Release, Check, ClockLabels
  <2> HIDE DEF Result
  <2> QED
    BY <1>4, <2>1, <2>2, <2>3, <2>4 DEF ClockHandler
<1>5. ASSUME Iret(x) PROVE Result
  <2>1. /\ At(x, "iret") /\ waiting' = waiting
        /\ pc' = IF pc[x].irq = "off" THEN [pc EXCEPT ![x].main = "user"]
                 ELSE [pc EXCEPT ![x].irq = "off"]
    BY <1>5 DEF Iret, Check
  <2>2. running = x /\ Here(pc[x]) = "iret"
    BY <1>1, <2>1, AtFits
  <2>3. NoneHeld("iret") /\ NoneHeld(pc[x].main)
    BY <1>1, <2>2 DEF ContextOK, Here, NoneHeld, QLabels, LkLabels
  <2>4. CASE pc[x].irq = "off"
    <3>1. pc'[x] = [pc[x] EXCEPT !.main = "user"]
          /\ \A y \in Contexts \ {x} : pc'[y] = pc[y]
      BY <1>1, <2>1, <2>4 DEF PcType
    <3> QED
      BY <1>1, <2>1, <2>2, <2>4, <2>3, <3>1 DEF Here, ClockLabels
  <2>5. CASE pc[x].irq # "off"
    <3>1. pc'[x] = [pc[x] EXCEPT !.irq = "off"]
          /\ \A y \in Contexts \ {x} : pc'[y] = pc[y]
      BY <1>1, <2>1, <2>5 DEF PcType
    <3> QED
      BY <1>1, <2>1, <2>2, <2>5, <2>3, <3>1 DEF Here, ClockLabels
  <2> QED
    BY <2>4, <2>5
<1>6. ASSUME ClockInterrupt(x) PROVE Result
  <2>1. /\ running = x /\ pc[x].irq = "off" /\ waiting' = waiting
        /\ pc' = [pc EXCEPT ![x].irq = "clock"] /\ cpu.if
    BY <1>6 DEF ClockInterrupt, Interrupt
  <2>2. NoneHeld(pc[x].main)
    BY <2>1 DEF CpuInv, CpuAt, Here
  <2>3. pc'[x] = [pc[x] EXCEPT !.irq = "clock"]
        /\ \A y \in Contexts \ {x} : pc'[y] = pc[y]
    BY <1>1, <2>1 DEF PcType
  <2> QED
    BY <1>1, <2>1, <2>3, <2>2 DEF ClockLabels
<1> HIDE DEF Result
<1>7. Result
  BY <1>3, <1>4, <1>5, <1>6
<1> QED
  BY <1>7 DEF Result

(* panic stays a Boolean, whatever happens.                                *)
LEMMA PanicTyped ==
  ASSUME panic \in BOOLEAN, NEW x, NEW from, NEW to, NEW k, NEW q, NEW rest,
         \/ Acquire(x, k, from, to) \/ Release(x, k, from, to)
         \/ SwitchToScheduler(x, from, to) \/ MakeReady(x, from, q, rest, to)
         \/ Scheduler \/ Start(x) \/ ClockHandler(x) \/ Iret(x)
         \/ ClockInterrupt(x) \/ Sleeping(x, to)
  PROVE  panic' \in BOOLEAN
<1>1. ASSUME NEW y, NEW a, NEW b, NEW j,
             Acquire(y, j, a, b) \/ Release(y, j, a, b) \/ SwitchToScheduler(y, a, b)
      PROVE  panic' \in BOOLEAN
  BY <1>1 DEF Acquire, Release, SwitchToScheduler, Check
<1>2. MakeReady(x, from, q, rest, to) => panic' \in BOOLEAN
  BY DEF MakeReady
<1>3. Scheduler => panic' \in BOOLEAN
  BY <1>1 DEF Scheduler, Sti, Resume, NoneReady, Back, Check
<1>4. Start(x) \/ ClockHandler(x) => panic' \in BOOLEAN
  BY <1>1 DEF Start, ClockHandler, Yield
<1>5. Iret(x) \/ ClockInterrupt(x) => panic' \in BOOLEAN
  BY DEF Iret, ClockInterrupt, Interrupt, Check
<1>6. Sleeping(x, to) => panic' \in BOOLEAN
  BY <1>1 DEF Sleeping, Block
<1> QED
  BY <1>1, <1>2, <1>3, <1>4, <1>5, <1>6

-----------------------------------------------------------------------------
(* The invariant gives the properties of KernelCpu.                        *)
LEMMA CpuInvGives == CpuInv => NoPanic /\ CpuInOrder
<1> SUFFICES ASSUME CpuInv PROVE NoPanic /\ CpuInOrder
  OBVIOUS
<1> DEFINE H == {k \in Locks : locked[k]}
           r == pc[running]
<1>1. /\ running \in Contexts /\ ContextOK(running, r)
      /\ CpuAt(cpu, locked, running, r)
      /\ locked \in [Locks -> BOOLEAN]
  BY DEF CpuInv, Types
<1>2. Cardinality(H) = (IF locked["qlock"] THEN 1 ELSE 0)
                         + (IF locked["lk"] THEN 1 ELSE 0)
  <2>1. /\ IsFiniteSet({}) /\ Cardinality({}) = 0
        /\ IsFiniteSet({"lk"}) /\ Cardinality({"lk"}) = 1
        /\ Cardinality({"qlock"}) = 1
    BY FS_EmptySet, FS_Singleton
  <2>2. Cardinality({"qlock", "lk"}) = 2
    <3>1. {"qlock", "lk"} = {"lk"} \cup {"qlock"} /\ "qlock" \notin {"lk"}
      OBVIOUS
    <3>2. Cardinality({"lk"} \cup {"qlock"}) = Cardinality({"lk"}) + 1
      BY <2>1, <3>1, FS_AddElement
    <3> QED
      BY <2>1, <3>1, <3>2
  <2>3. H = (IF locked["qlock"] THEN {"qlock"} ELSE {})
              \cup (IF locked["lk"] THEN {"lk"} ELSE {})
    BY DEF Locks
  <2>4. CASE locked["qlock"] /\ locked["lk"]
    <3>1. H = {"qlock", "lk"}
      BY <2>3, <2>4
    <3> QED
      BY <2>2, <2>4, <3>1
  <2>5. CASE locked["qlock"] /\ ~locked["lk"]
    <3>1. H = {"qlock"}
      BY <2>3, <2>5
    <3> QED
      BY <2>1, <2>5, <3>1
  <2>6. CASE ~locked["qlock"] /\ locked["lk"]
    <3>1. H = {"lk"}
      BY <2>3, <2>6
    <3> QED
      BY <2>1, <2>6, <3>1
  <2>7. CASE ~locked["qlock"] /\ ~locked["lk"]
    <3>1. H = {}
      BY <2>3, <2>7
    <3> QED
      BY <2>1, <2>7, <3>1
  <2> QED
    BY <2>4, <2>5, <2>6, <2>7
<1> HIDE DEF H
<1>3. Cardinality(H) = 0 <=> NoneHeld(Here(r))
  BY <1>1, <1>2 DEF CpuAt, NoneHeld, HeldAt, Locks
<1>4. InterruptsMatchLocks
  <2>1. cpu.ncli = Cardinality(H)
    BY <1>1, <1>2 DEF CpuAt
  <2>2. cpu.if => Cardinality(H) = 0 /\ r.irq = "off"
    BY <1>1, <1>3 DEF CpuAt
  <2>3. running \in Procs /\ Cardinality(H) = 0 /\ r.irq = "off"
          => cpu.if \/ r.main = "iret"
    BY <1>1, <1>3, CpuConstants DEF CpuAt, Here
  <2> QED
    BY <2>1, <2>2, <2>3 DEF InterruptsMatchLocks, H
<1> QED
  BY <1>4 DEF CpuInv, NoPanic, CpuInOrder
==============================================================================

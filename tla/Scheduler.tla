------------------------------ MODULE Scheduler ------------------------------
(***************************************************************************)
(* The process scheduler: kern/cpu/sched.c, kern/cpu/sched_helpers.c, the  *)
(* context switches of kern/proc/user_environment.c and the blocking       *)
(* channels of kern/conc/channel.c.                                        *)
(*                                                                         *)
(* There is one CPU (mycpu() is always CPUS[0]).  A section that holds     *)
(* ProcessQueues.qlock runs with interrupts off, so nothing comes between  *)
(* its acquire and its release, and one action stands for one section.     *)
(* Where control is between two sections is the variable phase:            *)
(*                                                                         *)
(*   "prompt"  the command prompt; the scheduler is stopped                *)
(*   "idle"    fos_scheduler before it takes qlock, interrupts on          *)
(*   "sched"   fos_scheduler's inner loop, about to call sched_next;       *)
(*             qlock is held, interrupts are off                           *)
(*   "run"     a process is on the CPU, in user or in kernel mode          *)
(***************************************************************************)
EXTENDS ListOps

CONSTANTS
  Envs,         \* slots of the array envs
  NoEnv,        \* the NULL environment
  MaxQueues,    \* most priorities schedPRIRR is given
  Chans,        \* blocking channels
  NoChan,       \* the NULL channel
  Thresholds,   \* values star_th is given
  MaxWait       \* cap of waited

ASSUME SchedConstants ==
  /\ NoEnv \notin Envs /\ NoChan \notin Chans
  /\ MaxQueues \in Nat \ {0}
  /\ Thresholds \subseteq Nat
  /\ MaxWait \in Nat
  /\ \A t \in Thresholds : t < MaxWait

VARIABLES
  scheduler_method,
  num_of_ready_queues,
  star_th,
  env_status,
  priority,
  waited,            \* timer_ticks() - waiting_ticks of a queued process
  channel,           \* the channel a blocked process sleeps on
  created,           \* the process sys_create_env has built, not yet queued
  env_new_queue,
  env_ready_queues,
  env_exit_queue,
  chan_queue,
  proc,              \* mycpu()->proc
  phase

queues == <<env_new_queue, env_ready_queues, env_exit_queue, chan_queue>>
config == <<scheduler_method, num_of_ready_queues, star_th>>
vars == <<config, env_status, priority, waited, channel, created, queues, proc,
          phase>>

(* The queues an array env_ready_queues can have, and those it has.        *)
Levels == 0..(MaxQueues - 1)
Used == 0..(num_of_ready_queues - 1)
Status == {"FREE", "NEW", "READY", "RUNNING", "BLOCKED", "EXIT"}

TypeOK ==
  /\ scheduler_method \in {"RR", "PRIRR"}
  /\ num_of_ready_queues \in 1..MaxQueues
  /\ star_th \in Thresholds
  /\ env_status \in [Envs -> Status]
  /\ priority \in [Envs -> Levels]
  /\ waited \in [Envs -> 0..MaxWait]
  /\ channel \in [Envs -> Chans \cup {NoChan}]
  /\ created \in [Envs -> Envs \cup {NoEnv}]
  /\ env_new_queue \in Seq(Envs)
  /\ env_ready_queues \in [Levels -> Seq(Envs)]
  /\ env_exit_queue \in Seq(Envs)
  /\ chan_queue \in [Chans -> Seq(Envs)]
  /\ proc \in Envs \cup {NoEnv}
  /\ phase \in {"prompt", "idle", "sched", "run"}

Init ==
  /\ scheduler_method = "RR" /\ num_of_ready_queues = 1
  /\ star_th \in Thresholds
  /\ env_status = [e \in Envs |-> "FREE"]
  /\ priority = [e \in Envs |-> 0]
  /\ waited = [e \in Envs |-> 0]
  /\ channel = [e \in Envs |-> NoChan]
  /\ created = [e \in Envs |-> NoEnv]
  /\ env_new_queue = <<>>
  /\ env_ready_queues = [p \in Levels |-> <<>>]
  /\ env_exit_queue = <<>>
  /\ chan_queue = [c \in Chans |-> <<>>]
  /\ proc = NoEnv
  /\ phase = "prompt"

-----------------------------------------------------------------------------
(* The ready queues.                                                       *)

(* sched_insert_ready applied to the processes of s, one after another.    *)
InsertReady(s) ==
  /\ env_status' = [e \in Envs |-> IF e \in Range(s) THEN "READY"
                                   ELSE env_status[e]]
  /\ waited' = [e \in Envs |-> IF e \in Range(s) THEN 0 ELSE waited[e]]
  /\ env_ready_queues' =
       [p \in Levels |-> env_ready_queues[p]
                           \o Keep(s, {e \in Envs : priority[e] = p})]

InReadyQueue(e) == \E p \in Levels : e \in Range(env_ready_queues[p])

(* A process with nothing half done is free to make the next call.  *)
Runs(e) == phase = "run" /\ proc = e /\ created[e] = NoEnv

-----------------------------------------------------------------------------
(* The command prompt.                                                     *)

(* CreateEnv takes a priority argument under PRIRR only; otherwise the new *)
(* process keeps the 0 of its zeroed slot.                                 *)
Created(e, p) ==
  /\ phase = "prompt" /\ env_status[e] = "FREE"
  /\ p \in IF scheduler_method = "PRIRR" THEN Used ELSE {0}
  /\ priority' = [priority EXCEPT ![e] = p]

(* load: env_create, then sched_new_env.                                   *)
Load(e, p) ==
  /\ Created(e, p)
  /\ env_status' = [env_status EXCEPT ![e] = "NEW"]
  /\ env_new_queue' = Append(env_new_queue, e)
  /\ UNCHANGED <<waited, channel, created, env_ready_queues, env_exit_queue,
                 chan_queue, proc, phase, config>>

(* run: the process is loaded, sched_run_env moves it on to its ready      *)
(* queue, finds the scheduler stopped and enters fos_scheduler.            *)
RunProgram(e, p) ==
  /\ Created(e, p)
  /\ env_status' = [env_status EXCEPT ![e] = "READY"]
  /\ waited' = [waited EXCEPT ![e] = 0]
  /\ env_ready_queues' = [env_ready_queues EXCEPT ![p] = Append(@, e)]
  /\ phase' = "idle" /\ proc' = NoEnv
  /\ UNCHANGED <<channel, created, env_new_queue, env_exit_queue, chan_queue,
                 config>>

(* runall: sched_run_all takes the NEW queue oldest first.                 *)
RunAll ==
  /\ phase = "prompt"
  /\ InsertReady(env_new_queue)
  /\ env_new_queue' = <<>>
  /\ phase' = "idle" /\ proc' = NoEnv
  /\ UNCHANGED <<priority, channel, created, env_exit_queue, chan_queue,
                 config>>

(* setStarvThr.                                                            *)
SetStarvThresh(t) ==
  /\ phase = "prompt"
  /\ star_th' = t
  /\ UNCHANGED <<scheduler_method, num_of_ready_queues, env_status, priority,
                 waited, channel, created, queues, proc, phase>>

(* schedRR and schedPRIRR: new, empty ready queues.  Neither command looks *)
(* at the priorities of loaded processes; with one that has no queue any   *)
(* more the next insertion would write past the array, so the model only   *)
(* takes the commands that leave every process a queue.                    *)
Queued(e) == env_status[e] \notin {"FREE", "EXIT"}

SchedInit(method, n, t) ==
  /\ phase = "prompt"
  /\ \A e \in Envs : Queued(e) => priority[e] < n
  /\ scheduler_method' = method
  /\ num_of_ready_queues' = n
  /\ star_th' = t
  /\ env_ready_queues' = [p \in Levels |-> <<>>]
  /\ UNCHANGED <<env_status, priority, waited, channel, created, env_new_queue,
                 env_exit_queue, chan_queue, proc, phase>>

SchedInitRR == SchedInit("RR", 1, star_th)
SchedInitPRIRR(n, t) == SchedInit("PRIRR", n, t)

-----------------------------------------------------------------------------
(* What a running process asks of the kernel.                              *)

(* sys_create_env: env_create runs with interrupts off, but they are on    *)
(* again before sched_new_env puts the new process in the NEW queue.       *)
CreateEnv(e, n) ==
  /\ Runs(e)
  /\ env_status[n] = "FREE"
  /\ env_status' = [env_status EXCEPT ![n] = "NEW"]
  /\ created' = [created EXCEPT ![e] = n]
  /\ UNCHANGED <<priority, waited, channel, queues, proc, phase, config>>

SchedNewEnv(e) ==
  /\ phase = "run" /\ proc = e /\ created[e] # NoEnv
  /\ env_new_queue' = Append(env_new_queue, created[e])
  /\ created' = [created EXCEPT ![e] = NoEnv]
  /\ UNCHANGED <<env_status, priority, waited, channel, env_ready_queues,
                 env_exit_queue, chan_queue, proc, phase, config>>

(* Fault: sys_run_env does not look for the process in the NEW queue.      *)
RunEnv_AnyProcess(e, t) ==
  /\ Runs(e)
  /\ env_new_queue' = Without(env_new_queue, t)
  /\ InsertReady(<<t>>)
  /\ UNCHANGED <<priority, channel, created, env_exit_queue, chan_queue, proc,
                 phase, config>>

(* sys_run_env: a process that is not in the NEW queue is left alone.      *)
RunEnv(e, t) ==
  /\ Runs(e)
  /\ t \in Range(env_new_queue)
  /\ env_new_queue' = Without(env_new_queue, t)
  /\ InsertReady(<<t>>)
  /\ UNCHANGED <<priority, channel, created, env_exit_queue, chan_queue, proc,
                 phase, config>>

(* env_set_priority, from the prompt or from a system call, on a process   *)
(* that waits in a ready queue: out of it, new priority, in again.         *)
SetPriorityReady(t, p) ==
  /\ env_status[t] = "READY" /\ InReadyQueue(t)
  /\ priority' = [priority EXCEPT ![t] = p]
  /\ waited' = [waited EXCEPT ![t] = 0]
  /\ env_ready_queues' =
       [l \in Levels |->
          LET rest == Without(env_ready_queues[l], t)
          IN  IF l = p THEN Append(rest, t) ELSE rest]
  /\ UNCHANGED <<env_status, env_new_queue>>

(* On any other process it is an assignment.                               *)
SetPriorityElse(t, p) ==
  /\ env_status[t] \notin {"FREE", "READY"}
  /\ priority' = [priority EXCEPT ![t] = p]
  /\ UNCHANGED <<env_status, waited, env_new_queue, env_ready_queues>>

EnvSetPriority(t, p) ==
  /\ phase = "prompt" \/ \E e \in Envs : Runs(e)
  /\ p \in Used
  /\ SetPriorityReady(t, p) \/ SetPriorityElse(t, p)
  /\ UNCHANGED <<channel, created, env_exit_queue, chan_queue, proc, phase,
                 config>>

(* sched: the process gives the CPU to fos_scheduler with its status set.  *)
Sched(e, status) ==
  /\ env_status' = [env_status EXCEPT ![e] = status]
  /\ phase' = "sched"
  /\ UNCHANGED <<proc, created, config>>

(* sleep on channel c, up to the context switch.                           *)
Sleep(e, c) ==
  /\ Runs(e)
  /\ chan_queue' = [chan_queue EXCEPT ![c] = Append(@, e)]
  /\ channel' = [channel EXCEPT ![e] = c]
  /\ Sched(e, "BLOCKED")
  /\ UNCHANGED <<priority, waited, env_new_queue, env_ready_queues,
                 env_exit_queue>>

(* env_exit: sched_exit_env on the running process.                        *)
ExitEnv(e) ==
  /\ Runs(e)
  /\ env_exit_queue' = Append(env_exit_queue, e)
  /\ Sched(e, "EXIT")
  /\ UNCHANGED <<priority, waited, channel, env_new_queue, env_ready_queues,
                 chan_queue>>

(* A wakeup comes from the running process, or from a device interrupt     *)
(* while a process runs or the scheduler is idle.  wakeup_one does not     *)
(* test for an empty channel: its callers do.                              *)
WakeupFrom(c, s, rest) ==
  /\ phase \in {"run", "idle"}
  /\ InsertReady(s)
  /\ channel' = [e \in Envs |-> IF e \in Range(s) THEN NoChan ELSE channel[e]]
  /\ chan_queue' = [chan_queue EXCEPT ![c] = rest]
  /\ UNCHANGED <<priority, created, env_new_queue, env_exit_queue, proc, phase,
                 config>>

(* Fault: the process is made ready and stays in the channel's queue.      *)
WakeupOne_NoDequeue(c) ==
  /\ chan_queue[c] # <<>>
  /\ WakeupFrom(c, <<Head(chan_queue[c])>>, chan_queue[c])

WakeupOne(c) ==
  /\ chan_queue[c] # <<>>
  /\ WakeupFrom(c, <<Head(chan_queue[c])>>, Tail(chan_queue[c]))

WakeupAll(c) ==
  /\ chan_queue[c] # <<>>
  /\ WakeupFrom(c, chan_queue[c], <<>>)

-----------------------------------------------------------------------------
(* The clock.                                                              *)

(* Faults: the scan starts at level 0; it finds nobody.                    *)
Expired_AllLevels(p) ==
  IF scheduler_method = "PRIRR"
  THEN {e \in Range(env_ready_queues[p]) : waited[e] >= star_th}
  ELSE {}

Expired_Never(p) == {}

(* The processes of level p that have waited star_th ticks; level 0 is     *)
(* not scanned.                                                            *)
Expired(p) ==
  IF scheduler_method = "PRIRR" /\ p \in Used \ {0}
  THEN {e \in Range(env_ready_queues[p]) : waited[e] >= star_th}
  ELSE {}

AllExpired == UNION {Expired(p) : p \in Levels}

(* The scan goes up from level 1, so a process moved to the level below is *)
(* not met again; each level is walked from its youngest process on.       *)
Promoted(p) == ForEachOrder(Keep(env_ready_queues[p], Expired(p)))

(* Fault: promoted processes are served before those already there.        *)
AgedQueues_PromotedFirst ==
  [p \in Levels |->
     (IF p + 1 \in Levels THEN Promoted(p + 1) ELSE <<>>)
       \o Keep(env_ready_queues[p], Range(env_ready_queues[p]) \ Expired(p))]

AgedQueues ==
  [p \in Levels |->
     Keep(env_ready_queues[p], Range(env_ready_queues[p]) \ Expired(p))
       \o (IF p + 1 \in Levels THEN Promoted(p + 1) ELSE <<>>)]

(* Fault: a starving process goes straight to the most urgent level.       *)
AgedPriority_ToTop(e) == IF e \in AllExpired THEN 0 ELSE priority[e]

AgedPriority(e) == IF e \in AllExpired THEN priority[e] - 1 ELSE priority[e]

CapWait(n) == IF n < MaxWait THEN n ELSE MaxWait

(* clock_interrupt_handler: age the ready queues, count the tick, yield.   *)
(* Interrupts are on while a process runs, half way through a system call  *)
(* too.                                                                    *)
ClockInterrupt(e) ==
  /\ phase = "run" /\ proc = e
  /\ priority' = [f \in Envs |-> AgedPriority(f)]
  /\ env_ready_queues' = AgedQueues
  /\ waited' = [f \in Envs |->
                  IF f \in AllExpired THEN CapWait(1)
                  ELSE IF InReadyQueue(f) THEN CapWait(waited[f] + 1)
                  ELSE waited[f]]
  /\ Sched(e, "READY")
  /\ UNCHANGED <<channel, env_new_queue, env_exit_queue, chan_queue>>

-----------------------------------------------------------------------------
(* fos_scheduler.                                                          *)

(* Fault: a process that yielded is the next to run.                       *)
Requeued_AtFront ==
  IF proc # NoEnv /\ env_status[proc] = "READY"
  THEN [env_ready_queues EXCEPT
          ![IF scheduler_method = "RR" THEN 0 ELSE priority[proc]] =
            <<proc>> \o @]
  ELSE env_ready_queues

(* sched_next puts a process that yielded back in its ready queue before   *)
(* it picks; under RR always in queue 0 and without a new waiting_ticks.   *)
Requeued ==
  IF proc # NoEnv /\ env_status[proc] = "READY"
  THEN [env_ready_queues EXCEPT
          ![IF scheduler_method = "RR" THEN 0 ELSE priority[proc]] = Append(@, proc)]
  ELSE env_ready_queues

RequeuedWait(e) ==
  IF e = proc /\ scheduler_method = "PRIRR" THEN 0 ELSE waited[e]

(* Fault: the queues are searched from the least urgent one.               *)
FirstNonEmpty_FromLast(q, p) ==
  q[p] # <<>> /\ \A l \in Levels : l > p => q[l] = <<>>

FirstNonEmpty(q, p) == q[p] # <<>> /\ \A l \in Levels : l < p => q[l] = <<>>

(* The head of the first queue that is not empty gets the CPU.  waited is  *)
(* only read of queued processes and is kept 0 for the others.             *)
Dispatch(e) ==
  /\ phase = "sched"
  /\ \E p \in Levels :
       /\ FirstNonEmpty(Requeued, p)
       /\ e = Head(Requeued[p])
       /\ env_ready_queues' = [Requeued EXCEPT ![p] = Tail(@)]
  /\ waited' = [f \in Envs |-> IF f = e THEN 0 ELSE RequeuedWait(f)]
  /\ env_status' = [env_status EXCEPT ![e] = "RUNNING"]
  /\ proc' = e /\ phase' = "run"
  /\ UNCHANGED <<priority, channel, created, env_new_queue, env_exit_queue,
                 chan_queue, config>>

(* Faults: mycpu()->proc is not cleared; blocked processes do not count.   *)
NothingReady_KeepsProc ==
  /\ phase = "sched"
  /\ \A p \in Levels : Requeued[p] = <<>>
  /\ phase' = IF \E e \in Envs : env_status[e] = "BLOCKED" THEN "idle"
              ELSE "prompt"
  /\ UNCHANGED <<env_status, priority, waited, channel, created, queues, proc,
                 config>>

NothingReady_IgnoresBlocked ==
  /\ phase = "sched"
  /\ \A p \in Levels : Requeued[p] = <<>>
  /\ proc' = NoEnv /\ phase' = "prompt"
  /\ UNCHANGED <<env_status, priority, waited, channel, created, queues,
                 config>>

(* With no ready process the scheduler waits for the blocked ones, or goes *)
(* back to the prompt when there are none.                                 *)
NothingReady ==
  /\ phase = "sched"
  /\ \A p \in Levels : Requeued[p] = <<>>
  /\ proc' = NoEnv
  /\ phase' = IF \E e \in Envs : env_status[e] = "BLOCKED" THEN "idle"
              ELSE "prompt"
  /\ UNCHANGED <<env_status, priority, waited, channel, created, queues,
                 config>>

(* The outer loop takes qlock again.                                       *)
Reacquire ==
  /\ phase = "idle"
  /\ phase' = "sched"
  /\ UNCHANGED <<env_status, priority, waited, channel, created, queues, proc,
                 config>>

-----------------------------------------------------------------------------
PromptCommand ==
  \/ \E e \in Envs, p \in Levels : Load(e, p) \/ RunProgram(e, p)
  \/ RunAll
  \/ \E t \in Thresholds : SetStarvThresh(t)
  \/ SchedInitRR
  \/ \E n \in 1..MaxQueues, t \in Thresholds : SchedInitPRIRR(n, t)

SystemCall(e) ==
  \/ \E n \in Envs : CreateEnv(e, n) \/ RunEnv(e, n)
  \/ SchedNewEnv(e)
  \/ \E c \in Chans : Sleep(e, c)
  \/ ExitEnv(e)

SetPriority == \E t \in Envs, p \in Levels : EnvSetPriority(t, p)
Wakeup == \E c \in Chans : WakeupOne(c) \/ WakeupAll(c)
Clock == \E e \in Envs : ClockInterrupt(e)
SchedulerStep == (\E e \in Envs : Dispatch(e)) \/ NothingReady \/ Reacquire

Next == \/ PromptCommand
        \/ \E e \in Envs : SystemCall(e)
        \/ SetPriority
        \/ Wakeup
        \/ Clock
        \/ SchedulerStep

Spec == Init /\ [][Next]_vars

(* fos_scheduler runs with nothing else on the CPU, and a process that     *)
(* keeps the CPU is interrupted at the end of its quantum.  Nothing obliges *)
(* a process to make a call or a device to wake anyone up.                 *)
FairSpec == Spec /\ WF_vars(SchedulerStep) /\ WF_vars(Clock)
-----------------------------------------------------------------------------
(* Properties.                                                             *)

(* A process between yield and its return to a ready queue.                *)
Yielded(e) == phase = "sched" /\ proc = e /\ env_status[e] = "READY"

(* Every process is in exactly the queue its status names, once, and in no *)
(* other: sched_insert_*, sched_remove_*, sleep and the wakeups never lose *)
(* a process, queue it twice or leave it behind in a second queue.  The    *)
(* two exceptions are a process just built and one that just yielded.      *)
QueuesMatchStatus ==
  /\ Range(env_new_queue) =
       {e \in Envs : env_status[e] = "NEW"} \ {created[f] : f \in Envs}
  /\ \A p \in Levels : Range(env_ready_queues[p]) =
       {e \in Envs : env_status[e] = "READY" /\ priority[e] = p /\ ~Yielded(e)}
  /\ Range(env_exit_queue) = {e \in Envs : env_status[e] = "EXIT"}
  /\ \A c \in Chans : Range(chan_queue[c]) =
       {e \in Envs : env_status[e] = "BLOCKED" /\ channel[e] = c}
  /\ \A e \in Envs : env_status[e] = "BLOCKED" <=> channel[e] # NoChan

NoDuplicates ==
  /\ IsInjective(env_new_queue)
  /\ \A p \in Levels : IsInjective(env_ready_queues[p])
  /\ IsInjective(env_exit_queue)
  /\ \A c \in Chans : IsInjective(chan_queue[c])

(* A process just built has one creator, which is still alive.             *)
CreatedOnce ==
  \A e \in Envs : created[e] # NoEnv =>
    /\ env_status[e] \in {"READY", "RUNNING"} /\ env_status[created[e]] = "NEW"
    /\ \A f \in Envs : created[f] = created[e] => f = e

QueueInvariant == QueuesMatchStatus /\ NoDuplicates /\ CreatedOnce

(* The running process is the one mycpu()->proc names, there is one only   *)
(* while the scheduler has handed the CPU over, and proc is forgotten      *)
(* whenever fos_scheduler waits or has returned: a stale proc would be put *)
(* in a ready queue a second time.                                         *)
CpuInvariant ==
  /\ \A e \in Envs : env_status[e] = "RUNNING" <=> (phase = "run" /\ proc = e)
  /\ phase = "run" => proc \in Envs
  /\ phase = "sched" /\ proc # NoEnv =>
       env_status[proc] \in {"READY", "BLOCKED", "EXIT"}
  /\ phase \in {"prompt", "idle"} => proc = NoEnv

(* Every process that can still be queued has a ready queue to go to.      *)
LevelInvariant ==
  /\ \A e \in Envs : Queued(e) => priority[e] < num_of_ready_queues
  /\ \A e \in Envs : env_status[e] = "FREE" => priority[e] = 0
  /\ scheduler_method = "RR" => num_of_ready_queues = 1

(* Aging: below the top level no process waits longer than star_th ticks   *)
(* before it is moved one level up; with a star_th of 0, which setStarvThr *)
(* accepts, no longer than the one tick that the move itself counts as.    *)
WaitBound ==
  \A p \in Levels \ {0} : \A e \in Range(env_ready_queues[p]) :
    waited[e] <= star_th \/ waited[e] <= 1

(* Every ready queue stays sorted by waiting time, whatever is promoted    *)
(* into it: the process dequeue takes is one that has waited longest.      *)
SortedByWait ==
  \A p \in Levels : \A i, j \in DOMAIN env_ready_queues[p] :
    i < j => waited[env_ready_queues[p][i]] >= waited[env_ready_queues[p][j]]

AgingOrder == WaitBound /\ SortedByWait

(* Back at the prompt nothing is left behind: every process that was ever  *)
(* made ready has run to its end.                                          *)
PromptIsQuiet ==
  phase = "prompt" =>
    \A e \in Envs : env_status[e] \in {"FREE", "NEW", "EXIT"}

(* The process that gets the CPU is one that nobody precedes: no process   *)
(* waits at a more urgent level, and none at its own has waited longer.    *)
MostUrgent(e) ==
  \A f \in Envs \ {e} :
    (env_status'[f] = "READY") =>
      \/ priority[f] > priority[e]
      \/ priority[f] = priority[e] /\ waited'[f] <= waited[e]

DispatchOrder ==
  [][\A e \in Envs : env_status[e] # "RUNNING" /\ env_status'[e] = "RUNNING"
        => MostUrgent(e)]_vars

(* No process jumps a level: between two visits to the CPU its priority    *)
(* number changes by the aging scan only one step at a time, after a full  *)
(* threshold of waiting, and never because somebody else is moved.         *)
AgingStep ==
  [][~SetPriority =>
       \A e \in Envs : priority'[e] # priority[e] =>
         \/ env_status[e] = "FREE"
         \/ /\ priority'[e] = priority[e] - 1
            /\ env_status[e] = "READY" /\ waited[e] >= star_th]_vars

(* The scheduler implements the life cycle of processes.                   *)
Life == INSTANCE ProcLifecycle
          WITH state <- env_status,
               running <- IF phase = "run" THEN proc ELSE NoEnv

LifeSpec == Life!Spec

(* A ready process gets the CPU as soon as the scheduler is RR for good    *)
(* and nobody sets priorities any more.  The second condition is needed:   *)
(* env_set_priority puts a waiting process behind all others even when it  *)
(* changes nothing.                                                        *)
ReadyRuns ==
  \A e \in Envs : env_status[e] = "READY" ~> env_status[e] = "RUNNING"

PrioritiesLeftAlone == <>[][~SetPriority]_vars

RoundRobinFair ==
  <>[](scheduler_method = "RR") /\ PrioritiesLeftAlone => ReadyRuns

(* Under PRIRR it does when, beside that, the clock keeps ticking.  This   *)
(* too is needed: the quantum starts anew at every dispatch and waiting is *)
(* counted in whole quanta, so urgent processes that always block early    *)
(* stop the aging of all others.                                           *)
AgingPreventsStarvation ==
  []<><<Clock>>_vars /\ PrioritiesLeftAlone => ReadyRuns
==============================================================================

--------------------------- MODULE SchedulerProofs ---------------------------
(***************************************************************************)
(* Proofs about the scheduler for any number of processes, priorities and  *)
(* channels: no process is ever lost or queued twice, the scheduler        *)
(* implements the life cycle of ProcLifecycle.tla, the ready queues stay   *)
(* sorted by waiting time, the process dispatched is one that nobody       *)
(* precedes, and aging moves a process one level at a time.                *)
(*                                                                         *)
(* QueueInvariant is not inductive as it stands.  The ready queues of a    *)
(* new scheduler are empty, which loses nobody only because the prompt is  *)
(* quiet; RR puts a process in queue 0, which is its queue only because    *)
(* LevelInvariant leaves it no other; and a process that yielded is missing *)
(* from its queue only while CpuInvariant says that it is the one proc     *)
(* names.  IInv is the conjunction of all of these.                        *)
(***************************************************************************)
EXTENDS Scheduler, ListOpsProofs

IInv ==
  /\ TypeOK
  /\ QueueInvariant
  /\ CpuInvariant
  /\ LevelInvariant
  /\ PromptIsQuiet

(* The initial state has only empty queues.                                *)
LEMMA EmptyQueue ==
  ASSUME NEW T
  PROVE  <<>> \in Seq(T) /\ Range(<<>>) = {} /\ IsInjective(<<>>)
BY DEF Range, IsInjective

LEMMA SingleQueue ==
  ASSUME NEW T, NEW e \in T
  PROVE  <<e>> \in Seq(T) /\ Range(<<e>>) = {e} /\ IsInjective(<<e>>)
<1>1. DOMAIN <<e>> = {1} /\ <<e>>[1] = e
  OBVIOUS
<1> QED
  BY <1>1 DEF Range, IsInjective

LEMMA InitIInv == Init => IInv
<1> SUFFICES ASSUME Init PROVE IInv
  OBVIOUS
<1> USE SchedConstants
<1>1. /\ <<>> \in Seq(Envs) /\ Range(<<>>) = {} /\ IsInjective(<<>>)
  BY EmptyQueue
<1>2. 0 \in Levels /\ 1 \in 1..MaxQueues /\ 0 \in 0..MaxWait
  BY DEF Levels
<1>3. TypeOK
  BY <1>1, <1>2 DEF TypeOK, Init, Status
<1>4. QueuesMatchStatus
  BY <1>1 DEF Init, QueuesMatchStatus
<1>5. NoDuplicates /\ CreatedOnce
  BY <1>1 DEF Init, NoDuplicates, CreatedOnce
<1>6. CpuInvariant /\ LevelInvariant /\ PromptIsQuiet
  BY DEF Init, CpuInvariant, LevelInvariant, PromptIsQuiet, Queued
<1> QED
  BY <1>3, <1>4, <1>5, <1>6 DEF IInv, QueueInvariant

(* sched_insert_ready puts each process of s in the ready queue of its     *)
(* priority and disturbs no other process, provided none of them is in a   *)
(* ready queue yet.                                                        *)
LEMMA InsertReadyQueues ==
  ASSUME TypeOK, QueueInvariant, NEW s \in Seq(Envs), IsInjective(s),
         InsertReady(s), \A e \in Range(s) : env_status[e] # "READY",
         priority' = priority, phase # "sched", phase' # "sched"
  PROVE  /\ env_status' \in [Envs -> Status]
         /\ \A e \in Envs :
              env_status'[e] = IF e \in Range(s) THEN "READY" ELSE env_status[e]
         /\ waited' \in [Envs -> 0..MaxWait]
         /\ env_ready_queues' \in [Levels -> Seq(Envs)]
         /\ \A p \in Levels : IsInjective(env_ready_queues'[p])
         /\ \A p \in Levels : Range(env_ready_queues'[p]) =
              {e \in Envs : /\ env_status'[e] = "READY" /\ priority'[e] = p
                            /\ ~(Yielded(e))'}
<1> DEFINE at(p) == {e \in Envs : priority[e] = p}
           k(p) == Keep(s, at(p))
<1>1. Range(s) \subseteq Envs
  BY RangeOfSeq
<1>2. \A p \in Levels : /\ k(p) \in Seq(Envs) /\ IsInjective(k(p))
                        /\ Range(k(p)) = {e \in Range(s) : priority[e] = p}
  BY <1>1, KeepProperties
<1>3. \A p \in Levels : /\ env_ready_queues[p] \in Seq(Envs)
                        /\ IsInjective(env_ready_queues[p])
                        /\ Range(env_ready_queues[p]) \cap Range(k(p)) = {}
  BY <1>2 DEF TypeOK, QueueInvariant, QueuesMatchStatus, NoDuplicates
<1>4. \A p \in Levels : env_ready_queues'[p] = env_ready_queues[p] \o k(p)
  BY DEF InsertReady
<1>5. ASSUME NEW p \in Levels
      PROVE  /\ env_ready_queues'[p] \in Seq(Envs)
             /\ Range(env_ready_queues'[p]) =
                  Range(env_ready_queues[p]) \cup Range(k(p))
             /\ IsInjective(env_ready_queues'[p])
  <2> HIDE DEF k
  <2> DEFINE q == env_ready_queues[p]
             r == k(p)
  <2>1. /\ q \in Seq(Envs) /\ r \in Seq(Envs) /\ IsInjective(q)
        /\ IsInjective(r) /\ Range(q) \cap Range(r) = {}
    BY <1>2, <1>3
  <2>2. env_ready_queues'[p] = q \o r
    BY <1>4
  <2> HIDE DEF q, r
  <2>3. /\ q \o r \in Seq(Envs) /\ Range(q \o r) = Range(q) \cup Range(r)
        /\ IsInjective(q \o r)
    BY <2>1, ConcatRange
  <2> QED
    BY <2>2, <2>3 DEF q, r
<1>6. env_ready_queues' \in [Levels -> Seq(Envs)]
  BY <1>5 DEF InsertReady
<1>7. env_status' \in [Envs -> Status] /\ waited' \in [Envs -> 0..MaxWait]
  BY SchedConstants DEF InsertReady, TypeOK, Status
<1>8. \A e \in Envs :
        env_status'[e] = IF e \in Range(s) THEN "READY" ELSE env_status[e]
  BY DEF InsertReady
<1>9. ASSUME NEW p \in Levels
      PROVE  Range(env_ready_queues'[p]) =
               {e \in Envs : /\ env_status'[e] = "READY" /\ priority'[e] = p
                             /\ ~(Yielded(e))'}
  <2> HIDE DEF k
  <2>1. Range(env_ready_queues[p]) =
          {e \in Envs : env_status[e] = "READY" /\ priority[e] = p}
    BY DEF QueueInvariant, QueuesMatchStatus, Yielded
  <2> QED
    BY <1>1, <1>2, <1>5, <1>8, <2>1 DEF Yielded
<1> QED
  BY <1>5, <1>6, <1>7, <1>8, <1>9

-----------------------------------------------------------------------------
(* One lemma for each action: it preserves the invariant.                  *)

LEMMA LoadStep ==
  ASSUME IInv, NEW e \in Envs, NEW p \in Levels, Load(e, p)
  PROVE  IInv'
<1> USE SchedConstants DEF IInv, QueueInvariant, Load, Created, config
<1>1. e \notin Range(env_new_queue)
  BY DEF QueuesMatchStatus
<1>2. /\ env_new_queue' \in Seq(Envs)
      /\ Range(env_new_queue') = Range(env_new_queue) \cup {e}
      /\ IsInjective(env_new_queue')
  BY <1>1, AppendRange DEF TypeOK, NoDuplicates
<1>3. TypeOK'
  BY <1>2 DEF TypeOK, Status
<1>4. \A f \in Envs : created[f] # e
  <2>1. env_status[e] = "FREE" /\ NoEnv \notin Envs
    OBVIOUS
  <2>2. CreatedOnce
    OBVIOUS
  <2> QED
    BY ONLY <2>1, <2>2 DEF CreatedOnce
<1>5. QueuesMatchStatus'
  <2>1. /\ env_status'[e] = "NEW" /\ env_status[e] = "FREE"
        /\ \A f \in Envs \ {e} : /\ env_status'[f] = env_status[f]
                                /\ priority'[f] = priority[f]
    BY DEF TypeOK
  <2>2. Range(env_new_queue') =
          {f \in Envs : env_status'[f] = "NEW"} \ {created'[f] : f \in Envs}
    BY <1>2, <1>4, <2>1 DEF QueuesMatchStatus
  <2>3. \A f \in Envs : \A st \in {"READY", "EXIT", "BLOCKED"} :
          env_status'[f] = st <=> env_status[f] = st
    BY <2>1
  <2> QED
    BY <2>1, <2>2, <2>3 DEF QueuesMatchStatus, Yielded
<1>6. NoDuplicates' /\ CreatedOnce'
  BY <1>2, <1>4 DEF NoDuplicates, CreatedOnce, TypeOK
<1>7. CpuInvariant' /\ LevelInvariant' /\ PromptIsQuiet'
  BY DEF CpuInvariant, LevelInvariant, PromptIsQuiet, Queued, TypeOK, Used, Levels
<1> QED
  BY <1>3, <1>5, <1>6, <1>7

(* A free slot straight into a ready queue.                                *)
LEMMA RunProgramStep ==
  ASSUME IInv, NEW e \in Envs, NEW p \in Levels, RunProgram(e, p)
  PROVE  IInv'
<1> USE SchedConstants DEF IInv, QueueInvariant, RunProgram, Created, config
<1>1. /\ env_ready_queues[p] \in Seq(Envs)
      /\ e \notin Range(env_ready_queues[p])
      /\ IsInjective(env_ready_queues[p])
  BY DEF TypeOK, QueuesMatchStatus, NoDuplicates
<1> DEFINE q == env_ready_queues[p]
<1>2. /\ Append(q, e) \in Seq(Envs)
      /\ Range(Append(q, e)) = Range(q) \cup {e}
      /\ IsInjective(Append(q, e))
  <2> HIDE DEF q
  <2> SUFFICES q \in Seq(Envs) /\ e \notin Range(q) /\ IsInjective(q)
    BY AppendRange
  <2> QED
    BY <1>1 DEF q
<1>3. /\ env_ready_queues'[p] = Append(q, e)
      /\ \A l \in Levels \ {p} : env_ready_queues'[l] = env_ready_queues[l]
  BY DEF TypeOK
<1>4. TypeOK'
  BY <1>2 DEF TypeOK, Status
<1>5. /\ env_status'[e] = "READY" /\ priority'[e] = p
      /\ \A f \in Envs \ {e} : /\ env_status'[f] = env_status[f]
                              /\ priority'[f] = priority[f]
  BY DEF TypeOK
<1> HIDE DEF q
<1>6. \A f \in Envs : created[f] # e
  <2>1. env_status[e] = "FREE" /\ NoEnv \notin Envs
    OBVIOUS
  <2>2. CreatedOnce
    OBVIOUS
  <2> QED
    BY ONLY <2>1, <2>2 DEF CreatedOnce
<1>7. ASSUME NEW l \in Levels
      PROVE  Range(env_ready_queues'[l]) =
               {f \in Envs : /\ env_status'[f] = "READY" /\ priority'[f] = l
                             /\ ~(Yielded(f))'}
  <2>1. Range(env_ready_queues[l]) =
          {f \in Envs : env_status[f] = "READY" /\ priority[f] = l}
    BY DEF QueuesMatchStatus, Yielded
  <2>2. CASE l = p
    BY <1>2, <1>3, <1>5, <2>1, <2>2 DEF Yielded, q
  <2>3. CASE l # p
    BY <1>3, <1>5, <2>1, <2>3 DEF Yielded
  <2> QED
    BY <2>2, <2>3
<1>8. \A f \in Envs : \A st \in {"NEW", "EXIT", "BLOCKED"} :
        env_status'[f] = st <=> env_status[f] = st
  BY <1>5
<1>9. QueuesMatchStatus'
  BY <1>7, <1>8 DEF QueuesMatchStatus
<1>10. NoDuplicates'
  BY <1>2, <1>3 DEF NoDuplicates
<1>11. CreatedOnce'
  BY <1>5, <1>6 DEF CreatedOnce, TypeOK
<1>12. CpuInvariant' /\ LevelInvariant' /\ PromptIsQuiet'
  BY <1>5 DEF CpuInvariant, LevelInvariant, PromptIsQuiet, Queued, TypeOK,
              Used, Levels
<1> QED
  BY <1>4, <1>9, <1>10, <1>11, <1>12

(* Making the processes of S ready leaves every pair of a creator and the  *)
(* process it has just built as it was.                                    *)
LEMMA CreatedOnceKept ==
  ASSUME CreatedOnce, created \in [Envs -> Envs \cup {NoEnv}],
         created' = created, NEW S,
         \A f \in Envs :
           env_status'[f] = IF f \in S THEN "READY" ELSE env_status[f],
         \A f \in Envs : created[f] \notin S
  PROVE  CreatedOnce'
<1> SUFFICES ASSUME NEW e \in Envs, created[e] # NoEnv
             PROVE  /\ env_status'[e] \in {"READY", "RUNNING"}
                    /\ env_status'[created[e]] = "NEW"
                    /\ \A f \in Envs : created[f] = created[e] => f = e
  BY DEF CreatedOnce
<1>1. /\ env_status[e] \in {"READY", "RUNNING"}
      /\ env_status[created[e]] = "NEW"
      /\ \A f \in Envs : created[f] = created[e] => f = e
  BY DEF CreatedOnce
<1>2. created[e] \in Envs
  OBVIOUS
<1> QED
  BY <1>1, <1>2

LEMMA RunAllStep ==
  ASSUME IInv, RunAll
  PROVE  IInv'
<1> USE SchedConstants DEF IInv, QueueInvariant, RunAll, config
<1> DEFINE N == Range(env_new_queue)
<1>1. N \subseteq Envs /\ \A e \in N : env_status[e] = "NEW"
  BY DEF QueuesMatchStatus
<1>2. \A e \in N : \A f \in Envs : created[f] # e
  BY DEF QueuesMatchStatus
<1>3. /\ env_new_queue' \in Seq(Envs) /\ Range(env_new_queue') = {}
      /\ IsInjective(env_new_queue')
  BY EmptyQueue
<1>4. /\ env_status' \in [Envs -> Status]
      /\ \A f \in Envs :
           env_status'[f] = IF f \in N THEN "READY" ELSE env_status[f]
      /\ waited' \in [Envs -> 0..MaxWait]
      /\ env_ready_queues' \in [Levels -> Seq(Envs)]
      /\ \A p \in Levels : IsInjective(env_ready_queues'[p])
      /\ \A p \in Levels : Range(env_ready_queues'[p]) =
           {f \in Envs : /\ env_status'[f] = "READY" /\ priority'[f] = p
                         /\ ~(Yielded(f))'}
  BY <1>1, InsertReadyQueues DEF TypeOK, NoDuplicates
<1>5. TypeOK'
  BY <1>3, <1>4 DEF TypeOK
<1>6. QueuesMatchStatus'
  <2>1. Range(env_new_queue') =
          {e \in Envs : env_status'[e] = "NEW"} \ {created'[f] : f \in Envs}
    BY <1>3, <1>4 DEF QueuesMatchStatus
  <2> HIDE DEF N
  <2>2. /\ Range(env_exit_queue') = {f \in Envs : env_status'[f] = "EXIT"}
        /\ \A c \in Chans : Range(chan_queue'[c]) =
             {f \in Envs : env_status'[f] = "BLOCKED" /\ channel'[f] = c}
        /\ \A f \in Envs : env_status'[f] = "BLOCKED" <=> channel'[f] # NoChan
    <3>1. \A f \in Envs : \A st \in {"EXIT", "BLOCKED"} :
            env_status'[f] = st <=> env_status[f] = st
      BY <1>1, <1>4
    <3> QED
      BY <3>1 DEF QueuesMatchStatus
  <2> QED
    BY <1>4, <2>1, <2>2 DEF QueuesMatchStatus
<1>7. NoDuplicates' /\ CreatedOnce'
  <2>1. NoDuplicates'
    BY <1>3, <1>4 DEF NoDuplicates
  <2> HIDE DEF N
  <2>2. CreatedOnce'
    <3>1. \A f \in Envs : created[f] \notin N
      BY <1>2
    <3>2. created' = created /\ created \in [Envs -> Envs \cup {NoEnv}]
      BY DEF TypeOK
    <3> QED
      BY ONLY <1>4, <3>1, <3>2, CreatedOnceKept, QueueInvariant
         DEF QueueInvariant
  <2> QED
    BY <2>1, <2>2
<1>8. CpuInvariant' /\ LevelInvariant' /\ PromptIsQuiet'
  BY <1>1, <1>4 DEF CpuInvariant, LevelInvariant, PromptIsQuiet, Queued, TypeOK
<1> QED
  BY <1>5, <1>6, <1>7, <1>8

LEMMA SetStarvThreshStep ==
  ASSUME IInv, NEW t \in Thresholds, SetStarvThresh(t)
  PROVE  IInv'
<1> USE DEF IInv, QueueInvariant, SetStarvThresh, queues
<1>1. TypeOK'
  BY DEF TypeOK
<1>2. QueuesMatchStatus' /\ NoDuplicates' /\ CreatedOnce'
  BY DEF QueuesMatchStatus, NoDuplicates, CreatedOnce, Yielded
<1>3. CpuInvariant' /\ LevelInvariant' /\ PromptIsQuiet'
  BY DEF CpuInvariant, LevelInvariant, PromptIsQuiet, Queued
<1> QED
  BY <1>1, <1>2, <1>3

(* The queues thrown away are empty: the prompt is quiet.                  *)
LEMMA SchedInitStep ==
  ASSUME IInv, NEW method \in {"RR", "PRIRR"}, NEW n \in 1..MaxQueues,
         NEW t \in Thresholds, SchedInit(method, n, t),
         method = "RR" => n = 1
  PROVE  IInv'
<1> USE DEF IInv, QueueInvariant, SchedInit
<1>1. <<>> \in Seq(Envs) /\ Range(<<>>) = {} /\ IsInjective(<<>>)
  BY EmptyQueue
<1>2. TypeOK'
  BY <1>1 DEF TypeOK
<1>3. \A e \in Envs : env_status[e] # "READY"
  BY DEF PromptIsQuiet
<1>4. QueuesMatchStatus'
  BY <1>1, <1>3 DEF QueuesMatchStatus
<1>5. NoDuplicates' /\ CreatedOnce'
  BY <1>1 DEF NoDuplicates, CreatedOnce
<1>6. CpuInvariant' /\ LevelInvariant' /\ PromptIsQuiet'
  BY DEF CpuInvariant, LevelInvariant, PromptIsQuiet, Queued
<1> QED
  BY <1>2, <1>4, <1>5, <1>6

LEMMA CreateEnvStep ==
  ASSUME IInv, NEW e \in Envs, NEW n \in Envs, CreateEnv(e, n)
  PROVE  IInv'
<1> USE SchedConstants DEF IInv, QueueInvariant, CreateEnv, Runs, queues, config
<1>1. TypeOK'
  BY DEF TypeOK, Status
<1>2. /\ env_status[e] = "RUNNING" /\ e # n
      /\ \A f \in Envs : created[f] # n
  BY DEF CpuInvariant, CreatedOnce
<1>3. /\ env_status'[n] = "NEW"
      /\ \A f \in Envs \ {n} : env_status'[f] = env_status[f]
      /\ created'[e] = n
      /\ \A f \in Envs \ {e} : created'[f] = created[f]
  BY DEF TypeOK
<1>4. Range(env_new_queue') =
        {f \in Envs : env_status'[f] = "NEW"} \ {created'[f] : f \in Envs}
  <2>1. n \notin Range(env_new_queue)
    BY DEF QueuesMatchStatus
  <2> QED
    BY <1>2, <1>3, <2>1 DEF QueuesMatchStatus
<1>5. QueuesMatchStatus'
  <2>1. \A f \in Envs : \A st \in {"READY", "EXIT", "BLOCKED"} :
          env_status'[f] = st <=> env_status[f] = st
    BY <1>3
  <2> QED
    BY <1>4, <2>1 DEF QueuesMatchStatus, Yielded
<1>6. NoDuplicates'
  BY DEF NoDuplicates
<1>7. CreatedOnce'
  BY <1>2, <1>3 DEF CreatedOnce
<1>8. CpuInvariant' /\ LevelInvariant' /\ PromptIsQuiet'
  BY <1>2, <1>3 DEF CpuInvariant, LevelInvariant, PromptIsQuiet, Queued, TypeOK
<1> QED
  BY <1>1, <1>5, <1>6, <1>7, <1>8

LEMMA SchedNewEnvStep ==
  ASSUME IInv, NEW e \in Envs, SchedNewEnv(e)
  PROVE  IInv'
<1> USE SchedConstants DEF IInv, QueueInvariant, SchedNewEnv, config
<1> DEFINE n == created[e]
<1>1. n \in Envs /\ env_status[n] = "NEW" /\ n \notin Range(env_new_queue)
  BY DEF TypeOK, CreatedOnce, QueuesMatchStatus
<1>2. /\ env_new_queue' \in Seq(Envs)
      /\ Range(env_new_queue') = Range(env_new_queue) \cup {n}
      /\ IsInjective(env_new_queue')
  BY <1>1, AppendRange DEF TypeOK, NoDuplicates
<1>3. TypeOK'
  BY <1>2 DEF TypeOK
<1>4. /\ created'[e] = NoEnv
      /\ \A f \in Envs \ {e} : created'[f] = created[f] /\ created[f] # n
  BY <1>1 DEF TypeOK, CreatedOnce
<1>5. Range(env_new_queue') =
        {f \in Envs : env_status'[f] = "NEW"} \ {created'[f] : f \in Envs}
  <2>1. \A x \in Envs : x \in {created'[f] : f \in Envs} <=>
                        x # n /\ x \in {created[f] : f \in Envs}
    BY <1>1, <1>4
  <2> HIDE DEF n
  <2> QED
    BY <1>1, <1>2, <2>1 DEF QueuesMatchStatus
<1>6. QueuesMatchStatus'
  BY <1>5 DEF QueuesMatchStatus, Yielded
<1>7. NoDuplicates'
  BY <1>2 DEF NoDuplicates
<1>8. CreatedOnce'
  BY <1>4 DEF CreatedOnce
<1>9. CpuInvariant' /\ LevelInvariant' /\ PromptIsQuiet'
  BY DEF CpuInvariant, LevelInvariant, PromptIsQuiet, Queued
<1> QED
  BY <1>3, <1>6, <1>7, <1>8, <1>9

LEMMA RunEnvStep ==
  ASSUME IInv, NEW e \in Envs, NEW t \in Envs, RunEnv(e, t)
  PROVE  IInv'
<1> USE SchedConstants DEF IInv, QueueInvariant, RunEnv, Runs, config
<1>1. env_status[t] = "NEW" /\ \A f \in Envs : created[f] # t
  BY DEF QueuesMatchStatus
<1>2. /\ env_new_queue' \in Seq(Envs)
      /\ Range(env_new_queue') = Range(env_new_queue) \ {t}
      /\ IsInjective(env_new_queue')
  BY WithoutRange DEF TypeOK, NoDuplicates
<1>3. /\ <<t>> \in Seq(Envs) /\ Range(<<t>>) = {t} /\ IsInjective(<<t>>)
  BY SingleQueue
<1>4. /\ env_status' \in [Envs -> Status]
      /\ \A f \in Envs :
           env_status'[f] = IF f \in {t} THEN "READY" ELSE env_status[f]
      /\ waited' \in [Envs -> 0..MaxWait]
      /\ env_ready_queues' \in [Levels -> Seq(Envs)]
      /\ \A p \in Levels : IsInjective(env_ready_queues'[p])
      /\ \A p \in Levels : Range(env_ready_queues'[p]) =
           {f \in Envs : /\ env_status'[f] = "READY" /\ priority'[f] = p
                         /\ ~(Yielded(f))'}
  BY <1>1, <1>3, InsertReadyQueues
<1>5. TypeOK'
  BY <1>2, <1>4 DEF TypeOK
<1>6. QueuesMatchStatus'
  <2>1. Range(env_new_queue') =
          {f \in Envs : env_status'[f] = "NEW"} \ {created'[f] : f \in Envs}
    BY <1>1, <1>2, <1>4 DEF QueuesMatchStatus
  <2>2. /\ Range(env_exit_queue') = {f \in Envs : env_status'[f] = "EXIT"}
        /\ \A c \in Chans : Range(chan_queue'[c]) =
             {f \in Envs : env_status'[f] = "BLOCKED" /\ channel'[f] = c}
        /\ \A f \in Envs : env_status'[f] = "BLOCKED" <=> channel'[f] # NoChan
    <3>1. \A f \in Envs : \A st \in {"EXIT", "BLOCKED"} :
            env_status'[f] = st <=> env_status[f] = st
      BY <1>1, <1>4
    <3> QED
      BY <3>1 DEF QueuesMatchStatus
  <2> QED
    BY <1>4, <2>1, <2>2 DEF QueuesMatchStatus
<1>7. NoDuplicates'
  BY <1>2, <1>4 DEF NoDuplicates
<1>8. CreatedOnce'
  <2>1. \A f \in Envs : created[f] \notin {t}
    BY <1>1
  <2>2. created' = created /\ created \in [Envs -> Envs \cup {NoEnv}]
    BY DEF TypeOK
  <2> QED
    BY ONLY <1>4, <2>1, <2>2, CreatedOnceKept, QueueInvariant
       DEF QueueInvariant
<1>9. CpuInvariant' /\ LevelInvariant' /\ PromptIsQuiet'
  BY <1>1, <1>4 DEF CpuInvariant, LevelInvariant, PromptIsQuiet, Queued, TypeOK
<1> QED
  BY <1>5, <1>6, <1>7, <1>8, <1>9

LEMMA SetPriorityReadyStep ==
  ASSUME IInv, NEW t \in Envs, NEW p \in Levels, EnvSetPriority(t, p),
         SetPriorityReady(t, p)
  PROVE  IInv'
<1> USE SchedConstants
    DEF IInv, QueueInvariant, EnvSetPriority, SetPriorityReady, Runs, config
<1> DEFINE rest(l) == Without(env_ready_queues[l], t)
<1>1. \A f \in Envs : priority'[f] = IF f = t THEN p ELSE priority[f]
  BY DEF TypeOK
<1>2. ~Yielded(t)
  BY DEF QueuesMatchStatus, InReadyQueue
<1>3. ASSUME NEW l \in Levels
      PROVE  /\ rest(l) \in Seq(Envs) /\ IsInjective(rest(l))
             /\ Range(rest(l)) = Range(env_ready_queues[l]) \ {t}
  BY WithoutRange DEF TypeOK, NoDuplicates
<1>4. ASSUME NEW l \in Levels
      PROVE  /\ env_ready_queues'[l] \in Seq(Envs)
             /\ IsInjective(env_ready_queues'[l])
             /\ Range(env_ready_queues'[l]) =
                  {f \in Envs : /\ env_status'[f] = "READY" /\ priority'[f] = l
                                /\ ~(Yielded(f))'}
  <2>1. env_ready_queues'[l] = IF l = p THEN Append(rest(l), t) ELSE rest(l)
    OBVIOUS
  <2>2. Range(rest(l)) =
          {f \in Envs \ {t} : /\ env_status[f] = "READY" /\ priority[f] = l
                             /\ ~Yielded(f)}
    BY <1>3 DEF QueuesMatchStatus
  <2> HIDE DEF rest
  <2>3. CASE l = p
    <3> DEFINE q == rest(l)
    <3>1. q \in Seq(Envs) /\ IsInjective(q) /\ t \notin Range(q)
      BY <1>3, <2>2
    <3> HIDE DEF q
    <3>2. /\ Append(q, t) \in Seq(Envs) /\ IsInjective(Append(q, t))
          /\ Range(Append(q, t)) = Range(q) \cup {t}
      BY <3>1, AppendRange
    <3>3. env_ready_queues'[l] = Append(q, t)
      BY <2>1, <2>3 DEF q
    <3>4. Range(env_ready_queues'[l]) = Range(rest(l)) \cup {t}
      BY <3>2, <3>3 DEF q
    <3>5. Range(env_ready_queues'[l]) =
            {f \in Envs : /\ env_status'[f] = "READY" /\ priority'[f] = l
                          /\ ~(Yielded(f))'}
      BY <1>1, <1>2, <2>2, <2>3, <3>4 DEF Yielded
    <3> QED
      BY <3>2, <3>3, <3>5
  <2>4. CASE l # p
    <3>1. env_ready_queues'[l] = rest(l)
      BY <2>1, <2>4
    <3> QED
      BY <1>1, <1>3, <2>2, <2>4, <3>1 DEF Yielded
  <2> QED
    BY <2>3, <2>4
<1>5. env_ready_queues' \in [Levels -> Seq(Envs)]
  BY <1>4
<1>6. TypeOK'
  BY <1>5 DEF TypeOK
<1>7. QueuesMatchStatus'
  BY <1>4 DEF QueuesMatchStatus
<1>8. NoDuplicates' /\ CreatedOnce'
  BY <1>4 DEF NoDuplicates, CreatedOnce
<1>9. CpuInvariant' /\ LevelInvariant' /\ PromptIsQuiet'
  BY <1>1 DEF CpuInvariant, LevelInvariant, PromptIsQuiet, Queued, TypeOK, Used
<1> QED
  BY <1>6, <1>7, <1>8, <1>9

LEMMA SetPriorityElseStep ==
  ASSUME IInv, NEW t \in Envs, NEW p \in Levels, EnvSetPriority(t, p),
         SetPriorityElse(t, p)
  PROVE  IInv'
<1> USE SchedConstants
    DEF IInv, QueueInvariant, EnvSetPriority, SetPriorityElse, Runs, config
<1>1. \A f \in Envs : priority'[f] = IF f = t THEN p ELSE priority[f]
  BY DEF TypeOK
<1>2. TypeOK'
  BY DEF TypeOK
<1>3. QueuesMatchStatus'
  BY <1>1 DEF QueuesMatchStatus, Yielded
<1>4. NoDuplicates' /\ CreatedOnce'
  BY DEF NoDuplicates, CreatedOnce
<1>5. CpuInvariant' /\ LevelInvariant' /\ PromptIsQuiet'
  BY <1>1 DEF CpuInvariant, LevelInvariant, PromptIsQuiet, Queued, TypeOK, Used
<1> QED
  BY <1>2, <1>3, <1>4, <1>5

(* The running process joins the queue of its channel.                     *)
LEMMA SleepStep ==
  ASSUME IInv, NEW e \in Envs, NEW c \in Chans, Sleep(e, c)
  PROVE  IInv'
<1> USE SchedConstants DEF IInv, QueueInvariant, Sleep, Sched, Runs, config
<1>1. env_status[e] = "RUNNING" /\ created[e] = NoEnv
  BY DEF CpuInvariant
<1>2. e \notin Range(chan_queue[c])
  BY <1>1 DEF QueuesMatchStatus
<1>3. /\ Append(chan_queue[c], e) \in Seq(Envs)
      /\ Range(Append(chan_queue[c], e)) = Range(chan_queue[c]) \cup {e}
      /\ IsInjective(Append(chan_queue[c], e))
  BY <1>2, AppendRange DEF TypeOK, NoDuplicates
<1>4. /\ chan_queue' \in [Chans -> Seq(Envs)]
      /\ chan_queue'[c] = Append(chan_queue[c], e)
      /\ \A d \in Chans \ {c} : chan_queue'[d] = chan_queue[d]
  BY <1>3 DEF TypeOK
<1>5. /\ env_status'[e] = "BLOCKED" /\ channel'[e] = c
      /\ \A f \in Envs \ {e} : /\ env_status'[f] = env_status[f]
                               /\ channel'[f] = channel[f]
  BY DEF TypeOK
<1>6. TypeOK'
  BY <1>4 DEF TypeOK, Status
<1>7. \A d \in Chans : Range(chan_queue'[d]) =
        {f \in Envs : env_status'[f] = "BLOCKED" /\ channel'[f] = d}
  <2> SUFFICES ASSUME NEW d \in Chans
               PROVE  Range(chan_queue'[d]) =
                 {f \in Envs : env_status'[f] = "BLOCKED" /\ channel'[f] = d}
    OBVIOUS
  <2>1. Range(chan_queue[d]) =
          {f \in Envs : env_status[f] = "BLOCKED" /\ channel[f] = d}
    BY DEF QueuesMatchStatus
  <2>2. CASE d = c
    BY <1>1, <1>3, <1>4, <1>5, <2>1, <2>2
  <2>3. CASE d # c
    BY <1>1, <1>4, <1>5, <2>1, <2>3
  <2> QED
    BY <2>2, <2>3
<1>8. QueuesMatchStatus'
  <2>1. \A f \in Envs : \A st \in {"NEW", "READY", "EXIT"} :
          env_status'[f] = st <=> env_status[f] = st
    BY <1>1, <1>5
  <2>2. \A f \in Envs : env_status[f] = "READY" => ~Yielded(f) /\ ~(Yielded(f))'
    BY <1>1, <1>5 DEF Yielded
  <2>3. \A f \in Envs : env_status'[f] = "BLOCKED" <=> channel'[f] # NoChan
    BY <1>5 DEF QueuesMatchStatus
  <2> QED
    BY <1>7, <2>1, <2>2, <2>3 DEF QueuesMatchStatus
<1>9. NoDuplicates' /\ CreatedOnce'
  BY <1>1, <1>3, <1>4, <1>5 DEF NoDuplicates, CreatedOnce, TypeOK
<1>10. CpuInvariant' /\ LevelInvariant' /\ PromptIsQuiet'
  BY <1>1, <1>5 DEF CpuInvariant, LevelInvariant, PromptIsQuiet, Queued, TypeOK
<1> QED
  BY <1>6, <1>8, <1>9, <1>10

LEMMA ExitEnvStep ==
  ASSUME IInv, NEW e \in Envs, ExitEnv(e)
  PROVE  IInv'
<1> USE SchedConstants DEF IInv, QueueInvariant, ExitEnv, Sched, Runs, config
<1>1. /\ env_status[e] = "RUNNING" /\ created[e] = NoEnv
      /\ e \notin Range(env_exit_queue) /\ channel[e] = NoChan
  BY DEF CpuInvariant, QueuesMatchStatus
<1>2. /\ env_exit_queue' \in Seq(Envs)
      /\ Range(env_exit_queue') = Range(env_exit_queue) \cup {e}
      /\ IsInjective(env_exit_queue')
  BY <1>1, AppendRange DEF TypeOK, NoDuplicates
<1>3. /\ env_status'[e] = "EXIT"
      /\ \A f \in Envs \ {e} : env_status'[f] = env_status[f]
  BY DEF TypeOK
<1>4. TypeOK'
  BY <1>2 DEF TypeOK, Status
<1>5. QueuesMatchStatus'
  <2>1. \A f \in Envs : \A st \in {"NEW", "READY", "BLOCKED"} :
          env_status'[f] = st <=> env_status[f] = st
    BY <1>1, <1>3
  <2>2. \A f \in Envs : env_status[f] = "READY" => ~Yielded(f) /\ ~(Yielded(f))'
    BY <1>1, <1>3 DEF Yielded
  <2>3. Range(env_exit_queue') = {f \in Envs : env_status'[f] = "EXIT"}
    BY <1>1, <1>2, <1>3 DEF QueuesMatchStatus
  <2> QED
    BY <2>1, <2>2, <2>3 DEF QueuesMatchStatus
<1>6. NoDuplicates' /\ CreatedOnce'
  BY <1>1, <1>2, <1>3 DEF NoDuplicates, CreatedOnce, TypeOK
<1>7. CpuInvariant' /\ LevelInvariant' /\ PromptIsQuiet'
  BY <1>1, <1>3 DEF CpuInvariant, LevelInvariant, PromptIsQuiet, Queued, TypeOK
<1> QED
  BY <1>4, <1>5, <1>6, <1>7

(* Both wakeups: the processes of s leave channel c, rest stays.           *)
LEMMA WakeupStep ==
  ASSUME IInv, NEW c \in Chans, NEW s \in Seq(Envs), NEW rest \in Seq(Envs),
         WakeupFrom(c, s, rest), IsInjective(s), IsInjective(rest),
         Range(s) \subseteq Range(chan_queue[c]),
         Range(rest) = Range(chan_queue[c]) \ Range(s)
  PROVE  IInv'
<1> USE SchedConstants DEF IInv, QueueInvariant, WakeupFrom, config
<1> DEFINE W == Range(s)
<1>1. \A e \in W : e \in Envs /\ env_status[e] = "BLOCKED" /\ channel[e] = c
  BY DEF QueuesMatchStatus
<1>2. \A e \in W : created[e] = NoEnv /\ \A f \in Envs : created[f] # e
  BY <1>1 DEF CreatedOnce
<1>3. /\ env_status' \in [Envs -> Status]
      /\ \A f \in Envs :
           env_status'[f] = IF f \in W THEN "READY" ELSE env_status[f]
      /\ waited' \in [Envs -> 0..MaxWait]
      /\ env_ready_queues' \in [Levels -> Seq(Envs)]
      /\ \A p \in Levels : IsInjective(env_ready_queues'[p])
      /\ \A p \in Levels : Range(env_ready_queues'[p]) =
           {f \in Envs : /\ env_status'[f] = "READY" /\ priority'[f] = p
                         /\ ~(Yielded(f))'}
  BY <1>1, InsertReadyQueues
<1> HIDE DEF W
<1>4. /\ chan_queue' \in [Chans -> Seq(Envs)]
      /\ chan_queue'[c] = rest
      /\ \A d \in Chans \ {c} : chan_queue'[d] = chan_queue[d]
  BY DEF TypeOK
<1>5. \A f \in Envs : channel'[f] = IF f \in W THEN NoChan ELSE channel[f]
  BY DEF W
<1>6. TypeOK'
  <2>1. channel' \in [Envs -> Chans \cup {NoChan}]
    BY DEF TypeOK
  <2> QED
    BY <1>3, <1>4, <2>1 DEF TypeOK
<1>7. ASSUME NEW d \in Chans
      PROVE  Range(chan_queue'[d]) =
               {f \in Envs : env_status'[f] = "BLOCKED" /\ channel'[f] = d}
  <2>1. Range(chan_queue[d]) =
          {f \in Envs : env_status[f] = "BLOCKED" /\ channel[f] = d}
    BY DEF QueuesMatchStatus
  <2>2. CASE d = c
    <3>1. Range(chan_queue'[d]) = Range(chan_queue[d]) \ W
      BY <1>4, <2>2 DEF W
    <3> QED
      BY <1>1, <1>3, <1>5, <2>1, <3>1
  <2>3. CASE d # c
    BY <1>1, <1>3, <1>4, <1>5, <2>1, <2>3
  <2> QED
    BY <2>2, <2>3
<1>8. QueuesMatchStatus'
  <2>1. \A f \in Envs : \A st \in {"NEW", "EXIT"} :
          env_status'[f] = st <=> env_status[f] = st
    BY <1>1, <1>3
  <2>2. \A f \in Envs : env_status'[f] = "BLOCKED" <=> channel'[f] # NoChan
    BY <1>3, <1>5 DEF QueuesMatchStatus
  <2>3. /\ Range(env_new_queue') =
             {f \in Envs : env_status'[f] = "NEW"} \ {created'[f] : f \in Envs}
        /\ Range(env_exit_queue') = {f \in Envs : env_status'[f] = "EXIT"}
    BY <2>1 DEF QueuesMatchStatus
  <2> QED
    BY <1>3, <1>7, <2>2, <2>3 DEF QueuesMatchStatus
<1>9. NoDuplicates' /\ CreatedOnce'
  <2>1. NoDuplicates'
    BY <1>3, <1>4 DEF NoDuplicates
  <2>2. CreatedOnce'
    <3>1. \A f \in Envs : created[f] \notin W
      BY <1>2
    <3>2. created' = created /\ created \in [Envs -> Envs \cup {NoEnv}]
      BY DEF TypeOK
    <3> QED
      BY ONLY <1>3, <3>1, <3>2, CreatedOnceKept, QueueInvariant
         DEF QueueInvariant
  <2> QED
    BY <2>1, <2>2
<1>10. CpuInvariant' /\ LevelInvariant' /\ PromptIsQuiet'
  BY <1>1, <1>3 DEF CpuInvariant, LevelInvariant, PromptIsQuiet, Queued, TypeOK
<1> QED
  BY <1>6, <1>8, <1>9, <1>10

LEMMA WakeupOneStep ==
  ASSUME IInv, NEW c \in Chans, WakeupOne(c)
  PROVE  IInv'
<1> DEFINE q == chan_queue[c]
<1>1. q \in Seq(Envs) /\ q # <<>> /\ IsInjective(q)
  BY DEF IInv, TypeOK, QueueInvariant, NoDuplicates, WakeupOne
<1>2. WakeupFrom(c, <<Head(q)>>, Tail(q))
  BY DEF WakeupOne
<1> HIDE DEF q
<1>3. /\ Head(q) \in Envs /\ Head(q) \in Range(q) /\ Tail(q) \in Seq(Envs)
      /\ Range(Tail(q)) = Range(q) \ {Head(q)} /\ IsInjective(Tail(q))
  BY <1>1, TailRange
<1>4. /\ <<Head(q)>> \in Seq(Envs) /\ Range(<<Head(q)>>) = {Head(q)}
      /\ IsInjective(<<Head(q)>>)
  BY <1>3, SingleQueue
<1>5. /\ Range(<<Head(q)>>) \subseteq Range(chan_queue[c])
      /\ Range(Tail(q)) = Range(chan_queue[c]) \ Range(<<Head(q)>>)
  BY <1>3, <1>4 DEF q
<1> QED
  BY <1>2, <1>3, <1>4, <1>5, WakeupStep

LEMMA WakeupAllStep ==
  ASSUME IInv, NEW c \in Chans, WakeupAll(c)
  PROVE  IInv'
<1>1. chan_queue[c] \in Seq(Envs) /\ IsInjective(chan_queue[c])
  BY DEF IInv, TypeOK, QueueInvariant, NoDuplicates
<1>2. WakeupFrom(c, chan_queue[c], <<>>)
  BY DEF WakeupAll
<1>3. <<>> \in Seq(Envs) /\ Range(<<>>) = {} /\ IsInjective(<<>>)
  BY EmptyQueue
<1> QED
  BY <1>1, <1>2, <1>3, WakeupStep

-----------------------------------------------------------------------------
(* The clock: a level gives its expired processes to the level below and   *)
(* takes those of the level above.                                         *)

LEMMA ExpiredProperties ==
  ASSUME IInv, phase = "run"
  PROVE  /\ \A p \in Levels : \A e \in Expired(p) :
              /\ e \in Envs /\ e \in Range(env_ready_queues[p]) /\ p # 0
              /\ env_status[e] = "READY" /\ priority[e] = p
         /\ \A p \in Levels : \A e \in Envs :
              priority[e] = p => (e \in AllExpired <=> e \in Expired(p))
<1>1. ASSUME NEW p \in Levels, NEW e \in Expired(p)
      PROVE  /\ e \in Envs /\ e \in Range(env_ready_queues[p]) /\ p # 0
             /\ env_status[e] = "READY" /\ priority[e] = p
  BY <1>1 DEF Expired, IInv, QueueInvariant, QueuesMatchStatus
<1> QED
  BY <1>1 DEF AllExpired

LEMMA AgedQueuesProperties ==
  ASSUME IInv, phase = "run", NEW p \in Levels
  PROVE  /\ AgedQueues[p] \in Seq(Envs) /\ IsInjective(AgedQueues[p])
         /\ Range(AgedQueues[p]) =
              {e \in Envs : env_status[e] = "READY" /\ AgedPriority(e) = p}
<1> DEFINE q(l) == env_ready_queues[l]
           stay == Keep(q(p), Range(q(p)) \ Expired(p))
           come == IF p + 1 \in Levels THEN Promoted(p + 1) ELSE <<>>
<1>1. \A l \in Levels : /\ q(l) \in Seq(Envs) /\ IsInjective(q(l))
                        /\ Range(q(l)) = {e \in Envs : /\ env_status[e] = "READY"
                                                      /\ priority[e] = l}
  BY DEF IInv, TypeOK, QueueInvariant, QueuesMatchStatus, NoDuplicates, Yielded
<1>2. /\ stay \in Seq(Envs) /\ IsInjective(stay)
      /\ Range(stay) = Range(q(p)) \ Expired(p)
  <2> HIDE DEF q
  <2>1. /\ Keep(q(p), Range(q(p)) \ Expired(p)) \in Seq(Envs)
        /\ IsInjective(Keep(q(p), Range(q(p)) \ Expired(p)))
        /\ Range(Keep(q(p), Range(q(p)) \ Expired(p))) =
             Range(q(p)) \cap (Range(q(p)) \ Expired(p))
    BY <1>1, KeepProperties
  <2> QED
    BY <2>1
<1>3. /\ come \in Seq(Envs) /\ IsInjective(come)
      /\ Range(come) = IF p + 1 \in Levels THEN Expired(p + 1) ELSE {}
  <2>1. CASE p + 1 \notin Levels
    BY <2>1, EmptyQueue
  <2>2. CASE p + 1 \in Levels
    <3> DEFINE k == Keep(q(p + 1), Expired(p + 1))
    <3>1. /\ k \in Seq(Envs) /\ IsInjective(k)
          /\ Range(k) = Range(q(p + 1)) \cap Expired(p + 1)
      BY <1>1, <2>2, KeepProperties
    <3>2. Range(k) = Expired(p + 1)
      BY <2>2, <3>1, ExpiredProperties
    <3>3. come = ForEachOrder(k)
      BY <2>2 DEF Promoted
    <3> HIDE DEF k
    <3> QED
      BY <2>2, <3>1, <3>2, <3>3, ForEachRange
  <2> QED
    BY <2>1, <2>2
<1>4. AgedQueues[p] = stay \o come
  BY DEF AgedQueues
<1>5. Range(stay) \cap Range(come) = {}
  <2> HIDE DEF stay, come
  <2>1. \A e \in Range(stay) : priority[e] = p
    BY <1>1, <1>2
  <2>2. \A e \in Range(come) : priority[e] = p + 1
    BY <1>3, ExpiredProperties
  <2>3. p # p + 1
    BY DEF Levels
  <2> QED
    BY <2>1, <2>2, <2>3
<1>6. \A e \in Envs : env_status[e] = "READY" =>
        (AgedPriority(e) = p <=>
           \/ priority[e] = p /\ e \notin Expired(p)
           \/ p + 1 \in Levels /\ e \in Expired(p + 1))
  <2> SUFFICES ASSUME NEW e \in Envs
               PROVE  AgedPriority(e) = p <=>
                        \/ priority[e] = p /\ e \notin Expired(p)
                        \/ p + 1 \in Levels /\ e \in Expired(p + 1)
    OBVIOUS
  <2>1. priority[e] \in Levels /\ priority[e] \in Int /\ p \in Int
    BY SchedConstants DEF IInv, TypeOK, Levels
  <2>2. e \in AllExpired <=> e \in Expired(priority[e])
    BY <2>1, ExpiredProperties
  <2>3. p + 1 \in Levels /\ e \in Expired(p + 1) => priority[e] = p + 1
    BY ExpiredProperties
  <2>4. CASE e \in AllExpired
    BY <2>1, <2>2, <2>3, <2>4 DEF AgedPriority
  <2>5. CASE e \notin AllExpired
    BY <2>1, <2>2, <2>3, <2>5 DEF AgedPriority
  <2> QED
    BY <2>4, <2>5
<1>7. Range(stay) \cup Range(come) =
        {e \in Envs : env_status[e] = "READY" /\ AgedPriority(e) = p}
  <2> HIDE DEF stay, come
  <2>1. p + 1 \in Levels => \A e \in Expired(p + 1) :
                              e \in Envs /\ env_status[e] = "READY"
    BY ExpiredProperties
  <2> QED
    BY <1>1, <1>2, <1>3, <1>6, <2>1
<1> HIDE DEF stay, come
<1>8. /\ stay \o come \in Seq(Envs) /\ IsInjective(stay \o come)
      /\ Range(stay \o come) = Range(stay) \cup Range(come)
  BY <1>2, <1>3, <1>5, ConcatRange
<1> QED
  BY <1>4, <1>7, <1>8

LEMMA ClockInterruptStep ==
  ASSUME IInv, NEW e \in Envs, ClockInterrupt(e)
  PROVE  IInv'
<1> USE SchedConstants DEF IInv, QueueInvariant, ClockInterrupt, Sched, config
<1>1. env_status[e] = "RUNNING"
  BY DEF CpuInvariant
<1>2. /\ env_status'[e] = "READY"
      /\ \A f \in Envs \ {e} : env_status'[f] = env_status[f]
  BY DEF TypeOK
<1>3. \A f \in Envs : /\ priority'[f] = AgedPriority(f)
                      /\ priority'[f] \in Levels /\ priority'[f] <= priority[f]
                      /\ env_status[f] # "READY" => priority'[f] = priority[f]
  <2> SUFFICES ASSUME NEW f \in Envs
               PROVE  /\ AgedPriority(f) \in Levels
                      /\ AgedPriority(f) <= priority[f]
                      /\ env_status[f] # "READY" => AgedPriority(f) = priority[f]
    OBVIOUS
  <2>1. priority[f] \in Levels
    BY DEF TypeOK
  <2>2. f \in AllExpired => priority[f] # 0 /\ env_status[f] = "READY"
    BY <2>1, ExpiredProperties
  <2> QED
    BY <2>1, <2>2 DEF AgedPriority, Levels
<1>4. \A p \in Levels :
        /\ env_ready_queues'[p] \in Seq(Envs)
        /\ IsInjective(env_ready_queues'[p])
        /\ Range(env_ready_queues'[p]) =
             {f \in Envs : env_status[f] = "READY" /\ priority'[f] = p}
  BY <1>3, AgedQueuesProperties
<1>5. env_ready_queues' \in [Levels -> Seq(Envs)]
  BY <1>4 DEF AgedQueues
<1>6. TypeOK'
  <2>1. priority' \in [Envs -> Levels]
    BY <1>3
  <2>2. waited' \in [Envs -> 0..MaxWait]
    BY DEF TypeOK, CapWait
  <2> QED
    BY <1>5, <2>1, <2>2 DEF TypeOK, Status
<1>7. QueuesMatchStatus'
  <2>1. \A f \in Envs : \A st \in {"NEW", "BLOCKED", "EXIT"} :
          env_status'[f] = st <=> env_status[f] = st
    BY <1>1, <1>2
  <2>2. \A f \in Envs : env_status'[f] = "READY" /\ ~(Yielded(f))' <=>
                        env_status[f] = "READY"
    BY <1>1, <1>2 DEF Yielded
  <2>3. \A p \in Levels : Range(env_ready_queues'[p]) =
          {f \in Envs : /\ env_status'[f] = "READY" /\ priority'[f] = p
                        /\ ~(Yielded(f))'}
    BY <1>4, <2>2
  <2>4. \A f \in Envs : env_status'[f] = "BLOCKED" <=> channel'[f] # NoChan
    BY <2>1 DEF QueuesMatchStatus
  <2> QED
    BY <2>1, <2>3, <2>4 DEF QueuesMatchStatus
<1>8. NoDuplicates' /\ CreatedOnce'
  BY <1>1, <1>2, <1>4 DEF NoDuplicates, CreatedOnce, TypeOK
<1>9. CpuInvariant' /\ PromptIsQuiet'
  BY <1>1, <1>2 DEF CpuInvariant, PromptIsQuiet, TypeOK
<1>10. LevelInvariant'
  <2>1. \A f \in Envs : priority[f] \in Int /\ priority'[f] \in Int
    BY <1>3 DEF TypeOK, Levels
  <2>2. num_of_ready_queues \in Int
    BY DEF TypeOK
  <2> QED
    BY <1>1, <1>2, <1>3, <2>1, <2>2 DEF LevelInvariant, Queued
<1> QED
  BY <1>6, <1>7, <1>8, <1>9, <1>10

-----------------------------------------------------------------------------
(* fos_scheduler.                                                          *)

(* With the process that yielded back in it, a ready queue holds the ready *)
(* processes of its level, all of them and each once.                      *)
LEMMA RequeuedProperties ==
  ASSUME IInv, phase = "sched"
  PROVE  /\ Requeued \in [Levels -> Seq(Envs)]
         /\ \A p \in Levels :
              /\ IsInjective(Requeued[p])
              /\ Range(Requeued[p]) =
                   {e \in Envs : env_status[e] = "READY" /\ priority[e] = p}
<1> USE SchedConstants DEF IInv, QueueInvariant
<1>1. CASE proc # NoEnv /\ env_status[proc] = "READY"
  <2> DEFINE l == IF scheduler_method = "RR" THEN 0 ELSE priority[proc]
             q == env_ready_queues[l]
  <2>1. proc \in Envs /\ priority[proc] \in Levels
    BY <1>1 DEF TypeOK
  <2>2. l = priority[proc]
    <3>1. priority[proc] < num_of_ready_queues
      BY <1>1, <2>1 DEF LevelInvariant, Queued
    <3>2. scheduler_method = "RR" => priority[proc] < 1
      BY <3>1 DEF LevelInvariant
    <3> QED
      BY <2>1, <3>2 DEF Levels
  <2> HIDE DEF l
  <2>3. Requeued = [env_ready_queues EXCEPT ![l] = Append(q, proc)]
    BY <1>1 DEF Requeued, l
  <2>4. q \in Seq(Envs) /\ IsInjective(q) /\ proc \notin Range(q)
    BY <1>1, <2>1, <2>2 DEF TypeOK, NoDuplicates, QueuesMatchStatus, Yielded
  <2> HIDE DEF q
  <2>5. /\ Append(q, proc) \in Seq(Envs) /\ IsInjective(Append(q, proc))
        /\ Range(Append(q, proc)) = Range(q) \cup {proc}
    BY <2>1, <2>4, AppendRange
  <2>6. /\ Requeued[l] = Append(q, proc)
        /\ \A p \in Levels \ {l} : Requeued[p] = env_ready_queues[p]
    BY <2>1, <2>2, <2>3 DEF TypeOK
  <2>7. Requeued \in [Levels -> Seq(Envs)]
    BY <2>3, <2>5 DEF TypeOK
  <2>8. ASSUME NEW p \in Levels
        PROVE  Range(Requeued[p]) =
                 {e \in Envs : env_status[e] = "READY" /\ priority[e] = p}
    <3>1. Range(env_ready_queues[p]) =
            {e \in Envs \ {proc} : env_status[e] = "READY" /\ priority[e] = p}
      BY <1>1 DEF QueuesMatchStatus, Yielded
    <3>2. CASE p = l
      <4>1. Range(Requeued[p]) = Range(env_ready_queues[p]) \cup {proc}
        BY <2>5, <2>6, <3>2 DEF q
      <4> QED
        BY <1>1, <2>1, <2>2, <3>1, <3>2, <4>1
    <3>3. CASE p # l
      BY <2>2, <2>6, <3>1, <3>3
    <3> QED
      BY <3>2, <3>3
  <2> QED
    BY <2>5, <2>6, <2>7, <2>8 DEF NoDuplicates
<1>2. CASE ~(proc # NoEnv /\ env_status[proc] = "READY")
  <2>1. Requeued = env_ready_queues
    BY <1>2 DEF Requeued
  <2>2. \A e \in Envs : ~Yielded(e)
    BY <1>2 DEF Yielded
  <2> QED
    BY <2>1, <2>2 DEF TypeOK, NoDuplicates, QueuesMatchStatus
<1> QED
  BY <1>1, <1>2

LEMMA DispatchStep ==
  ASSUME IInv, NEW e \in Envs, Dispatch(e)
  PROVE  IInv'
<1> USE SchedConstants DEF IInv, QueueInvariant, Dispatch, config
<1>1. PICK p \in Levels :
        /\ Requeued[p] # <<>> /\ e = Head(Requeued[p])
        /\ env_ready_queues' = [Requeued EXCEPT ![p] = Tail(@)]
  BY DEF FirstNonEmpty
<1>2. /\ Requeued \in [Levels -> Seq(Envs)]
      /\ \A l \in Levels :
           /\ IsInjective(Requeued[l])
           /\ Range(Requeued[l]) =
                {f \in Envs : env_status[f] = "READY" /\ priority[f] = l}
  BY RequeuedProperties
<1> DEFINE q == Requeued[p]
<1>3. q \in Seq(Envs) /\ q # <<>> /\ IsInjective(q) /\ e = Head(q)
  BY <1>1, <1>2
<1>4. /\ env_ready_queues' \in [Levels -> Seq(Envs)]
      /\ env_ready_queues'[p] = Tail(q)
      /\ \A l \in Levels \ {p} : env_ready_queues'[l] = Requeued[l]
  <2>1. Tail(q) \in Seq(Envs)
    <3> HIDE DEF q
    <3> QED
      BY <1>3, TailRange
  <2> QED
    BY <1>1, <1>2, <2>1
<1>5. /\ e \in Range(q) /\ IsInjective(Tail(q))
      /\ Range(Tail(q)) = Range(q) \ {e}
  <2> HIDE DEF q
  <2> QED
    BY <1>3, TailRange
<1>6. env_status[e] = "READY" /\ priority[e] = p
  BY <1>2, <1>5
<1>7. /\ env_status'[e] = "RUNNING"
      /\ \A f \in Envs \ {e} : env_status'[f] = env_status[f]
  BY DEF TypeOK
<1>8. \A l \in Levels :
        /\ IsInjective(env_ready_queues'[l])
        /\ Range(env_ready_queues'[l]) =
             {f \in Envs \ {e} : env_status[f] = "READY" /\ priority[f] = l}
  <2> SUFFICES ASSUME NEW l \in Levels
               PROVE  /\ IsInjective(env_ready_queues'[l])
                      /\ Range(env_ready_queues'[l]) =
                           {f \in Envs \ {e} : /\ env_status[f] = "READY"
                                              /\ priority[f] = l}
    OBVIOUS
  <2>1. CASE l = p
    BY <1>2, <1>4, <1>5, <2>1
  <2>2. CASE l # p
    BY <1>2, <1>4, <1>6, <2>2
  <2> QED
    BY <2>1, <2>2
<1>9. TypeOK'
  <2>1. waited' \in [Envs -> 0..MaxWait]
    BY DEF TypeOK, RequeuedWait
  <2> QED
    BY <1>4, <2>1 DEF TypeOK, Status
<1>10. QueuesMatchStatus'
  <2>1. \A f \in Envs : \A st \in {"NEW", "BLOCKED", "EXIT"} :
          env_status'[f] = st <=> env_status[f] = st
    BY <1>6, <1>7
  <2>2. \A l \in Levels : Range(env_ready_queues'[l]) =
          {f \in Envs : /\ env_status'[f] = "READY" /\ priority'[f] = l
                        /\ ~(Yielded(f))'}
    BY <1>7, <1>8 DEF Yielded
  <2>3. \A f \in Envs : env_status'[f] = "BLOCKED" <=> channel'[f] # NoChan
    BY <2>1 DEF QueuesMatchStatus
  <2> QED
    BY <2>1, <2>2, <2>3 DEF QueuesMatchStatus
<1>11. NoDuplicates' /\ CreatedOnce'
  BY <1>6, <1>7, <1>8 DEF NoDuplicates, CreatedOnce, TypeOK
<1>12. CpuInvariant' /\ LevelInvariant' /\ PromptIsQuiet'
  BY <1>6, <1>7 DEF CpuInvariant, LevelInvariant, PromptIsQuiet, Queued, TypeOK
<1> QED
  BY <1>9, <1>10, <1>11, <1>12

(* No queue holds anybody, so nobody is ready.                             *)
LEMMA NothingReadyStep ==
  ASSUME IInv, NothingReady
  PROVE  IInv'
<1> USE SchedConstants DEF IInv, QueueInvariant, NothingReady, queues, config
<1>1. TypeOK'
  BY DEF TypeOK
<1>2. \A e \in Envs : env_status[e] # "READY"
  <2> SUFFICES ASSUME NEW e \in Envs, env_status[e] = "READY" PROVE FALSE
    OBVIOUS
  <2>1. priority[e] \in Levels
    BY DEF TypeOK
  <2>2. e \in Range(Requeued[priority[e]])
    BY <2>1, RequeuedProperties
  <2> QED
    BY <2>1, <2>2, EmptyQueue
<1>3. QueuesMatchStatus'
  BY <1>2 DEF QueuesMatchStatus, Yielded
<1>4. NoDuplicates' /\ CreatedOnce'
  BY DEF NoDuplicates, CreatedOnce
<1>5. CpuInvariant' /\ LevelInvariant'
  BY DEF CpuInvariant, LevelInvariant, Queued
<1>6. PromptIsQuiet'
  BY <1>2 DEF PromptIsQuiet, CpuInvariant, TypeOK, Status
<1> QED
  BY <1>1, <1>3, <1>4, <1>5, <1>6

LEMMA ReacquireStep ==
  ASSUME IInv, Reacquire
  PROVE  IInv'
<1> USE SchedConstants DEF IInv, QueueInvariant, Reacquire, queues, config
<1>1. TypeOK'
  BY DEF TypeOK
<1>2. QueuesMatchStatus'
  BY DEF QueuesMatchStatus, Yielded, CpuInvariant
<1>3. NoDuplicates' /\ CreatedOnce'
  BY DEF NoDuplicates, CreatedOnce
<1>4. CpuInvariant' /\ LevelInvariant' /\ PromptIsQuiet'
  BY DEF CpuInvariant, LevelInvariant, PromptIsQuiet, Queued
<1> QED
  BY <1>1, <1>2, <1>3, <1>4

-----------------------------------------------------------------------------
LEMMA NextIInv == IInv /\ [Next]_vars => IInv'
<1> SUFFICES ASSUME IInv, [Next]_vars PROVE IInv'
  OBVIOUS
<1>1. CASE PromptCommand
  <2>1. SchedInitRR => IInv'
    <3>1. 1 \in 1..MaxQueues /\ star_th \in Thresholds
      BY SchedConstants DEF IInv, TypeOK
    <3> QED
      BY <3>1, SchedInitStep DEF SchedInitRR
  <2>2. ASSUME NEW n \in 1..MaxQueues, NEW t \in Thresholds, SchedInitPRIRR(n, t)
        PROVE  IInv'
    BY <2>2, SchedInitStep DEF SchedInitPRIRR
  <2>3. ASSUME NEW e \in Envs, NEW p \in Levels, Load(e, p)
        PROVE  IInv'
    BY <2>3, LoadStep
  <2>4. ASSUME NEW e \in Envs, NEW p \in Levels, RunProgram(e, p)
        PROVE  IInv'
    BY <2>4, RunProgramStep
  <2> QED
    BY <1>1, <2>1, <2>2, <2>3, <2>4, RunAllStep, SetStarvThreshStep
       DEF PromptCommand
<1>2. CASE \E e \in Envs : SystemCall(e)
  BY <1>2, CreateEnvStep, RunEnvStep, SchedNewEnvStep, SleepStep, ExitEnvStep
     DEF SystemCall
<1>3. CASE SetPriority
  BY <1>3, SetPriorityReadyStep, SetPriorityElseStep
     DEF SetPriority, EnvSetPriority
<1>4. CASE Wakeup
  BY <1>4, WakeupOneStep, WakeupAllStep DEF Wakeup
<1>5. CASE Clock
  BY <1>5, ClockInterruptStep DEF Clock
<1>6. CASE SchedulerStep
  BY <1>6, DispatchStep, NothingReadyStep, ReacquireStep DEF SchedulerStep
<1>7. CASE UNCHANGED vars
  <2> USE <1>7 DEF IInv, QueueInvariant, vars, queues, config
  <2>1. TypeOK'
    BY DEF TypeOK
  <2>2. QueuesMatchStatus' /\ NoDuplicates' /\ CreatedOnce'
    BY DEF QueuesMatchStatus, NoDuplicates, CreatedOnce, Yielded
  <2>3. CpuInvariant' /\ LevelInvariant' /\ PromptIsQuiet'
    BY DEF CpuInvariant, LevelInvariant, PromptIsQuiet, Queued
  <2> QED
    BY <2>1, <2>2, <2>3
<1> QED
  BY <1>1, <1>2, <1>3, <1>4, <1>5, <1>6, <1>7 DEF Next

(* Every reachable state of the scheduler, with any number of processes,   *)
(* priorities and channels, satisfies the inductive invariant.             *)
THEOREM Invariance == Spec => []IInv
<1>1. Init => IInv
  BY InitIInv
<1>2. IInv /\ [Next]_vars => IInv'
  BY NextIInv
<1> QED
  BY <1>1, <1>2, PTL DEF Spec

(* Every variable keeps to its range: in particular no priority leaves the *)
(* array of ready queues.                                                  *)
THEOREM TypeCorrect == Spec => []TypeOK
<1>1. IInv => TypeOK
  BY DEF IInv
<1> QED
  BY <1>1, Invariance, PTL

(* No process is lost, queued twice or left behind in a second queue.      *)
THEOREM QueuesCorrect == Spec => []QueueInvariant
<1>1. IInv => QueueInvariant
  BY DEF IInv
<1> QED
  BY <1>1, Invariance, PTL

(* At most one process is on the CPU, and it is the one proc names.        *)
THEOREM CpuCorrect == Spec => []CpuInvariant
<1>1. IInv => CpuInvariant
  BY DEF IInv
<1> QED
  BY <1>1, Invariance, PTL

(* The scheduler returns to the prompt only when no process is left that   *)
(* could still run.                                                        *)
THEOREM PromptCorrect == Spec => []PromptIsQuiet
<1>1. IInv => PromptIsQuiet
  BY DEF IInv
<1> QED
  BY <1>1, Invariance, PTL

-----------------------------------------------------------------------------
(* The refinement: the queues, levels and ticks implement the life cycle.  *)

LEMMA InitLife == Init => Life!Init
BY SchedConstants DEF Init, Life!Init

(* Making processes ready is one step of the life cycle, or none when s is *)
(* empty.                                                                  *)
LEMMA InsertReadyLife ==
  ASSUME NEW s \in Seq(Envs), NEW from \in {"NEW", "BLOCKED"}, TypeOK,
         InsertReady(s), \A e \in Range(s) : env_status[e] = from,
         (IF phase = "run" THEN proc ELSE NoEnv)' =
           IF phase = "run" THEN proc ELSE NoEnv
  PROVE  [Life!Next]_(Life!vars)
<1> DEFINE S == Range(s)
<1>1. S \in SUBSET Envs
  BY RangeOfSeq
<1>2. env_status' = [e \in Envs |-> IF e \in S THEN "READY" ELSE env_status[e]]
  BY DEF InsertReady
<1> HIDE DEF S
<1>3. CASE S = {}
  <2>1. env_status' = env_status
    BY <1>2, <1>3 DEF TypeOK
  <2> QED
    BY <2>1 DEF Life!vars
<1>4. CASE S # {} /\ from = "NEW"
  <2>1. Life!Admit(S)
    BY <1>2, <1>4 DEF Life!Admit, Life!Move, S
  <2> QED
    BY <1>1, <2>1 DEF Life!Next
<1>5. CASE S # {} /\ from = "BLOCKED"
  <2>1. Life!Wake(S)
    BY <1>2, <1>5 DEF Life!Wake, Life!Move, S
  <2> QED
    BY <1>1, <2>1 DEF Life!Next
<1> QED
  BY <1>3, <1>4, <1>5

LEMMA NextLife == IInv /\ [Next]_vars => [Life!Next]_(Life!vars)
<1> SUFFICES ASSUME IInv, [Next]_vars PROVE [Life!Next]_(Life!vars)
  OBVIOUS
<1> USE SchedConstants
<1>0. TypeOK /\ QueuesMatchStatus /\ CpuInvariant
  BY DEF IInv, QueueInvariant
<1>1. ASSUME NEW e \in Envs, NEW p \in Levels, Load(e, p)
      PROVE  Life!Next
  <2>1. Life!Create(e)
    BY <1>0, <1>1 DEF Load, Created, Life!Create, Life!Move, TypeOK
  <2> QED
    BY <2>1 DEF Life!Next
<1>2. ASSUME NEW e \in Envs, NEW p \in Levels, RunProgram(e, p)
      PROVE  Life!Next
  <2>1. Life!Launch(e)
    BY <1>0, <1>2 DEF RunProgram, Created, Life!Launch, Life!Move, TypeOK
  <2> QED
    BY <2>1 DEF Life!Next
<1>3. RunAll => [Life!Next]_(Life!vars)
  <2>1. \A e \in Range(env_new_queue) : env_status[e] = "NEW"
    BY <1>0 DEF QueuesMatchStatus
  <2>2. env_new_queue \in Seq(Envs) /\ "NEW" \in {"NEW", "BLOCKED"}
    BY <1>0 DEF TypeOK
  <2> QED
    BY <1>0, <2>1, <2>2, InsertReadyLife DEF RunAll
<1>4. ASSUME NEW e \in Envs, NEW t \in Envs, RunEnv(e, t)
      PROVE  [Life!Next]_(Life!vars)
  <2>1. env_status[t] = "NEW"
    BY <1>0, <1>4 DEF QueuesMatchStatus, RunEnv
  <2>2. <<t>> \in Seq(Envs) /\ \A f \in Range(<<t>>) : env_status[f] = "NEW"
    BY <2>1, SingleQueue
  <2>3. InsertReady(<<t>>) /\ phase' = phase /\ proc' = proc
    BY <1>4 DEF RunEnv
  <2> QED
    BY <1>0, <2>2, <2>3, InsertReadyLife
<1>5. ASSUME NEW e \in Envs, NEW n \in Envs, CreateEnv(e, n)
      PROVE  Life!Next
  <2>1. Life!Create(n)
    BY <1>0, <1>5 DEF CreateEnv, Life!Create, Life!Move, TypeOK
  <2> QED
    BY <2>1 DEF Life!Next
<1>6. ASSUME NEW e \in Envs, NEW c \in Chans, Sleep(e, c)
      PROVE  Life!Next
  <2>1. Life!Block(e)
    BY <1>0, <1>6 DEF Sleep, Sched, Runs, CpuInvariant, Life!Block, Life!GiveUp
  <2> QED
    BY <2>1 DEF Life!Next
<1>7. ASSUME NEW e \in Envs, ExitEnv(e)
      PROVE  Life!Next
  <2>1. Life!Exit(e)
    BY <1>0, <1>7 DEF ExitEnv, Sched, Runs, CpuInvariant, Life!Exit, Life!GiveUp
  <2> QED
    BY <2>1 DEF Life!Next
<1>8. ASSUME NEW c \in Chans, WakeupOne(c)
      PROVE  [Life!Next]_(Life!vars)
  <2> DEFINE q == chan_queue[c]
  <2>1. /\ q \in Seq(Envs) /\ q # <<>>
        /\ \A e \in Range(q) : env_status[e] = "BLOCKED"
    BY <1>0, <1>8 DEF TypeOK, QueuesMatchStatus, WakeupOne
  <2>2. InsertReady(<<Head(q)>>) /\ UNCHANGED <<proc, phase>>
    BY <1>8 DEF WakeupOne, WakeupFrom
  <2> HIDE DEF q
  <2>3. Head(q) \in Envs /\ Head(q) \in Range(q)
    BY <2>1, TailRange
  <2> QED
    BY <1>0, <2>1, <2>2, <2>3, SingleQueue, InsertReadyLife
<1>9. ASSUME NEW c \in Chans, WakeupAll(c)
      PROVE  [Life!Next]_(Life!vars)
  <2>1. \A e \in Range(chan_queue[c]) : env_status[e] = "BLOCKED"
    BY <1>0 DEF QueuesMatchStatus
  <2> QED
    BY <1>0, <1>9, <2>1, InsertReadyLife DEF WakeupAll, WakeupFrom, TypeOK
<1>10. ASSUME NEW e \in Envs, ClockInterrupt(e)
       PROVE  Life!Next
  <2>1. Life!Preempt(e)
    BY <1>0, <1>10
       DEF ClockInterrupt, Sched, CpuInvariant, Life!Preempt, Life!GiveUp
  <2> QED
    BY <2>1 DEF Life!Next
<1>11. ASSUME NEW e \in Envs, Dispatch(e)
       PROVE  Life!Next
  <2>1. PICK p \in Levels : Requeued[p] # <<>> /\ e = Head(Requeued[p])
    BY <1>11 DEF Dispatch, FirstNonEmpty
  <2>2. phase = "sched"
    BY <1>11 DEF Dispatch
  <2> DEFINE q == Requeued[p]
  <2>3. /\ q \in Seq(Envs) /\ q # <<>> /\ e = Head(q)
        /\ \A f \in Range(q) : env_status[f] = "READY"
    BY <2>1, <2>2, RequeuedProperties
  <2> HIDE DEF q
  <2>4. env_status[e] = "READY"
    BY <2>3, TailRange
  <2>5. Life!Dispatch(e)
    BY <1>0, <1>11, <2>2, <2>4 DEF Dispatch, Life!Dispatch, TypeOK
  <2> QED
    BY <2>5 DEF Life!Next
<1>12. ASSUME UNCHANGED env_status, phase # "run" \/ UNCHANGED proc,
              phase # "run" <=> phase' # "run"
       PROVE  UNCHANGED Life!vars
  BY <1>12 DEF Life!vars
<1>13. ASSUME \/ \E t \in Thresholds : SetStarvThresh(t)
              \/ SchedInitRR
              \/ \E n \in 1..MaxQueues, t \in Thresholds : SchedInitPRIRR(n, t)
              \/ \E e \in Envs : SchedNewEnv(e)
              \/ SetPriority \/ NothingReady \/ Reacquire
              \/ UNCHANGED vars
       PROVE  UNCHANGED Life!vars
  <2>1. /\ UNCHANGED env_status
        /\ phase # "run" \/ UNCHANGED proc
        /\ phase # "run" <=> phase' # "run"
    BY <1>13 DEF SetStarvThresh, SchedInit, SchedInitRR, SchedInitPRIRR,
       SchedNewEnv, SetPriority, EnvSetPriority, SetPriorityReady,
       SetPriorityElse, NothingReady, Reacquire, vars
  <2> QED
    BY <1>12, <2>1
<1>14. CASE \E e \in Envs : SystemCall(e)
  BY <1>4, <1>5, <1>6, <1>7, <1>13, <1>14 DEF SystemCall
<1>15. CASE PromptCommand
  BY <1>1, <1>2, <1>3, <1>13, <1>15 DEF PromptCommand
<1>16. CASE Wakeup \/ Clock \/ SchedulerStep
  BY <1>8, <1>9, <1>10, <1>11, <1>13, <1>16 DEF Wakeup, Clock, SchedulerStep
<1> QED
  BY <1>13, <1>14, <1>15, <1>16 DEF Next

(* The scheduler implements ProcLifecycle: no process is dispatched that   *)
(* is not ready, none leaves the CPU but by the clock, a sleep or its      *)
(* exit, and none that has exited ever runs again.                         *)
THEOREM Refinement == Spec => LifeSpec
<1>1. Init => Life!Init
  BY InitLife
<1>2. IInv /\ [Next]_vars => [Life!Next]_(Life!vars)
  BY NextLife
<1> QED
  BY <1>1, <1>2, Invariance, PTL DEF Spec, LifeSpec, Life!Spec

-----------------------------------------------------------------------------
(* Aging: the order in which the scheduler serves.                         *)
(*                                                                         *)
(* AgingOrder is not inductive, not even beside IInv: that a process joins *)
(* a queue with less waiting than those before it holds because nobody     *)
(* outside the ready queues has waited at all, which is QuietWaits.        *)


(* Who is in no ready queue has not waited.                                *)
QuietWaits == \A e \in Envs : ~InReadyQueue(e) => waited[e] = 0

(* The inductive invariant, beside IInv.                                   *)
AgingInv == AgingOrder /\ QuietWaits

(* q is sorted by w, most first.                                           *)
SortedBy(q, w) == \A i, j \in DOMAIN q : i < j => w[q[i]] >= w[q[j]]

(* A queue stays sorted when w changes without changing its order.         *)
LEMMA SortedRenew ==
  ASSUME NEW q, NEW w, NEW v, SortedBy(q, w),
         \A x, y \in Range(q) : w[x] >= w[y] => v[x] >= v[y]
  PROVE  SortedBy(q, v)
<1>1. \A i \in DOMAIN q : q[i] \in Range(q)
  BY DEF Range
<1> QED
  BY <1>1 DEF SortedBy

(* A part of a sorted queue is sorted.                                     *)
LEMMA SortedKeep ==
  ASSUME NEW T, NEW q \in Seq(T), NEW S, NEW w, SortedBy(q, w)
  PROVE  SortedBy(Keep(q, S), w)
<1> DEFINE k == Keep(q, S)
<1>1. \A a, b \in DOMAIN k : a < b =>
        \E i, j \in DOMAIN q : i < j /\ k[a] = q[i] /\ k[b] = q[j]
  BY KeepProperties
<1> HIDE DEF k
<1>2. SortedBy(k, w)
  BY <1>1 DEF SortedBy
<1> QED
  BY <1>2 DEF k

(* What dequeue leaves of a sorted queue is sorted.                        *)
LEMMA SortedTail ==
  ASSUME NEW T, NEW q \in Seq(T), q # <<>>, NEW w, SortedBy(q, w)
  PROVE  SortedBy(Tail(q), w)
<1>1. /\ Len(Tail(q)) = Len(q) - 1 /\ Len(q) \in Nat
      /\ DOMAIN q = 1..Len(q) /\ DOMAIN Tail(q) = 1..Len(Tail(q))
      /\ \A i \in 1..Len(Tail(q)) : Tail(q)[i] = q[i + 1]
  OBVIOUS
<1> SUFFICES ASSUME NEW i \in DOMAIN Tail(q), NEW j \in DOMAIN Tail(q), i < j
             PROVE  w[Tail(q)[i]] >= w[Tail(q)[j]]
  BY DEF SortedBy
<1>2. i + 1 \in DOMAIN q /\ j + 1 \in DOMAIN q /\ i + 1 < j + 1
  BY <1>1
<1>3. w[q[i + 1]] >= w[q[j + 1]]
  BY <1>2 DEF SortedBy
<1> QED
  BY <1>1, <1>3

(* One sorted queue after another whose members have waited no longer.     *)
LEMMA SortedConcat ==
  ASSUME NEW T, NEW q \in Seq(T), NEW r \in Seq(T), NEW w,
         SortedBy(q, w), SortedBy(r, w),
         \A x \in Range(q), y \in Range(r) : w[x] >= w[y]
  PROVE  SortedBy(q \o r, w)
<1>1. /\ Len(q) \in Nat /\ Len(r) \in Nat
      /\ DOMAIN q = 1..Len(q) /\ DOMAIN r = 1..Len(r)
      /\ DOMAIN (q \o r) = 1..(Len(q) + Len(r))
      /\ \A i \in 1..(Len(q) + Len(r)) :
           (q \o r)[i] = IF i <= Len(q) THEN q[i] ELSE r[i - Len(q)]
  OBVIOUS
<1> SUFFICES ASSUME NEW i \in 1..(Len(q) + Len(r)),
                    NEW j \in 1..(Len(q) + Len(r)), i < j
             PROVE  w[(q \o r)[i]] >= w[(q \o r)[j]]
  BY <1>1 DEF SortedBy
<1>2. CASE j <= Len(q)
  <2>1. /\ i \in DOMAIN q /\ j \in DOMAIN q
        /\ (q \o r)[i] = q[i] /\ (q \o r)[j] = q[j]
    BY <1>1, <1>2
  <2> QED
    BY <2>1 DEF SortedBy
<1>3. CASE Len(q) < i
  <2>1. /\ i - Len(q) \in DOMAIN r /\ j - Len(q) \in DOMAIN r
        /\ i - Len(q) < j - Len(q)
        /\ (q \o r)[i] = r[i - Len(q)] /\ (q \o r)[j] = r[j - Len(q)]
    BY <1>1, <1>3
  <2> QED
    BY <2>1 DEF SortedBy
<1>4. CASE i <= Len(q) /\ Len(q) < j
  <2>1. /\ i \in DOMAIN q /\ j - Len(q) \in DOMAIN r
        /\ (q \o r)[i] = q[i] /\ (q \o r)[j] = r[j - Len(q)]
    BY <1>1, <1>4
  <2>2. q[i] \in Range(q) /\ r[j - Len(q)] \in Range(r)
    BY <2>1 DEF Range
  <2> QED
    BY <2>1, <2>2
<1> QED
  BY <1>1, <1>2, <1>3, <1>4

(* Equal waits are sorted in any order.                                    *)
LEMMA SortedEqual ==
  ASSUME NEW q, NEW w, NEW n \in Int, \A x \in Range(q) : w[x] = n
  PROVE  SortedBy(q, w)
BY DEF SortedBy, Range

(* One more at the end, who has waited no longer than the others.          *)
LEMMA SortedAppend ==
  ASSUME NEW T, NEW q \in Seq(T), NEW e \in T, NEW w, SortedBy(q, w),
         w[e] \in Int, \A x \in Range(q) : w[x] >= w[e]
  PROVE  SortedBy(Append(q, e), w)
<1>1. Append(q, e) = q \o <<e>> /\ <<e>> \in Seq(T)
  OBVIOUS
<1>2. Range(<<e>>) = {e}
  BY SingleQueue
<1>3. SortedBy(<<e>>, w)
  BY <1>2, SortedEqual
<1>4. SortedBy(q \o <<e>>, w)
  <2> HIDE <1>3
  <2> QED
    BY <1>1, <1>2, <1>3, SortedConcat
<1> QED
  BY <1>1, <1>4

(* Who is in a ready queue, and with what type of waiting time.            *)
LEMMA ReadyMembers ==
  ASSUME IInv
  PROVE  /\ \A e \in Envs : InReadyQueue(e) <=>
                              env_status[e] = "READY" /\ ~Yielded(e)
         /\ \A p \in Levels : \A e \in Range(env_ready_queues[p]) :
              e \in Envs /\ InReadyQueue(e) /\ priority[e] = p
         /\ \A e \in Envs : waited[e] \in Nat /\ waited[e] <= MaxWait
<1> USE DEF IInv, QueueInvariant, QueuesMatchStatus
<1>1. \A e \in Envs : priority[e] \in Levels
  BY DEF TypeOK
<1>2. \A e \in Envs : waited[e] \in Nat /\ waited[e] <= MaxWait
  BY SchedConstants DEF TypeOK
<1> QED
  BY <1>1, <1>2 DEF InReadyQueue

(* Steps that touch neither the ready queues nor the waits.                *)
LEMMA AgingUnchanged ==
  ASSUME AgingInv, UNCHANGED <<env_ready_queues, waited, star_th>>
  PROVE  AgingInv'
BY DEF AgingInv, AgingOrder, WaitBound, SortedByWait, QuietWaits, InReadyQueue

(* Nothing waits at the prompt.                                            *)
LEMMA PromptWaits ==
  ASSUME IInv, AgingInv, phase = "prompt"
  PROVE  /\ \A e \in Envs : waited[e] = 0
         /\ \A p \in Levels : Range(env_ready_queues[p]) = {}
<1>1. \A e \in Envs : ~InReadyQueue(e)
  BY ReadyMembers DEF IInv, PromptIsQuiet
<1>2. \A e \in Envs : waited[e] = 0
  BY <1>1 DEF AgingInv, QuietWaits
<1>3. \A p \in Levels : Range(env_ready_queues[p]) = {}
  BY <1>1, ReadyMembers
<1> QED
  BY <1>2, <1>3

(* Empty queues are in order.                                              *)
LEMMA EmptyQueuesAging ==
  ASSUME \A e \in Envs : waited[e] = 0,
         \A p \in Levels : Range(env_ready_queues[p]) = {}
  PROVE  AgingInv
<1>1. \A p \in Levels : DOMAIN env_ready_queues[p] = {}
  BY DEF Range
<1> QED
  BY <1>1 DEF AgingInv, AgingOrder, WaitBound, SortedByWait, QuietWaits

(* schedRR, schedPRIRR and setStarvThr.                                    *)
LEMMA PromptAging ==
  ASSUME IInv, AgingInv, phase = "prompt", waited' = waited,
         \/ env_ready_queues' = env_ready_queues
         \/ env_ready_queues' = [p \in Levels |-> <<>>]
  PROVE  AgingInv'
<1>1. /\ \A e \in Envs : waited[e] = 0
      /\ \A p \in Levels : Range(env_ready_queues[p]) = {}
  BY PromptWaits
<1>2. Range(<<>>) = {}
  BY EmptyQueue
<1>3. \A p \in Levels : Range(env_ready_queues'[p]) = {}
  BY <1>1, <1>2
<1>4. \A e \in Envs : waited'[e] = 0
  BY <1>1
<1>5. \A p \in Levels : DOMAIN env_ready_queues'[p] = {}
  <2>1. ASSUME NEW q, Range(q) = {} PROVE DOMAIN q = {}
    BY <2>1 DEF Range
  <2> QED
    BY <1>3, <2>1
<1> QED
  BY <1>3, <1>4, <1>5
     DEF AgingInv, AgingOrder, WaitBound, SortedByWait, QuietWaits

(* Whoever is made ready enters its queue last and has not waited.         *)
LEMMA InsertReadyAging ==
  ASSUME IInv, AgingInv, NEW s \in Seq(Envs), InsertReady(s),
         \A e \in Range(s) : env_status[e] # "READY", star_th' = star_th
  PROVE  AgingInv'
<1> DEFINE at(p) == {e \in Envs : priority[e] = p}
           q(p) == env_ready_queues[p]
           k(p) == Keep(s, at(p))
<1>1. Range(s) \subseteq Envs
  BY RangeOfSeq
<1>2. \A e \in Envs : waited'[e] = IF e \in Range(s) THEN 0 ELSE waited[e]
  BY DEF InsertReady
<1>3. \A p \in Levels : k(p) \in Seq(Envs) /\ Range(k(p)) \subseteq Range(s)
  <2> SUFFICES ASSUME NEW p \in Levels
               PROVE  k(p) \in Seq(Envs) /\ Range(k(p)) \subseteq Range(s)
    OBVIOUS
  <2>1. k(p) \in Seq(Envs) /\ Range(k(p)) = Range(s) \cap at(p)
    BY KeepProperties
  <2> QED
    BY <2>1
<1>4. \A p \in Levels : q(p) \in Seq(Envs) /\ env_ready_queues'[p] = q(p) \o k(p)
  BY DEF IInv, TypeOK, InsertReady
<1> HIDE DEF k
<1>5. \A p \in Levels : Range(env_ready_queues'[p]) = Range(q(p)) \cup Range(k(p))
  <2> SUFFICES ASSUME NEW p \in Levels
               PROVE  Range(env_ready_queues'[p]) = Range(q(p)) \cup Range(k(p))
    OBVIOUS
  <2>1. Range(q(p) \o k(p)) = Range(q(p)) \cup Range(k(p))
    <3> HIDE DEF q
    <3> QED
      BY <1>3, <1>4, ConcatRange
  <2> QED
    BY <1>4, <2>1
<1>6. \A p \in Levels : \A e \in Range(q(p)) :
        e \in Envs /\ waited'[e] = waited[e] /\ waited[e] \in Nat
  <2>1. \A p \in Levels : \A e \in Range(q(p)) :
          e \in Envs /\ InReadyQueue(e)
    BY ReadyMembers
  <2>2. \A e \in Envs : InReadyQueue(e) => env_status[e] = "READY"
    BY ReadyMembers
  <2>3. \A e \in Envs : waited[e] \in Nat
    BY ReadyMembers
  <2> QED
    BY <1>2, <2>1, <2>2, <2>3
<1>7. \A p \in Levels : \A e \in Range(k(p)) : e \in Envs /\ waited'[e] = 0
  BY <1>1, <1>2, <1>3
<1>8. WaitBound'
  BY <1>5, <1>6, <1>7 DEF AgingInv, AgingOrder, WaitBound
<1>9. SortedByWait'
  <2> SUFFICES ASSUME NEW p \in Levels
               PROVE  SortedBy(env_ready_queues'[p], waited')
    BY DEF SortedBy, SortedByWait
  <2>1. SortedBy(q(p), waited)
    BY DEF AgingInv, AgingOrder, SortedByWait, SortedBy
  <2>2. \A x, y \in Range(q(p)) : waited[x] >= waited[y] => waited'[x] >= waited'[y]
    BY <1>6
  <2> HIDE DEF q
  <2>3. SortedBy(q(p), waited')
    BY <2>1, <2>2, SortedRenew
  <2>4. SortedBy(k(p), waited')
    BY <1>7, SortedEqual
  <2>5. \A x \in Range(q(p)), y \in Range(k(p)) : waited'[x] >= waited'[y]
    BY <1>6, <1>7
  <2>6. SortedBy(q(p) \o k(p), waited')
    BY <1>3, <1>4, <2>3, <2>4, <2>5, SortedConcat
  <2> QED
    BY <1>4, <2>6
<1>10. QuietWaits'
  <2> SUFFICES ASSUME NEW e \in Envs, ~(InReadyQueue(e))' PROVE waited'[e] = 0
    BY DEF QuietWaits
  <2>1. \A p \in Levels : e \notin Range(env_ready_queues'[p])
    BY DEF InReadyQueue
  <2>2. ~InReadyQueue(e)
    BY <1>5, <2>1 DEF InReadyQueue
  <2> QED
    BY <1>2, <2>2 DEF AgingInv, QuietWaits
<1> QED
  BY <1>8, <1>9, <1>10 DEF AgingInv, AgingOrder

(* run: one process is appended to an empty queue.                         *)
LEMMA RunProgramAging ==
  ASSUME IInv, AgingInv, NEW e \in Envs, NEW p \in Levels, RunProgram(e, p)
  PROVE  AgingInv'
<1>1. phase = "prompt"
  BY DEF RunProgram, Created
<1>2. /\ \A f \in Envs : waited[f] = 0
      /\ \A l \in Levels : Range(env_ready_queues[l]) = {}
  BY <1>1, PromptWaits
<1>3. \A f \in Envs : waited'[f] = 0
  BY <1>2 DEF RunProgram, IInv, TypeOK
<1>4. \A l \in Levels : \A f \in Range(env_ready_queues'[l]) : f \in Envs
  <2>1. env_ready_queues' \in [Levels -> Seq(Envs)]
    BY DEF RunProgram, IInv, TypeOK
  <2> QED
    BY <2>1, RangeOfSeq
<1>5. WaitBound' /\ QuietWaits'
  BY <1>3, <1>4 DEF WaitBound, QuietWaits
<1>6. SortedByWait'
  <2>1. \A l \in Levels : SortedBy(env_ready_queues'[l], waited')
    BY <1>3, <1>4, SortedEqual
  <2> QED
    BY <2>1 DEF SortedByWait, SortedBy
<1> QED
  BY <1>5, <1>6 DEF AgingInv, AgingOrder

(* env_set_priority takes a process out of the middle of its queue and puts *)
(* it last in another, with its waiting begun anew.                        *)
LEMMA SetPriorityReadyAging ==
  ASSUME IInv, AgingInv, NEW t \in Envs, NEW p \in Levels,
         SetPriorityReady(t, p), star_th' = star_th
  PROVE  AgingInv'
<1> DEFINE rest(l) == Without(env_ready_queues[l], t)
<1>1. /\ waited'[t] = 0
      /\ \A f \in Envs \ {t} : waited'[f] = waited[f] /\ waited[f] \in Nat
  BY ReadyMembers DEF SetPriorityReady, IInv, TypeOK
<1>2. \A l \in Levels : env_ready_queues[l] \in Seq(Envs)
  BY DEF IInv, TypeOK
<1>3. \A l \in Levels :
        /\ rest(l) \in Seq(Envs)
        /\ Range(rest(l)) = Range(env_ready_queues[l]) \ {t}
        /\ SortedBy(rest(l), waited)
  <2> SUFFICES ASSUME NEW l \in Levels
               PROVE  /\ rest(l) \in Seq(Envs)
                      /\ Range(rest(l)) = Range(env_ready_queues[l]) \ {t}
                      /\ SortedBy(rest(l), waited)
    OBVIOUS
  <2>1. SortedBy(env_ready_queues[l], waited)
    BY DEF AgingInv, AgingOrder, SortedByWait, SortedBy
  <2>2. SortedBy(rest(l), waited)
    BY <1>2, <2>1, SortedKeep DEF Without
  <2> QED
    BY <1>2, <2>2, WithoutRange
<1> HIDE DEF rest
<1>4. \A l \in Levels : \A f \in Range(rest(l)) :
        f \in Envs /\ f # t /\ f \in Range(env_ready_queues[l])
  BY <1>3, ReadyMembers
<1>5. \A l \in Levels : SortedBy(rest(l), waited')
  <2> SUFFICES ASSUME NEW l \in Levels PROVE SortedBy(rest(l), waited')
    OBVIOUS
  <2>1. \A x, y \in Range(rest(l)) : waited[x] >= waited[y] => waited'[x] >= waited'[y]
    BY <1>1, <1>4
  <2> QED
    BY <1>3, <2>1, SortedRenew
<1>6. \A l \in Levels :
        env_ready_queues'[l] = IF l = p THEN Append(rest(l), t) ELSE rest(l)
  BY DEF SetPriorityReady, rest
<1>7. \A l \in Levels :
        /\ SortedBy(env_ready_queues'[l], waited')
        /\ Range(env_ready_queues'[l]) =
             Range(rest(l)) \cup (IF l = p THEN {t} ELSE {})
  <2> SUFFICES ASSUME NEW l \in Levels
               PROVE  /\ SortedBy(env_ready_queues'[l], waited')
                      /\ Range(env_ready_queues'[l]) =
                           Range(rest(l)) \cup (IF l = p THEN {t} ELSE {})
    OBVIOUS
  <2>1. CASE l # p
    BY <1>5, <1>6, <2>1
  <2>2. CASE l = p
    <3>1. \A x \in Range(rest(l)) : waited'[x] >= waited'[t]
      BY <1>1, <1>4
    <3>2. SortedBy(Append(rest(l), t), waited')
      BY <1>1, <1>3, <1>5, <3>1, SortedAppend
    <3>3. Range(Append(rest(l), t)) = Range(rest(l)) \cup {t}
      BY <1>3, AppendRange
    <3> QED
      BY <1>6, <2>2, <3>2, <3>3
  <2> QED
    BY <2>1, <2>2
<1>8. WaitBound'
  BY <1>1, <1>4, <1>7 DEF AgingInv, AgingOrder, WaitBound
<1>9. SortedByWait'
  BY <1>7 DEF SortedByWait, SortedBy
<1>10. QuietWaits'
  <2> SUFFICES ASSUME NEW e \in Envs, ~(InReadyQueue(e))' PROVE waited'[e] = 0
    BY DEF QuietWaits
  <2>1. \A l \in Levels : e \notin Range(env_ready_queues'[l])
    BY DEF InReadyQueue
  <2>2. e # t => ~InReadyQueue(e)
    BY <1>3, <1>7, <2>1 DEF InReadyQueue
  <2> QED
    BY <1>1, <2>2 DEF AgingInv, QuietWaits
<1> QED
  BY <1>8, <1>9, <1>10 DEF AgingInv, AgingOrder

(* The scan: those who stay at a level have waited one tick more and no    *)
(* more than star_th; those who come count as having waited one.           *)
LEMMA ClockInterruptAging ==
  ASSUME IInv, AgingInv, NEW e \in Envs, ClockInterrupt(e)
  PROVE  AgingInv'
<1> USE DEF ClockInterrupt, Sched, config
<1> DEFINE q(l) == env_ready_queues[l]
           stay(p) == Keep(q(p), Range(q(p)) \ Expired(p))
           come(p) == IF p + 1 \in Levels THEN Promoted(p + 1) ELSE <<>>
<1>0. /\ MaxWait \in Nat /\ star_th \in Nat /\ star_th < MaxWait
      /\ CapWait(1) = 1
  BY SchedConstants DEF IInv, TypeOK, CapWait
<1>1. ASSUME NEW p \in Levels
      PROVE  /\ stay(p) \in Seq(Envs)
             /\ Range(stay(p)) = Range(q(p)) \ Expired(p)
             /\ SortedBy(stay(p), waited)
  <2>1. q(p) \in Seq(Envs) /\ SortedBy(q(p), waited)
    BY DEF IInv, TypeOK, AgingInv, AgingOrder, SortedByWait, SortedBy
  <2> HIDE DEF q
  <2>2. /\ stay(p) \in Seq(Envs)
        /\ Range(stay(p)) = Range(q(p)) \cap (Range(q(p)) \ Expired(p))
    BY <2>1, KeepProperties
  <2>3. SortedBy(stay(p), waited)
    BY <2>1, SortedKeep
  <2> QED
    BY <2>2, <2>3
<1>2. ASSUME NEW p \in Levels
      PROVE  /\ come(p) \in Seq(Envs)
             /\ \A f \in Range(come(p)) : f \in AllExpired
  <2>1. CASE p + 1 \notin Levels
    BY <2>1, EmptyQueue
  <2>2. CASE p + 1 \in Levels
    <3> DEFINE k == Keep(q(p + 1), Expired(p + 1))
    <3>1. q(p + 1) \in Seq(Envs)
      BY <2>2 DEF IInv, TypeOK
    <3>2. k \in Seq(Envs) /\ Range(k) = Range(q(p + 1)) \cap Expired(p + 1)
      BY <3>1, KeepProperties
    <3>3. come(p) = ForEachOrder(k)
      BY <2>2 DEF Promoted
    <3> HIDE DEF k
    <3>4. come(p) \in Seq(Envs) /\ Range(come(p)) = Range(k)
      BY <3>2, <3>3, ForEachRange
    <3>5. \A f \in Expired(p + 1) : f \in AllExpired
      BY <2>2 DEF AllExpired
    <3> QED
      BY <3>2, <3>4, <3>5
  <2> QED
    BY <2>1, <2>2
<1>3. \A p \in Levels : env_ready_queues'[p] = stay(p) \o come(p)
  BY DEF AgedQueues
<1> HIDE DEF stay, come
<1>4. ASSUME NEW p \in Levels, NEW f \in Range(stay(p))
      PROVE  /\ f \in Envs /\ waited[f] \in Nat /\ waited[f] <= MaxWait
             /\ waited'[f] = CapWait(waited[f] + 1)
             /\ p # 0 => waited[f] < star_th
  <2>1. f \in Range(q(p)) /\ f \notin Expired(p)
    BY <1>1, <1>4
  <2>2. f \in Envs /\ InReadyQueue(f) /\ priority[f] = p
    BY <2>1, ReadyMembers
  <2>3. f \notin AllExpired
    BY <2>1, <2>2, ExpiredProperties
  <2>4. waited[f] \in Nat /\ waited[f] <= MaxWait
    BY <2>2, ReadyMembers
  <2>5. waited'[f] = CapWait(waited[f] + 1)
    BY <2>2, <2>3
  <2>6. p # 0 => waited[f] < star_th
    <3> SUFFICES ASSUME p # 0 PROVE waited[f] < star_th
      OBVIOUS
    <3>1. env_status[f] = "READY"
      BY <2>2, ReadyMembers
    <3>2. p \in Nat /\ p < num_of_ready_queues
      BY <2>2, <3>1 DEF IInv, LevelInvariant, Queued, Levels
    <3>3. /\ num_of_ready_queues \in Nat
          /\ scheduler_method \in {"RR", "PRIRR"}
          /\ scheduler_method = "RR" => num_of_ready_queues = 1
      BY DEF IInv, TypeOK, LevelInvariant
    <3>4. scheduler_method = "PRIRR" /\ p \in Used \ {0}
      BY <3>2, <3>3 DEF Used
    <3>5. ~(waited[f] >= star_th)
      BY <2>1, <3>4 DEF Expired
    <3> QED
      BY <1>0, <2>4, <3>5
  <2> QED
    BY <2>2, <2>4, <2>5, <2>6
<1>5. \A p \in Levels : \A f \in Range(come(p)) : f \in Envs /\ waited'[f] = 1
  <2>1. \A p \in Levels : Range(come(p)) \subseteq Envs
    BY <1>2, RangeOfSeq
  <2> QED
    BY <1>0, <1>2, <2>1
<1>6. ASSUME NEW p \in Levels
      PROVE  /\ SortedBy(env_ready_queues'[p], waited')
             /\ Range(env_ready_queues'[p]) = Range(stay(p)) \cup Range(come(p))
  <2>1. \A x, y \in Range(stay(p)) :
          waited[x] >= waited[y] => waited'[x] >= waited'[y]
    BY <1>0, <1>4 DEF CapWait
  <2>2. SortedBy(stay(p), waited')
    BY <1>1, <2>1, SortedRenew
  <2>3. SortedBy(come(p), waited')
    BY <1>5, SortedEqual
  <2>4. \A x \in Range(stay(p)), y \in Range(come(p)) : waited'[x] >= waited'[y]
    BY <1>0, <1>4, <1>5 DEF CapWait
  <2>5. stay(p) \in Seq(Envs) /\ come(p) \in Seq(Envs)
    BY <1>1, <1>2
  <2>6. SortedBy(stay(p) \o come(p), waited')
    BY <2>2, <2>3, <2>4, <2>5, SortedConcat
  <2>7. Range(stay(p) \o come(p)) = Range(stay(p)) \cup Range(come(p))
    BY <2>5, ConcatRange
  <2> QED
    BY <1>3, <2>6, <2>7
<1>7. WaitBound'
  <2> SUFFICES ASSUME NEW p \in Levels \ {0},
                      NEW f \in Range(env_ready_queues'[p])
               PROVE  waited'[f] <= star_th' \/ waited'[f] <= 1
    BY DEF WaitBound
  <2>1. f \in Range(stay(p)) \/ f \in Range(come(p))
    BY <1>6
  <2> QED
    BY <1>0, <1>4, <1>5, <2>1 DEF CapWait
<1>8. SortedByWait'
  BY <1>6 DEF SortedByWait, SortedBy
<1>9. QuietWaits'
  <2> SUFFICES ASSUME NEW f \in Envs, ~(InReadyQueue(f))' PROVE waited'[f] = 0
    BY DEF QuietWaits
  <2>1. \A p \in Levels : f \notin Range(AgedQueues[p])
    BY DEF InReadyQueue
  <2>2. priority[f] \in Levels
    BY DEF IInv, TypeOK
  <2>3. AgedPriority(f) \in Levels
    <3>1. f \in AllExpired => priority[f] # 0
      BY <2>2, ExpiredProperties
    <3> QED
      BY <2>2, <3>1, SchedConstants DEF AgedPriority, Levels
  <2>4. env_status[f] # "READY"
    BY <2>1, <2>3, AgedQueuesProperties
  <2>5. f \notin AllExpired
    BY <2>2, <2>4, ExpiredProperties
  <2>6. ~InReadyQueue(f)
    BY <2>4, ReadyMembers
  <2> QED
    BY <2>5, <2>6 DEF AgingInv, QuietWaits
<1> QED
  BY <1>7, <1>8, <1>9 DEF AgingInv, AgingOrder

(* sched_next: the queues with the process that yielded back in them are   *)
(* sorted too, for it comes last and has not waited.                       *)
LEMMA RequeuedAging ==
  ASSUME IInv, AgingInv, phase = "sched"
  PROVE  /\ \A e \in Envs : RequeuedWait(e) = waited[e]
         /\ \A e \in Envs : env_status[e] # "READY" => waited[e] = 0
         /\ proc # NoEnv => waited[proc] = 0
         /\ \A p \in Levels : SortedBy(Requeued[p], waited)
<1>1. proc # NoEnv => proc \in Envs /\ waited[proc] = 0
  <2> SUFFICES ASSUME proc # NoEnv PROVE proc \in Envs /\ waited[proc] = 0
    OBVIOUS
  <2>1. proc \in Envs
    BY DEF IInv, TypeOK
  <2>2. ~InReadyQueue(proc)
    BY <2>1, ReadyMembers DEF Yielded
  <2> QED
    BY <2>1, <2>2 DEF AgingInv, QuietWaits
<1>2. \A e \in Envs : RequeuedWait(e) = waited[e]
  BY <1>1, SchedConstants DEF RequeuedWait
<1>3. \A e \in Envs : env_status[e] # "READY" => waited[e] = 0
  BY ReadyMembers DEF AgingInv, QuietWaits
<1>4. ASSUME NEW p \in Levels
      PROVE  SortedBy(Requeued[p], waited)
  <2>1. /\ SortedBy(env_ready_queues[p], waited)
        /\ env_ready_queues[p] \in Seq(Envs)
    BY DEF AgingInv, AgingOrder, SortedByWait, SortedBy, IInv, TypeOK
  <2>2. CASE Requeued[p] = env_ready_queues[p]
    BY <2>1, <2>2
  <2>3. CASE Requeued[p] # env_ready_queues[p]
    <3>1. proc # NoEnv /\ Requeued[p] = Append(env_ready_queues[p], proc)
      <4>1. env_ready_queues \in [Levels -> Seq(Envs)]
        BY DEF IInv, TypeOK
      <4> QED
        BY <2>3, <4>1 DEF Requeued
    <3>2. \A x \in Range(env_ready_queues[p]) : waited[x] >= waited[proc]
      <4>1. \A x \in Range(env_ready_queues[p]) : waited[x] \in Nat
        BY ReadyMembers
      <4> QED
        BY <1>1, <3>1, <4>1
    <3>3. proc \in Envs /\ waited[proc] \in Int
      BY <1>1, <3>1
    <3> QED
      BY <2>1, <3>1, <3>2, <3>3, SortedAppend
  <2> QED
    BY <2>2, <2>3
<1> QED
  BY <1>1, <1>2, <1>3, <1>4

(* The head of the most urgent queue leaves it for the CPU.                *)
LEMMA DispatchAging ==
  ASSUME IInv, AgingInv, NEW e \in Envs, Dispatch(e)
  PROVE  AgingInv' /\ MostUrgent(e)
<1> USE DEF Dispatch, config
<1>0. phase = "sched"
  OBVIOUS
<1>1. PICK p \in Levels :
        /\ FirstNonEmpty(Requeued, p) /\ e = Head(Requeued[p])
        /\ env_ready_queues' = [Requeued EXCEPT ![p] = Tail(@)]
  OBVIOUS
<1> DEFINE q == Requeued[p]
<1>2. /\ Requeued \in [Levels -> Seq(Envs)]
      /\ \A l \in Levels :
           /\ IsInjective(Requeued[l])
           /\ Range(Requeued[l]) =
                {f \in Envs : env_status[f] = "READY" /\ priority[f] = l}
  BY <1>0, RequeuedProperties
<1>3. /\ \A f \in Envs : RequeuedWait(f) = waited[f]
      /\ \A f \in Envs : env_status[f] # "READY" => waited[f] = 0
      /\ proc # NoEnv => waited[proc] = 0
      /\ \A l \in Levels : SortedBy(Requeued[l], waited)
  BY <1>0, RequeuedAging
<1>4. q \in Seq(Envs) /\ q # <<>> /\ IsInjective(q)
  BY <1>1, <1>2 DEF FirstNonEmpty
<1>5. /\ e \in Range(q) /\ Range(Tail(q)) = Range(q) \ {e}
      /\ SortedBy(Tail(q), waited)
  <2>1. SortedBy(q, waited) /\ e = Head(q)
    BY <1>1, <1>3
  <2> HIDE DEF q
  <2> QED
    BY <1>4, <2>1, TailRange, SortedTail
<1>6. env_status[e] = "READY" /\ priority[e] = p
  BY <1>2, <1>5
<1>7. \A f \in Envs : /\ waited'[f] = IF f = e THEN 0 ELSE waited[f]
                      /\ waited[f] \in Nat
  BY <1>3, ReadyMembers
<1>8. ASSUME NEW l \in Levels
      PROVE  /\ \A f \in Range(env_ready_queues'[l]) :
                  f \in Range(Requeued[l]) /\ f \in Envs \ {e}
             /\ \A f \in Range(Requeued[l]) :
                  f = e \/ f \in Range(env_ready_queues'[l])
             /\ SortedBy(env_ready_queues'[l], waited)
  <2>1. CASE l = p
    <3>1. env_ready_queues'[l] = Tail(q)
      BY <1>1, <1>2, <2>1
    <3> QED
      BY <1>2, <1>5, <2>1, <3>1
  <2>2. CASE l # p
    <3>1. env_ready_queues'[l] = Requeued[l]
      BY <1>1, <1>2, <2>2
    <3>2. \A f \in Range(Requeued[l]) : f \in Envs \ {e}
      BY <1>2, <1>6, <2>2
    <3> QED
      BY <1>3, <3>1, <3>2
  <2> QED
    BY <2>1, <2>2
<1>9. WaitBound'
  <2> SUFFICES ASSUME NEW l \in Levels \ {0},
                      NEW f \in Range(env_ready_queues'[l])
               PROVE  waited'[f] <= star_th' \/ waited'[f] <= 1
    BY DEF WaitBound
  <2>1. /\ f \in Envs \ {e} /\ f \in Range(Requeued[l])
        /\ waited'[f] = waited[f] /\ star_th' = star_th
    BY <1>7, <1>8
  <2>2. CASE InReadyQueue(f)
    <3>1. env_status[f] = "READY" /\ priority[f] = l
      BY <1>2, <2>1
    <3>2. f \in Range(env_ready_queues[l])
      BY <2>1, <2>2, <3>1, ReadyMembers DEF InReadyQueue
    <3> QED
      BY <2>1, <3>2 DEF AgingInv, AgingOrder, WaitBound
  <2>3. CASE ~InReadyQueue(f)
    BY <2>1, <2>3 DEF AgingInv, QuietWaits
  <2> QED
    BY <2>2, <2>3
<1>10. SortedByWait'
  <2> SUFFICES ASSUME NEW l \in Levels
               PROVE  SortedBy(env_ready_queues'[l], waited')
    BY DEF SortedByWait, SortedBy
  <2>1. \A x, y \in Range(env_ready_queues'[l]) :
          waited[x] >= waited[y] => waited'[x] >= waited'[y]
    BY <1>7, <1>8
  <2> QED
    BY <1>8, <2>1, SortedRenew
<1>11. QuietWaits'
  <2> SUFFICES ASSUME NEW f \in Envs, ~(InReadyQueue(f))' PROVE waited'[f] = 0
    BY DEF QuietWaits
  <2>1. CASE f = e
    BY <1>7, <2>1
  <2>2. CASE f # e
    <3>1. priority[f] \in Levels
      BY DEF IInv, TypeOK
    <3>2. f \notin Range(Requeued[priority[f]])
      BY <1>8, <2>2, <3>1 DEF InReadyQueue
    <3>3. env_status[f] # "READY"
      BY <1>2, <3>1, <3>2
    <3> QED
      BY <1>3, <1>7, <2>2, <3>3
  <2> QED
    BY <2>1, <2>2
<1>12. MostUrgent(e)
  <2> SUFFICES ASSUME NEW f \in Envs \ {e}, env_status'[f] = "READY"
               PROVE  \/ priority[f] > priority[e]
                      \/ priority[f] = priority[e] /\ waited'[f] <= waited[e]
    BY DEF MostUrgent
  <2>1. env_status[f] = "READY"
    BY DEF IInv, TypeOK
  <2>2. priority[f] \in Levels /\ f \in Range(Requeued[priority[f]])
    BY <1>2, <2>1 DEF IInv, TypeOK
  <2>3. ~(priority[f] < p)
    BY <1>1, <2>2, EmptyQueue DEF FirstNonEmpty
  <2>4. CASE priority[f] # p
    BY <1>6, <2>2, <2>3, <2>4 DEF Levels
  <2>5. CASE priority[f] = p
    <3>1. PICK i \in DOMAIN q : q[i] = f
      BY <2>2, <2>5 DEF Range
    <3>2. /\ SortedBy(q, waited) /\ q[1] = e
          /\ DOMAIN q = 1..Len(q) /\ Len(q) \in Nat
      BY <1>1, <1>3, <1>4
    <3>3. i # 1 /\ 1 \in DOMAIN q /\ 1 < i
      BY <3>1, <3>2
    <3>4. waited[e] >= waited[f]
      BY <3>1, <3>2, <3>3 DEF SortedBy
    <3> QED
      BY <1>6, <1>7, <2>5, <3>4
  <2> QED
    BY <2>4, <2>5
<1> QED
  BY <1>9, <1>10, <1>11, <1>12 DEF AgingInv, AgingOrder

(* Each action keeps the queues in order.                                  *)
LEMMA NextAging == IInv /\ AgingInv /\ [Next]_vars => AgingInv'
<1> SUFFICES ASSUME IInv, AgingInv, [Next]_vars PROVE AgingInv'
  OBVIOUS
<1> USE DEF config, queues
<1>1. CASE PromptCommand
  <2>1. ASSUME NEW e \in Envs, NEW p \in Levels, Load(e, p)
        PROVE  AgingInv'
    BY <2>1, AgingUnchanged DEF Load
  <2>2. ASSUME RunAll PROVE AgingInv'
    <3>1. env_new_queue \in Seq(Envs) /\ InsertReady(env_new_queue)
      BY <2>2 DEF RunAll, IInv, TypeOK
    <3>2. \A e \in Range(env_new_queue) : env_status[e] # "READY"
      BY DEF IInv, QueueInvariant, QueuesMatchStatus
    <3> QED
      BY <2>2, <3>1, <3>2, InsertReadyAging DEF RunAll
  <2>3. ASSUME NEW t \in Thresholds, SetStarvThresh(t) PROVE AgingInv'
    BY <2>3, PromptAging DEF SetStarvThresh
  <2>4. ASSUME NEW m, NEW n, NEW t, SchedInit(m, n, t) PROVE AgingInv'
    BY <2>4, PromptAging DEF SchedInit
  <2> QED
    BY <1>1, <2>1, <2>2, <2>3, <2>4, RunProgramAging
       DEF PromptCommand, SchedInitRR, SchedInitPRIRR
<1>2. ASSUME NEW e \in Envs, SystemCall(e) PROVE AgingInv'
  <2>1. ASSUME NEW n \in Envs, RunEnv(e, n) PROVE AgingInv'
    <3>1. <<n>> \in Seq(Envs) /\ Range(<<n>>) = {n}
      BY SingleQueue
    <3>2. env_status[n] # "READY"
      BY <2>1 DEF RunEnv, IInv, QueueInvariant, QueuesMatchStatus
    <3> QED
      BY <2>1, <3>1, <3>2, InsertReadyAging DEF RunEnv
  <2> QED
    BY <1>2, <2>1, AgingUnchanged
       DEF SystemCall, CreateEnv, SchedNewEnv, Sleep, ExitEnv, Sched
<1>3. CASE SetPriority
  BY <1>3, AgingUnchanged, SetPriorityReadyAging
     DEF SetPriority, EnvSetPriority, SetPriorityElse
<1>4. ASSUME NEW c \in Chans, WakeupOne(c) \/ WakeupAll(c) PROVE AgingInv'
  <2> DEFINE q == chan_queue[c]
  <2>1. q \in Seq(Envs) /\ q # <<>>
    BY <1>4 DEF WakeupOne, WakeupAll, IInv, TypeOK
  <2>2. \A e \in Range(q) : env_status[e] # "READY"
    BY DEF IInv, QueueInvariant, QueuesMatchStatus
  <2>3. PICK s, rest : WakeupFrom(c, s, rest) /\ (s = <<Head(q)>> \/ s = q)
    BY <1>4 DEF WakeupOne, WakeupAll
  <2> HIDE DEF q
  <2>4. s \in Seq(Envs) /\ Range(s) \subseteq Range(q)
    <3>1. Head(q) \in Envs /\ Head(q) \in Range(q)
      BY <2>1, TailRange
    <3>2. <<Head(q)>> \in Seq(Envs) /\ Range(<<Head(q)>>) = {Head(q)}
      BY <3>1, SingleQueue
    <3> QED
      BY <2>1, <2>3, <3>1, <3>2
  <2> QED
    BY <2>2, <2>3, <2>4, InsertReadyAging DEF WakeupFrom
<1>5. CASE Clock
  BY <1>5, ClockInterruptAging DEF Clock
<1>6. CASE SchedulerStep
  BY <1>6, DispatchAging, AgingUnchanged DEF SchedulerStep, NothingReady, Reacquire
<1>7. CASE UNCHANGED vars
  BY <1>7, AgingUnchanged DEF vars
<1> QED
  BY <1>1, <1>2, <1>3, <1>4, <1>5, <1>6, <1>7 DEF Next, Wakeup

(* Every reachable state satisfies the strengthened invariant.             *)
THEOREM AgingInvariance == Spec => []AgingInv
<1>1. Init => AgingInv
  <2>1. Range(<<>>) = {}
    BY EmptyQueue
  <2> QED
    BY <2>1, EmptyQueuesAging DEF Init
<1>2. IInv /\ AgingInv /\ [Next]_vars => AgingInv'
  BY NextAging
<1> QED
  BY <1>1, <1>2, Invariance, PTL DEF Spec

(* However the queues are filled, scanned and emptied, every ready queue   *)
(* stays sorted by waiting time, and below the top level no wait exceeds   *)
(* the starvation threshold.                                               *)
THEOREM AgingCorrect == Spec => []AgingOrder
<1>1. AgingInv => AgingOrder
  BY DEF AgingInv
<1> QED
  BY <1>1, AgingInvariance, PTL

(* Only the dispatch makes a process the running one.                      *)
LEMMA OnlyDispatchRuns ==
  ASSUME IInv, [Next]_vars, NEW e \in Envs,
         env_status[e] # "RUNNING", env_status'[e] = "RUNNING"
  PROVE  Dispatch(e)
<1>0. env_status \in [Envs -> Status]
  BY DEF IInv, TypeOK
<1>1. \A s : InsertReady(s) => FALSE
  BY DEF InsertReady
<1>2. ~PromptCommand
  BY <1>0, <1>1 DEF PromptCommand, Load, RunProgram, RunAll, SetStarvThresh,
       SchedInitRR, SchedInitPRIRR, SchedInit
<1>3. \A f \in Envs : ~SystemCall(f)
  BY <1>0, <1>1 DEF SystemCall, CreateEnv, RunEnv, SchedNewEnv, Sleep, ExitEnv,
       Sched
<1>4. ~SetPriority /\ ~Wakeup /\ ~Clock
  BY <1>0, <1>1 DEF SetPriority, EnvSetPriority, SetPriorityReady,
       SetPriorityElse, Wakeup, WakeupOne, WakeupAll, WakeupFrom, Clock,
       ClockInterrupt, Sched
<1>5. SchedulerStep => Dispatch(e)
  BY <1>0 DEF SchedulerStep, Dispatch, NothingReady, Reacquire
<1> QED
  BY <1>2, <1>3, <1>4, <1>5 DEF Next, vars

(* The process that gets the CPU is one that nobody precedes, neither at a *)
(* more urgent level nor, by waiting longer, at its own.                   *)
THEOREM DispatchCorrect == Spec => DispatchOrder
<1> DEFINE Step == \A e \in Envs : env_status[e] # "RUNNING"
                     /\ env_status'[e] = "RUNNING" => MostUrgent(e)
<1>1. IInv /\ AgingInv /\ [Next]_vars => [Step]_vars
  <2> SUFFICES ASSUME IInv, AgingInv, [Next]_vars PROVE Step
    OBVIOUS
  <2> QED
    BY OnlyDispatchRuns, DispatchAging
<1> QED
  BY <1>1, AgingInvariance, Invariance, PTL DEF Spec, DispatchOrder

(* Only aging changes the priority of a process without being asked to: by *)
(* one level, and after a full threshold of waiting.                       *)
THEOREM AgingStepCorrect == Spec => AgingStep
<1> DEFINE Moved(e) == \/ env_status[e] = "FREE"
                       \/ /\ priority'[e] = priority[e] - 1
                          /\ env_status[e] = "READY" /\ waited[e] >= star_th
           Step == ~SetPriority =>
                     \A e \in Envs : priority'[e] # priority[e] => Moved(e)
<1>1. IInv /\ [Next]_vars => [Step]_vars
  <2> SUFFICES ASSUME IInv, [Next]_vars, ~SetPriority, NEW e \in Envs,
                      priority'[e] # priority[e]
               PROVE  Moved(e)
    OBVIOUS
  <2>0. priority \in [Envs -> Levels]
    BY DEF IInv, TypeOK
  <2>1. CASE PromptCommand
    <3>1. \A f \in Envs, p \in Levels : Created(f, p) => Moved(e)
      BY <2>0 DEF Created
    <3> QED
      BY <2>1, <3>1 DEF PromptCommand, Load, RunProgram, RunAll, SetStarvThresh,
           SchedInitRR, SchedInitPRIRR, SchedInit
  <2>2. CASE Clock
    <3>1. phase = "run" /\ priority'[e] = AgedPriority(e)
      BY <2>2 DEF Clock, ClockInterrupt
    <3>2. e \in AllExpired /\ priority'[e] = priority[e] - 1
      BY <3>1 DEF AgedPriority
    <3>3. priority[e] \in Levels /\ e \in Expired(priority[e])
      BY <2>0, <3>1, <3>2, ExpiredProperties
    <3>4. env_status[e] = "READY" /\ waited[e] >= star_th
      BY <3>1, <3>3, ExpiredProperties DEF Expired
    <3> QED
      BY <3>2, <3>4
  <2>3. \A f \in Envs : ~SystemCall(f)
    BY DEF SystemCall, CreateEnv, RunEnv, SchedNewEnv, Sleep, ExitEnv
  <2>4. ~Wakeup /\ ~SchedulerStep
    BY DEF Wakeup, WakeupOne, WakeupAll, WakeupFrom, SchedulerStep, Dispatch,
         NothingReady, Reacquire
  <2> QED
    BY <2>1, <2>2, <2>3, <2>4 DEF Next, vars
<1> QED
  BY <1>1, Invariance, PTL DEF Spec, AgingStep
==============================================================================

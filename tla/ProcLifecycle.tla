---------------------------- MODULE ProcLifecycle ----------------------------
(***************************************************************************)
(* What the scheduler promises about the life of a process, whatever the   *)
(* queues, priorities and clocks behind it: the states a process may pass  *)
(* through, in which order, and that one CPU runs at most one process.     *)
(* Scheduler.tla is shown to implement this specification.                 *)
(***************************************************************************)
EXTENDS FiniteSets

CONSTANTS Envs, NoEnv

VARIABLES state,    \* the state of each process
          running   \* the process on the CPU, or NoEnv

vars == <<state, running>>

Init == /\ state = [e \in Envs |-> "FREE"]
        /\ running = NoEnv

(* Every member of S goes from one state to another, none of them through  *)
(* the CPU.                                                                *)
Move(S, from, to) ==
  /\ S # {}
  /\ \A e \in S : state[e] = from
  /\ state' = [e \in Envs |-> IF e \in S THEN to ELSE state[e]]
  /\ UNCHANGED running

Create(e) == Move({e}, "FREE", "NEW")
Launch(e) == Move({e}, "FREE", "READY")
Admit(S)  == Move(S, "NEW", "READY")
Wake(S)   == Move(S, "BLOCKED", "READY")

(* The CPU takes a ready process, and gives it up in one of three ways.    *)
Dispatch(e) ==
  /\ running = NoEnv /\ state[e] = "READY"
  /\ running' = e
  /\ state' = [state EXCEPT ![e] = "RUNNING"]

GiveUp(e, to) ==
  /\ running = e /\ state[e] = "RUNNING"
  /\ running' = NoEnv
  /\ state' = [state EXCEPT ![e] = to]

Preempt(e) == GiveUp(e, "READY")
Block(e)   == GiveUp(e, "BLOCKED")
Exit(e)    == GiveUp(e, "EXIT")

Next == \/ \E e \in Envs : Create(e) \/ Launch(e) \/ Dispatch(e)
        \/ \E e \in Envs : Preempt(e) \/ Block(e) \/ Exit(e)
        \/ \E S \in SUBSET Envs : Admit(S) \/ Wake(S)

Spec == Init /\ [][Next]_vars
==============================================================================

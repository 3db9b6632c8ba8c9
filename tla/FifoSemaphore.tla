---------------------------- MODULE FifoSemaphore ----------------------------
(***************************************************************************)
(* What a semaphore of the kernel promises: permits, and a queue of        *)
(* waiting processes served in the order of their arrival.  A permit that  *)
(* is given back while somebody waits goes straight to the oldest waiter,  *)
(* so that nobody overtakes him.  KSemaphore.tla is shown to implement it. *)
(***************************************************************************)
EXTENDS Naturals, Sequences

CONSTANTS Procs, Value

VARIABLES
  free,     \* permits nobody has
  inside,   \* the processes that have one
  queue     \* the processes that wait for one, oldest first

vars == <<free, inside, queue>>

Init == free = Value /\ inside = {} /\ queue = <<>>

Outside(p) == p \notin inside /\ \A i \in DOMAIN queue : queue[i] # p

Enter(p) ==
  /\ Outside(p) /\ free > 0
  /\ free' = free - 1 /\ inside' = inside \cup {p}
  /\ UNCHANGED queue

Join(p) ==
  /\ Outside(p) /\ free = 0
  /\ queue' = Append(queue, p)
  /\ UNCHANGED <<free, inside>>

(* A permit comes back, and S are the processes that stay inside.          *)
GiveBack(S) ==
  \/ /\ queue = <<>>
     /\ free' = free + 1 /\ inside' = S
     /\ UNCHANGED queue
  \/ /\ queue # <<>>
     /\ inside' = S \cup {Head(queue)} /\ queue' = Tail(queue)
     /\ UNCHANGED free

Leave(p) == p \in inside /\ GiveBack(inside \ {p})
Post == GiveBack(inside)

Next == Post \/ \E p \in Procs : Enter(p) \/ Join(p) \/ Leave(p)

Spec == Init /\ [][Next]_vars
==============================================================================

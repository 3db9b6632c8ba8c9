----------------------------- MODULE MCScheduler -----------------------------
(* Three processes, up to three priority levels, one channel.              *)
EXTENDS Scheduler
==============================================================================

----------------------------- MODULE MCSleepLock -----------------------------
(* Three processes and one lock.                                           *)
EXTENDS SleepLock
==============================================================================

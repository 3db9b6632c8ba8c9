---------------------------- MODULE MCKSemaphore ----------------------------
(* Three processes, one permit and one signal from the keyboard.           *)
EXTENDS KSemaphore
==============================================================================

------------------------------ MODULE MCConsole ------------------------------
(* Two processes and a buffer of three characters that can overflow.       *)
EXTENDS Console
==============================================================================

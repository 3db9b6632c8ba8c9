--------------------------- MODULE MCOptimalFaults ---------------------------
(* Five pages in a working set of three, full or not when the process      *)
(* starts.                                                                 *)
EXTENDS OptimalFaults

CONSTANTS a, b, c, d, e

MCPages == {a, b, c, d, e}
MCInitialLists == {<<a, b>>, <<a, b, c>>}
==============================================================================

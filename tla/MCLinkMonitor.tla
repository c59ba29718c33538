--------------------------- MODULE MCLinkMonitor ---------------------------
(* LinkMonitor for TLC: a clock of 11 ticks with a reading every 3 keeps     *)
(* the proportions that matter (several readings per turn of the clock, a    *)
(* wrap between two readings at every offset).                               *)
EXTENDS LinkMonitor
=============================================================================

------------------------------ MODULE MCReboot ------------------------------
(* Reboot for TLC: a clock of TimeMod ticks so that a delay starts at every   *)
(* distance from the wrap.                                                   *)
EXTENDS Reboot
=============================================================================

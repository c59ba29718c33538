--------------------------- MODULE MCSysTimeouts ---------------------------
(* SysTimeouts for TLC: the TCP timer and two cyclic timers, one shorter than *)
(* a slow pass of the main loop, on a clock that does not wrap at a tick.     *)
EXTENDS SysTimeouts

Intervals == <<6, 3, 6>>
=============================================================================

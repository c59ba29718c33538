------------------------------- MODULE Timer0 -------------------------------
(***************************************************************************)
(* The 10 ms clock of timer0.c, a uint32_t that its interrupt handler       *)
(* counts up and every pass of the loop of main() reads.                    *)
(***************************************************************************)
EXTENDS Naturals

CONSTANTS
  TimeMod,     \* 2^32: time_10ms counts modulo TimeMod
  MaxLag       \* ticks one pass of the main loop may take

VARIABLES
  time,        \* time_10ms
  lag          \* history: ticks in this pass of the main loop

Times == 0 .. TimeMod - 1

\* Addition of uint32_t.
Plus(a, b) == IF a + b >= TimeMod THEN a + b - TimeMod ELSE a + b

TMR0_IRQHandler ==
  /\ lag < MaxLag
  /\ time' = Plus(time, 1)
  /\ lag' = lag + 1
=============================================================================

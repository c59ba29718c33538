------------------------------- MODULE Reboot -------------------------------
(***************************************************************************)
(* The main loop of Main.c with the 10 ms timer of timer0.c: a web request  *)
(* may switch the LED or ask for a reboot, which arms reset_delay; the loop *)
(* tests the delay on every pass and resets the processor when it is over.  *)
(* reset_delay is a local of main() that is not initialised: its first      *)
(* value is whatever the memory holds.                                      *)
(***************************************************************************)
EXTENDS Timer0

CONSTANTS
  ResetDelay,  \* 200: the argument of timer0_init_wait_10ms
  WaitCap      \* bound: the history variable waited stops counting here

ASSUME RebootAssumption ==
  /\ TimeMod \in Nat /\ ResetDelay \in Nat /\ MaxLag \in Nat /\ WaitCap \in Nat
  /\ 0 < ResetDelay /\ ResetDelay < TimeMod /\ TimeMod <= WaitCap

VARIABLES
  action_reboot,
  reset_delay,     \* struct Timer0Delay
  led,             \* GPIOB pin 0
  pc,              \* place in the loop of main()
  armed,           \* history: reset_delay was set since boot
  waited,          \* history: ticks since reset_delay was set
  boot             \* history: flips at every reset

rebootVars == <<time, action_reboot, reset_delay, led, pc, lag, armed, waited, boot>>

Params == {"none", "reboot", "led_on", "led_off", "other"}

\* Reset_Handler and main() up to its loop. SystemInit, led_init, InitTimer0,
\* lwip_comm_init and httpd_init come before it.
Boot ==
  /\ time' = 0 /\ action_reboot' = FALSE /\ led' = 0
  /\ reset_delay' \in [started : Times, delay_10ms : Times]
  /\ pc' = "arm" /\ lag' = 0 /\ armed' = FALSE /\ waited' = 0

RebootInit ==
  /\ time = 0 /\ action_reboot = FALSE /\ led = 0
  /\ reset_delay \in [started : Times, delay_10ms : Times]
  /\ pc = "arm" /\ lag = 0 /\ armed = FALSE /\ waited = 0
  /\ boot = 0

\* TMR0_IRQHandler.
RebootTick ==
  /\ TMR0_IRQHandler
  /\ waited' = IF waited < WaitCap THEN waited + 1 ELSE waited
  /\ UNCHANGED <<action_reboot, reset_delay, led, pc, armed, boot>>

\* Mutant: the delay starts at zero instead of now.
TimerInitWaitZero == [started |-> 0, delay_10ms |-> ResetDelay]

\* timer0_init_wait_10ms(&reset_delay, 200).
TimerInitWait == [started |-> time, delay_10ms |-> ResetDelay]

\* if (action_reboot == true) ...
ArmReset ==
  /\ pc = "arm" /\ action_reboot
  /\ action_reboot' = FALSE
  /\ reset_delay' = TimerInitWait
  /\ armed' = TRUE /\ waited' = 0
  /\ pc' = "check"
  /\ UNCHANGED <<time, led, lag, boot>>

NoArm ==
  /\ pc = "arm" /\ ~action_reboot
  /\ pc' = "check"
  /\ UNCHANGED <<time, action_reboot, reset_delay, led, lag, armed, waited, boot>>

\* Mutant: the delay is over only when the clock equals the finish time.
TimerCheckWaitEqual == time = Plus(reset_delay.started, reset_delay.delay_10ms)

\* timer0_check_wait: finish_time and the comparison. The new value of started
\* is lost in the reset.
TimerCheckWait == time >= Plus(reset_delay.started, reset_delay.delay_10ms)

\* NVIC_SystemReset.
SystemReset ==
  /\ pc = "check" /\ TimerCheckWait
  /\ boot' = 1 - boot
  /\ Boot

NoReset ==
  /\ pc = "check" /\ ~TimerCheckWait
  /\ pc' = "net"
  /\ UNCHANGED <<time, action_reboot, reset_delay, led, lag, armed, waited, boot>>

\* lwip_pkt_handle: at most one frame, so at most one request completes and
\* calls httpd_GET_uri_params_parse. lwip_periodic_handle and
\* sys_check_timeouts follow; they touch none of this state.
HandlePacket(params) ==
  /\ pc = "net"
  /\ action_reboot' = (action_reboot \/ params = "reboot")
  /\ led' = CASE params = "led_on" -> 1 [] params = "led_off" -> 0 [] OTHER -> led
  /\ pc' = "arm" /\ lag' = 0
  /\ UNCHANGED <<time, reset_delay, armed, waited, boot>>

Loop == \/ ArmReset \/ NoArm \/ SystemReset \/ NoReset
        \/ \E params \in Params : HandlePacket(params)

RebootNext == RebootTick \/ Loop

RebootSpec == RebootInit /\ [][RebootNext]_rebootVars

\* The timer ticks and the loop goes on.
RebootFairSpec == RebootSpec /\ WF_rebootVars(RebootTick) /\ WF_rebootVars(Loop)

-----------------------------------------------------------------------------
RebootTypeOK ==
  /\ time \in Times /\ action_reboot \in BOOLEAN /\ led \in {0, 1}
  /\ reset_delay \in [started : Times, delay_10ms : Times]
  /\ pc \in {"arm", "check", "net"} /\ lag \in 0 .. MaxLag
  /\ armed \in BOOLEAN /\ waited \in 0 .. WaitCap /\ boot \in {0, 1}

\* The finish time of an armed delay lies beyond the wrap of the clock.
Crosses == reset_delay.started + ResetDelay >= TimeMod

\* A requested reset never comes before the delay has passed since the last
\* request, unless the delay crosses the wrap of time_10ms.
ResetNotEarly ==
  [][boot' # boot /\ armed => waited >= ResetDelay \/ Crosses]_rebootVars

\* The finish time is so close to the wrap that the loop may miss it.
NearWrap == reset_delay.started + ResetDelay + 2 * MaxLag >= TimeMod

\* A requested reset is not late: unless its finish time is near the wrap, the
\* first pass of the loop that can see the delay over resets the processor.
ResetNotLate == armed /\ ~NearWrap => waited < ResetDelay + 2 * MaxLag

\* When no new request postpones it any more, an armed delay ends in a reset,
\* unless its finish time is near the wrap.
RebootHappens == <>[](~action_reboot) => (armed ~> ~armed \/ NearWrap)

-----------------------------------------------------------------------------
(* The inductive invariant.                                                *)

\* As long as the clock has not wrapped since the request it shows the time of
\* the request plus the ticks since then, and the passes of the loop so far
\* came too early.
ArmInv ==
  armed =>
    /\ reset_delay.delay_10ms = ResetDelay
    /\ \/ time = reset_delay.started + waited
       \/ waited + reset_delay.started >= TimeMod
    /\ NearWrap \/ waited < ResetDelay + lag
                             + (IF pc = "net" THEN 0 ELSE MaxLag)

\* The loop of main() and the delay of timer0 together: the record that main
\* leaves uninitialised, requests that restart the delay and the clock never
\* combine to a late reset.
ResetSafe == RebootTypeOK /\ ArmInv /\ ResetNotLate
=============================================================================

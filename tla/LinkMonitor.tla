----------------------------- MODULE LinkMonitor -----------------------------
(***************************************************************************)
(* The link supervision of lwipcomm.c: main() calls lwip_periodic_handle on *)
(* every pass of its loop; twice a second it reads the PHY's link bit,      *)
(* searches for the cable's polarity while the link is down, drives the     *)
(* green LED and tells lwIP about changes. The amber LED code of            *)
(* low_level_input works on the same GPIO port. The 10 ms clock is a 32 bit *)
(* counter that wraps.                                                      *)
(***************************************************************************)
EXTENDS Timer0

CONSTANTS
  PollTicks,    \* 50: ticks between two readings of the PHY
  PhyCycle,     \* 200: phyflag counts modulo PhyCycle
  LedCycle      \* 10: led_count counts modulo LedCycle

ASSUME LinkAssumption ==
  /\ TimeMod \in Nat /\ PollTicks \in Nat /\ PhyCycle \in Nat /\ LedCycle \in Nat
  /\ MaxLag \in Nat
  /\ 0 < MaxLag /\ MaxLag < PollTicks /\ 3 * PollTicks < TimeMod
  /\ PhyCycle > 0 /\ PhyCycle % 2 = 0 /\ LedCycle > 0

VARIABLES
  cable,                 \* the link bit of PHY_BMSR (external)
  last_timestamp, last_phy_link_state, phyflag, g_eth_phy_link_state,
  link_up,               \* NETIF_FLAG_LINK_UP of lwip_netif
  pin4, pin7, led_count, \* the two status LED pins, low_level_input's counter
  mdix,                  \* polarity phy_change wrote last, or NoMdix
  gap,                   \* history: ticks since the PHY was read
  seen                   \* history: "never", or what the PHY has shown so far

clock == <<time, lag, gap>>
state == <<last_phy_link_state, phyflag, g_eth_phy_link_state, link_up, mdix, seen>>
leds  == <<pin4, pin7, led_count>>
vars  == <<clock, cable, last_timestamp, state, leds>>

NoMdix == 2

\* The green LED is lit by a low level on pin 4.
GreenLit == pin4 = 0

\* eth_status_led_init, low_level_init (which sets NETIF_FLAG_LINK_UP) and
\* lwip_comm_init.
Init ==
  /\ time = 0 /\ lag = 0 /\ gap = 0
  /\ cable \in {0, 1}
  /\ last_timestamp = 0 /\ last_phy_link_state = 0 /\ phyflag = 0
  /\ g_eth_phy_link_state = 0 /\ link_up = TRUE
  /\ pin4 = 1 /\ pin7 = 0 /\ led_count = 0
  /\ mdix = NoMdix /\ seen = "never"

\* TMR0_IRQHandler.
Tick ==
  /\ TMR0_IRQHandler
  /\ gap' = gap + 1
  /\ UNCHANGED <<cable, last_timestamp, state, leds>>

\* The cable is plugged or pulled (external).
CableChange ==
  /\ cable' = 1 - cable
  /\ UNCHANGED <<clock, last_timestamp, state, leds>>

-----------------------------------------------------------------------------
(* lwip_periodic_handle.                                                   *)

\* Mutant: the wrap of the clock is not handled.
PeriodicWrappedKeep ==
  /\ time < last_timestamp
  /\ lag' = 0
  /\ UNCHANGED <<time, gap, cable, last_timestamp, state, leds>>

\* cur_timestamp < last_timestamp: the clock has wrapped.
PeriodicWrapped ==
  /\ time < last_timestamp
  /\ last_timestamp' = 0
  /\ lag' = 0
  /\ UNCHANGED <<time, gap, cable, state, leds>>

\* Less than PollTicks since the last reading.
PeriodicEarly ==
  /\ time >= last_timestamp /\ time - last_timestamp < PollTicks
  /\ lag' = 0
  /\ UNCHANGED <<time, gap, cable, last_timestamp, state, leds>>

\* phy_change(phyflag); phyflag += 1; if (phyflag == 200) phyflag = 0;
SearchPolarity ==
  /\ mdix' = phyflag % 2
  /\ phyflag' = IF phyflag + 1 = PhyCycle THEN 0 ELSE phyflag + 1

\* Mutant: a link that goes down leaves the green LED on.
GreenLedLeft(up) == pin4' = IF up = 1 THEN 0 ELSE pin4

\* eth_green_led_on and eth_green_led_off.
GreenLed(up) == pin4' = 1 - up

\* netif_set_link_up and netif_set_link_down.
LinkReport(up) == link_up' = (up = 1)

\* Mutant: the PHY is read on every call.
PollDueAlways == time >= last_timestamp

PollDue == time >= last_timestamp /\ time - last_timestamp >= PollTicks

PeriodicPoll ==
  /\ PollDue
  /\ last_timestamp' = time
  /\ lag' = 0 /\ gap' = 0
  /\ g_eth_phy_link_state' = cable
  /\ last_phy_link_state' = cable
  /\ IF cable = 0 THEN SearchPolarity ELSE UNCHANGED <<mdix, phyflag>>
  /\ IF cable # last_phy_link_state
       THEN GreenLed(cable) /\ LinkReport(cable)
       ELSE UNCHANGED <<pin4, link_up>>
  /\ seen' = IF cable = 1 \/ seen = "link" THEN "link" ELSE "none"
  /\ UNCHANGED <<time, cable, pin7, led_count>>

-----------------------------------------------------------------------------
\* eth_amber_led_off sets pin 4, the green LED's pin.
AmberLedOff == pin4' = 1 /\ UNCHANGED pin7

AmberLedOn == pin7' = 1 /\ UNCHANGED pin4

\* low_level_input finds a frame: the amber LED code.
FrameSeen ==
  /\ IF led_count % 2 = 0 THEN AmberLedOn ELSE AmberLedOff
  /\ led_count' = IF led_count + 1 = LedCycle THEN 0 ELSE led_count + 1
  /\ UNCHANGED <<clock, cable, last_timestamp, state>>

Periodic == PeriodicWrapped \/ PeriodicEarly \/ PeriodicPoll

Next == Tick \/ CableChange \/ Periodic \/ FrameSeen

Spec == Init /\ [][Next]_vars

\* The timer interrupt keeps coming and main() keeps calling the handler.
FairSpec == Spec /\ WF_vars(Tick) /\ WF_vars(Periodic)

-----------------------------------------------------------------------------
TypeOK ==
  /\ time \in 0 .. TimeMod - 1 /\ lag \in 0 .. MaxLag /\ gap \in Nat
  /\ cable \in {0, 1} /\ last_timestamp \in 0 .. TimeMod - 1
  /\ last_phy_link_state \in {0, 1} /\ g_eth_phy_link_state \in {0, 1}
  /\ phyflag \in 0 .. PhyCycle - 1 /\ link_up \in BOOLEAN
  /\ pin4 \in {0, 1} /\ pin7 \in {0, 1} /\ led_count \in 0 .. LedCycle - 1
  /\ mdix \in {0, 1, NoMdix} /\ seen \in {"never", "none", "link"}

\* The green LED is never lit without a link at the last reading, although the
\* amber LED code writes the same pin on every second frame.
GreenOnlyWithLink == GreenLit => last_phy_link_state = 1

\* lwIP's link flag is the link state of the last reading once a link has been
\* seen; until then it is the LINK_UP low_level_init set.
LinkFlagFollows ==
  link_up = (seen # "link" \/ last_phy_link_state = 1)

\* While the link is down every reading flips the polarity, also where phyflag
\* wraps.
PolarityAlternates == mdix # phyflag % 2

\* Two readings of the PHY are at least PollTicks apart, also when the 32 bit
\* clock wraps between them.
PollNotEarly == [][gap' = 0 => gap >= PollTicks]_gap

\* The wrap of the clock delays a reading by less than one further period.
PollNotLate == gap < 2 * (PollTicks + MaxLag)

\* What lwip_periodic_handle and the LED code of low_level_input keep together:
\* both LEDs' pin, lwIP's flag, the polarity and the spacing of the readings
\* across the wrap of the clock.
LinkSafe ==
  TypeOK /\ GreenOnlyWithLink /\ LinkFlagFollows /\ PolarityAlternates /\ PollNotLate

\* A cable that stays plugged is noticed for good, and so is one that stays
\* out.
LinkNoticed ==
  /\ <>[](cable = 1) => <>[](g_eth_phy_link_state = 1 /\ link_up)
  /\ <>[](cable = 0) => <>[](g_eth_phy_link_state = 0 /\ ~GreenLit)

-----------------------------------------------------------------------------
(* The inductive invariant of the clock.                                   *)

\* gap is what the two timestamps say: in the normal case; after the clock
\* wrapped and before the handler noticed; and after last_timestamp was set to
\* 0 at the wrap. The call before this tick was too early to read the PHY.
ClockInv ==
  \/ /\ time >= last_timestamp /\ gap = time - last_timestamp
     /\ gap < PollTicks + lag
  \/ /\ time < lag /\ lag < last_timestamp
     /\ gap = time + (TimeMod - last_timestamp)
     /\ gap < PollTicks + lag
  \/ /\ last_timestamp = 0 /\ time < PollTicks + lag
     /\ gap > time /\ gap - time < PollTicks + MaxLag

-----------------------------------------------------------------------------
\* What netif.h says of NETIF_FLAG_LINK_UP: when set, the interface has an
\* active link. (As of the last reading of the PHY, once there was one.)
\* Not so without a cable at start-up (README, Disagreements).
LinkFlagMeansLink == seen # "never" /\ link_up => last_phy_link_state = 1
=============================================================================

----------------------------- MODULE LoopProofs -----------------------------
(***************************************************************************)
(* Proofs about what main() does on every pass of its loop besides the      *)
(* network stack: the link supervision, for every period, clock width and   *)
(* length of a pass allowed by LinkAssumption, and the reboot delay, for    *)
(* every clock width, delay and length of a pass allowed by                 *)
(* RebootAssumption. The two share the clock and the loop, nothing else.    *)
(***************************************************************************)
EXTENDS LinkMonitor, Reboot, TLAPS

\* The state starts well typed.
LEMMA LinkTypeInit == Init => TypeOK
BY LinkAssumption DEF Init, TypeOK, NoMdix

\* Every step keeps the types; phyflag, led_count and the clock wrap in range.
LEMMA LinkTypeStep == TypeOK /\ [Next]_vars => TypeOK'
<1> SUFFICES ASSUME TypeOK, [Next]_vars PROVE TypeOK'
  OBVIOUS
<1> USE LinkAssumption DEF TypeOK, clock, state, leds, NoMdix
<1>1. CASE Tick
  <2>1. time' \in 0 .. TimeMod - 1 /\ lag' \in 0 .. MaxLag /\ gap' \in Nat
    BY <1>1 DEF Tick, TMR0_IRQHandler, Plus
  <2> QED
    BY <1>1, <2>1 DEF Tick, TMR0_IRQHandler, Plus
<1>2. CASE CableChange
  BY <1>2 DEF CableChange
<1>3. CASE PeriodicWrapped
  BY <1>3 DEF PeriodicWrapped
<1>4. CASE PeriodicEarly
  BY <1>4 DEF PeriodicEarly
<1>5. CASE PeriodicPoll
  <2>1. phyflag' \in 0 .. PhyCycle - 1 /\ mdix' \in {0, 1, NoMdix}
    BY <1>5 DEF PeriodicPoll, SearchPolarity
  <2>2. pin4' \in {0, 1}
    BY <1>5 DEF PeriodicPoll, GreenLed
  <2>3. link_up' \in BOOLEAN
    BY <1>5, Zenon DEF PeriodicPoll, LinkReport
  <2> QED
    BY <1>5, <2>1, <2>2, <2>3 DEF PeriodicPoll
<1>6. CASE FrameSeen
  <2>1. led_count' \in 0 .. LedCycle - 1
    BY <1>6 DEF FrameSeen
  <2> QED
    BY <1>6, <2>1 DEF FrameSeen, AmberLedOn, AmberLedOff
<1>7. CASE UNCHANGED vars
  BY <1>7 DEF vars
<1> QED
  BY <1>1, <1>2, <1>3, <1>4, <1>5, <1>6, <1>7 DEF Next, Periodic

\* The types hold in every reachable state.
THEOREM LinkTypes == Spec => []TypeOK
BY LinkTypeInit, LinkTypeStep, PTL DEF Spec

-----------------------------------------------------------------------------
\* The clock invariant holds at boot.
LEMMA ClockInit == Init => ClockInv
BY LinkAssumption DEF Init, ClockInv

\* Every step keeps the two timestamps and the time since the last reading in
\* agreement, across the wrap of the clock too.
LEMMA ClockStep == TypeOK /\ ClockInv /\ [Next]_vars => ClockInv'
<1> SUFFICES ASSUME TypeOK, ClockInv, [Next]_vars PROVE ClockInv'
  OBVIOUS
<1> USE LinkAssumption DEF TypeOK, ClockInv
<1>1. CASE Tick
  <2>1. CASE time + 1 = TimeMod
    BY <1>1, <2>1 DEF Tick, TMR0_IRQHandler, Plus
  <2>2. CASE time + 1 # TimeMod
    BY <1>1, <2>2 DEF Tick, TMR0_IRQHandler, Plus
  <2> QED
    BY <2>1, <2>2
<1>2. CASE CableChange \/ FrameSeen \/ UNCHANGED vars
  BY <1>2 DEF CableChange, FrameSeen, vars, clock
<1>3. CASE PeriodicWrapped
  BY <1>3 DEF PeriodicWrapped
<1>4. CASE PeriodicEarly
  BY <1>4 DEF PeriodicEarly
<1>5. CASE PeriodicPoll
  BY <1>5 DEF PeriodicPoll
<1> QED
  BY <1>1, <1>2, <1>3, <1>4, <1>5 DEF Next, Periodic

\* The wrap of the 32 bit clock never delays a reading of the PHY by more than
\* one further period.
THEOREM PollInTime == Spec => []PollNotLate
<1>1. TypeOK /\ ClockInv => PollNotLate
  BY LinkAssumption DEF TypeOK, ClockInv, PollNotLate
<1> QED
  BY <1>1, LinkTypeInit, LinkTypeStep, ClockInit, ClockStep, PTL DEF Spec

\* No two readings are closer than PollTicks, across the wrap too.
THEOREM PollSpacing == Spec => PollNotEarly
<1>1. TypeOK /\ ClockInv /\ [Next]_vars => [gap' = 0 => gap >= PollTicks]_gap
  <2> SUFFICES ASSUME TypeOK, ClockInv, [Next]_vars, gap' = 0, gap' # gap
               PROVE gap >= PollTicks
    OBVIOUS
  <2>1. PeriodicPoll \/ Tick
    BY DEF Next, Periodic, CableChange, FrameSeen, PeriodicWrapped,
       PeriodicEarly, vars, clock
  <2>2. PeriodicPoll
    BY <2>1, LinkAssumption DEF Tick, TMR0_IRQHandler, Plus, TypeOK
  <2> QED
    BY <2>2, LinkAssumption DEF PeriodicPoll, PollDue, TypeOK, ClockInv
<1> QED
  BY <1>1, LinkTypeInit, LinkTypeStep, ClockInit, ClockStep, PTL DEF Spec, PollNotEarly

-----------------------------------------------------------------------------
\* The green LED is lit only with a link, lwIP's flag follows the link once
\* one was seen, and the polarity search alternates. The link has been seen
\* whenever it is up.
LinkInv ==
  /\ GreenOnlyWithLink
  /\ LinkFlagFollows
  /\ PolarityAlternates
  /\ last_phy_link_state = 1 => seen = "link"

\* The three facts hold together from boot on.
LEMMA LinkInvStep == TypeOK /\ LinkInv /\ [Next]_vars => LinkInv'
<1> SUFFICES ASSUME TypeOK, LinkInv, [Next]_vars PROVE LinkInv'
  OBVIOUS
<1> USE DEF LinkInv, GreenOnlyWithLink, GreenLit, LinkFlagFollows,
            PolarityAlternates
<1>1. CASE Tick \/ CableChange \/ PeriodicWrapped \/ PeriodicEarly \/ UNCHANGED vars
  BY <1>1 DEF Tick, TMR0_IRQHandler, Plus, CableChange, PeriodicWrapped, PeriodicEarly, vars, state, leds
<1>2. CASE PeriodicPoll
  <2>1. PolarityAlternates'
    <3>1. \A n \in Nat : n % 2 # (n + 1) % 2
      OBVIOUS
    <3>2. CASE cable = 0 /\ phyflag + 1 = PhyCycle
      BY <1>2, <3>1, <3>2, LinkAssumption DEF PeriodicPoll, SearchPolarity, TypeOK
    <3>3. CASE cable = 0 /\ phyflag + 1 # PhyCycle
      BY <1>2, <3>1, <3>3 DEF PeriodicPoll, SearchPolarity, TypeOK
    <3>4. CASE cable # 0
      BY <1>2, <3>4 DEF PeriodicPoll
    <3> QED
      BY <3>2, <3>3, <3>4
  <2>2. CASE cable = 1
    BY <1>2, <2>1, <2>2 DEF PeriodicPoll, GreenLed, LinkReport, TypeOK
  <2>3. CASE cable = 0
    BY <1>2, <2>1, <2>3 DEF PeriodicPoll, GreenLed, LinkReport, TypeOK
  <2> QED
    BY <2>2, <2>3 DEF TypeOK
<1>3. CASE FrameSeen
  BY <1>3 DEF FrameSeen, AmberLedOn, AmberLedOff, state
<1> QED
  BY <1>1, <1>2, <1>3 DEF Next, Periodic

\* The LED, the flag and the polarity search agree with the readings of the
\* PHY in every reachable state.
LEMMA LinkAgrees ==
  Spec => [](GreenOnlyWithLink /\ LinkFlagFollows /\ PolarityAlternates)
<1>1. Init => LinkInv
  <2> SUFFICES ASSUME Init PROVE LinkInv
    OBVIOUS
  <2>1. PolarityAlternates
    BY DEF Init, PolarityAlternates, NoMdix
  <2>2. GreenOnlyWithLink /\ (last_phy_link_state = 1 => seen = "link")
    BY DEF Init, GreenOnlyWithLink, GreenLit
  <2>3. LinkFlagFollows
    <3>1. link_up = TRUE /\ seen # "link"
      BY DEF Init
    <3> QED
      BY <3>1, Zenon DEF LinkFlagFollows
  <2> QED
    BY <2>1, <2>2, <2>3 DEF LinkInv
<1>2. LinkInv => GreenOnlyWithLink /\ LinkFlagFollows /\ PolarityAlternates
  BY DEF LinkInv
<1> QED
  BY <1>1, <1>2, LinkTypeInit, LinkTypeStep, LinkInvStep, PTL DEF Spec

\* The green LED shines only while the last reading of the PHY found a link.
THEOREM GreenCorrect == Spec => []GreenOnlyWithLink
  BY LinkAgrees, PTL

\* lwIP's link flag is the link state last read once a link has been seen.
THEOREM FlagCorrect == Spec => []LinkFlagFollows
  BY LinkAgrees, PTL

\* The search for the polarity alternates, also where its counter wraps.
THEOREM PolarityCorrect == Spec => []PolarityAlternates
  BY LinkAgrees, PTL

\* What link_monitor's readings leave behind agrees at every step: the link flag
\* of lwIP, the green LED, the polarity bit and the age of the last reading.
THEOREM LinkIsSafe == Spec => []LinkSafe
  BY LinkTypes, GreenCorrect, FlagCorrect, PolarityCorrect, PollInTime, PTL DEF LinkSafe

-----------------------------------------------------------------------------
\* Every step keeps the types: uint32_t arithmetic stays in range.
LEMMA RebootTypeStep == RebootTypeOK /\ [RebootNext]_rebootVars => RebootTypeOK'
<1> SUFFICES ASSUME RebootTypeOK, [RebootNext]_rebootVars PROVE RebootTypeOK'
  OBVIOUS
<1> USE RebootAssumption DEF RebootTypeOK
<1>1. CASE RebootTick
  <2>1. time' \in Times /\ lag' \in 0 .. MaxLag /\ waited' \in 0 .. WaitCap
    BY <1>1 DEF RebootTick, TMR0_IRQHandler, Plus, Times
  <2> QED
    BY <1>1, <2>1 DEF RebootTick, TMR0_IRQHandler
<1>2. CASE ArmReset
  <2>1. ResetDelay \in Times
    BY DEF Times
  <2>2. reset_delay' \in [started : Times, delay_10ms : Times]
    BY <1>2, <2>1 DEF ArmReset, TimerInitWait
  <2>3. waited' \in 0 .. WaitCap
    BY <1>2 DEF ArmReset
  <2> QED
    BY <1>2, <2>2, <2>3 DEF ArmReset
<1>3. CASE NoArm \/ NoReset
  BY <1>3 DEF NoArm, NoReset
<1>4. CASE SystemReset
  <2>1. time' \in Times /\ lag' \in 0 .. MaxLag /\ waited' \in 0 .. WaitCap
    BY <1>4 DEF SystemReset, Boot, Times
  <2>2. boot' \in {0, 1}
    BY <1>4 DEF SystemReset
  <2> QED
    BY <1>4, <2>1, <2>2 DEF SystemReset, Boot
<1>5. ASSUME NEW params \in Params, HandlePacket(params) PROVE RebootTypeOK'
  <2>1. action_reboot' \in BOOLEAN
    BY <1>5, Zenon DEF HandlePacket
  <2>2. led' \in {0, 1}
    BY <1>5 DEF HandlePacket
  <2> QED
    BY <1>5, <2>1, <2>2 DEF HandlePacket
<1>6. CASE UNCHANGED rebootVars
  BY <1>6 DEF rebootVars
<1> QED
  BY <1>1, <1>2, <1>3, <1>4, <1>5, <1>6 DEF RebootNext, Loop

\* The types hold in every reachable state.
THEOREM RebootTypes == RebootSpec => []RebootTypeOK
<1>1. 0 \in Times /\ 0 \in 0 .. MaxLag /\ 0 \in 0 .. WaitCap
  BY RebootAssumption DEF Times
<1>2. RebootInit => RebootTypeOK
  BY <1>1 DEF RebootInit, RebootTypeOK
<1> QED
  BY <1>2, RebootTypeStep, PTL DEF RebootSpec

\* An armed delay keeps in step with the clock until the clock wraps.
LEMMA ArmStep ==
  RebootTypeOK /\ RebootTypeOK' /\ ArmInv /\ [RebootNext]_rebootVars => ArmInv'
<1> SUFFICES ASSUME RebootTypeOK, RebootTypeOK', ArmInv, [RebootNext]_rebootVars, armed'
             PROVE  ArmInv'
  BY DEF ArmInv
<1> USE RebootAssumption DEF ArmInv, NearWrap
<1>1. CASE RebootTick
  <2>1. /\ armed /\ UNCHANGED <<reset_delay, pc>> /\ lag' = lag + 1
        /\ waited' = IF waited < WaitCap THEN waited + 1 ELSE waited
        /\ time' = IF time + 1 >= TimeMod THEN time + 1 - TimeMod ELSE time + 1
        /\ time \in 0 .. TimeMod - 1 /\ reset_delay.started \in 0 .. TimeMod - 1
        /\ waited \in 0 .. WaitCap /\ lag \in 0 .. MaxLag
    BY <1>1 DEF RebootTick, TMR0_IRQHandler, Plus, RebootTypeOK, Times
  <2>2. /\ time' = reset_delay.started + waited'
        \/ waited' + reset_delay.started >= TimeMod
    BY <2>1
  <2>3. NearWrap \/ waited' < ResetDelay + lag' + (IF pc = "net" THEN 0 ELSE MaxLag)
    BY <2>1
  <2> QED
    BY <2>1, <2>2, <2>3
<1>2. CASE ArmReset
  BY <1>2 DEF ArmReset, TimerInitWait, RebootTypeOK, Times
<1>3. CASE NoArm
  BY <1>3 DEF NoArm, RebootTypeOK
<1>4. CASE NoReset
  <2>1. /\ armed /\ UNCHANGED <<reset_delay, time, waited, lag>> /\ pc' = "net"
        /\ ~TimerCheckWait
    BY <1>4 DEF NoReset
  <2>2. /\ time \in 0 .. TimeMod - 1 /\ reset_delay.started \in 0 .. TimeMod - 1
        /\ waited \in 0 .. WaitCap /\ lag \in 0 .. MaxLag
    BY DEF RebootTypeOK, Times
  <2>3. NearWrap \/ waited < ResetDelay
    <3>1. CASE ~NearWrap
      <4>1. time < reset_delay.started + ResetDelay
        BY <2>1, <2>2, <3>1 DEF TimerCheckWait, Plus
      <4>2. waited + reset_delay.started < TimeMod
        BY <2>1, <2>2, <3>1
      <4> QED
        BY <2>1, <2>2, <4>1, <4>2
    <3> QED
      BY <3>1
  <2> QED
    BY <2>1, <2>2, <2>3
<1>5. CASE SystemReset
  BY <1>5 DEF SystemReset, Boot
<1>6. ASSUME NEW params \in Params, HandlePacket(params) PROVE ArmInv'
  BY <1>6 DEF HandlePacket, RebootTypeOK
<1>7. CASE UNCHANGED rebootVars
  BY <1>7 DEF rebootVars
<1> QED
  BY <1>1, <1>2, <1>3, <1>4, <1>5, <1>6, <1>7 DEF RebootNext, Loop

\* The invariant of the armed delay holds in every reachable state.
THEOREM ArmCorrect == RebootSpec => []ArmInv
<1>1. RebootInit => ArmInv
  BY DEF RebootInit, ArmInv
<1> QED
  BY <1>1, ArmStep, RebootTypes, PTL DEF RebootSpec

\* A requested reset that is not near the wrap comes in time.
THEOREM ResetInTime == RebootSpec => []ResetNotLate
<1>1. RebootTypeOK /\ ArmInv => ResetNotLate
  BY RebootAssumption DEF RebootTypeOK, ArmInv, ResetNotLate
<1> QED
  BY <1>1, ArmCorrect, RebootTypes, PTL

\* A requested reset never comes early unless the delay crosses the wrap.
THEOREM ResetWaits == RebootSpec => ResetNotEarly
<1>1. RebootTypeOK /\ ArmInv /\ [RebootNext]_rebootVars =>
        [boot' # boot /\ armed => waited >= ResetDelay \/ Crosses]_rebootVars
  <2> SUFFICES ASSUME RebootTypeOK, ArmInv, [RebootNext]_rebootVars, boot' # boot, armed, ~Crosses
               PROVE waited >= ResetDelay
    OBVIOUS
  <2>1. TimerCheckWait
    BY DEF RebootNext, Loop, RebootTick, TMR0_IRQHandler, ArmReset, NoArm, SystemReset, NoReset, HandlePacket, rebootVars
  <2> QED
    BY <2>1, RebootAssumption DEF TimerCheckWait, Plus, RebootTypeOK, Times, ArmInv, Crosses
<1> QED
  BY <1>1, ArmCorrect, RebootTypes, PTL DEF RebootSpec, ResetNotEarly

\* An armed delay agrees with the time since the request and is over in time.
THEOREM ResetIsSafe == RebootSpec => []ResetSafe
  BY RebootTypes, ArmCorrect, ResetInTime, PTL DEF ResetSafe
=============================================================================

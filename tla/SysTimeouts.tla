----------------------------- MODULE SysTimeouts -----------------------------
(***************************************************************************)
(* The timeout list of lwIP (timeouts.c) on the 10 ms clock of timer0.c:    *)
(* the sorted list of pending timeouts, the cyclic timers that put          *)
(* themselves back, the TCP timer that runs on demand, and                  *)
(* sys_check_timeouts, which main() calls on every pass of its loop.        *)
(* Handler 1 is tcpip_tcp_timer; handler i > 1 is lwip_cyclic_timer with    *)
(* entry i - 1 of lwip_cyclic_timers.                                       *)
(***************************************************************************)
EXTENDS Integers, SequencesExt

CONSTANTS
  Interval,    \* sequence of interval_ms, TCP_TMR_INTERVAL first
  TimeMod,     \* 2^32: u32_t
  MsPerTick,   \* 10: sys_now() counts milliseconds, the timer ticks of 10 ms
  PoolSize,    \* MEMP_NUM_SYS_TIMEOUT
  MaxLag       \* ticks between two calls of sys_check_timeouts

Handlers == 1 .. Len(Interval)
TCP == 1

\* No two pending timeouts are half a turn of the clock apart.
ASSUME TimeoutAssumption ==
  /\ Interval \in Seq(Nat \ {0}) /\ Interval # << >>
  /\ TimeMod \in Nat \ {0} /\ MsPerTick \in Nat \ {0} /\ MaxLag \in Nat
  /\ TimeMod % 2 = 0
  /\ \A h \in Handlers : 2 * (Interval[h] + 2 * MaxLag * MsPerTick) < TimeMod
  /\ PoolSize \in Nat /\ PoolSize >= Len(Interval)

VARIABLES
  time,       \* time_10ms
  list,       \* next_timeout and the sys_timeo records linked to it
  active,     \* tcpip_tcp_timer_active
  pcbs,       \* tcp_active_pcbs || tcp_tw_pcbs
  pc,         \* where the main loop is
  next,       \* i of sys_timeouts_init
  now,        \* now of sys_check_timeouts
  running,    \* the handler being called, 0 for none
  due_time,   \* current_timeout_due_time
  lag,        \* history: ticks since sys_check_timeouts was called
  due_in,     \* history: milliseconds until the handler is really due
  calls       \* history: calls of the handler in this sys_check_timeouts

vars == <<time, list, active, pcbs, pc, next, now, running, due_time,
          lag, due_in, calls>>
clock == <<time, lag>>

Times == 0 .. TimeMod - 1
Entries == [time : Times, h : Handlers]
Listed == {list[i].h : i \in DOMAIN list}

\* Mutant: milliseconds compared without regard to the wrap.
TimeLessThanPlain(t, compare_to) == t < compare_to

\* TIME_LESS_THAN.
TimeLessThan(t, compare_to) == (t - compare_to) % TimeMod > TimeMod \div 2 - 1

sys_now == (time * MsPerTick) % TimeMod

\* Mutant: one place too far, behind the first later timeout.
InsertPositionNext(t) ==
  LET p == SelectInSeq(list, LAMBDA e : TimeLessThan(t, e.time))
  IN  IF p = 0 \/ p = Len(list) THEN Len(list) + 1 ELSE p + 1

\* The place of a new timeout: before the first later one.
InsertPosition(t) ==
  LET p == SelectInSeq(list, LAMBDA e : TimeLessThan(t, e.time))
  IN  IF p = 0 THEN Len(list) + 1 ELSE p

\* sys_timeout_abs: nothing is added when the pool is empty.
SysTimeoutAbs(t, h) ==
  list' = IF Len(list) = PoolSize THEN list
          ELSE InsertAt(list, InsertPosition(t), [time |-> t, h |-> h])

\* sys_timeout.
SysTimeout(h) ==
  /\ SysTimeoutAbs((sys_now + Interval[h]) % TimeMod, h)
  /\ due_in' = [due_in EXCEPT ![h] = Interval[h]]

Init ==
  /\ time = 0 /\ list = << >> /\ active = FALSE /\ pcbs = FALSE
  /\ pc = "init" /\ next = 2 /\ now = 0 /\ running = 0 /\ due_time = 0
  /\ lag = 0 /\ due_in = [h \in Handlers |-> 0] /\ calls = [h \in Handlers |-> 0]

\* TMR0_IRQHandler. A pass of the main loop takes at most MaxLag ticks.
Tick ==
  /\ lag < MaxLag /\ lag' = lag + 1
  /\ time' = (time + 1) % TimeMod
  /\ due_in' = [h \in Handlers |->
                  IF h = running \/ h \in Listed THEN due_in[h] - MsPerTick
                  ELSE due_in[h]]
  /\ UNCHANGED <<list, active, pcbs, pc, next, now, running, due_time, calls>>

\* One round of the loop of sys_timeouts_init.
SysTimeoutsInit ==
  /\ pc = "init" /\ next <= Len(Interval)
  /\ SysTimeout(next)
  /\ next' = next + 1
  /\ UNCHANGED <<clock, active, pcbs, pc, now, running, due_time, calls>>

InitDone ==
  /\ pc = "init" /\ next > Len(Interval)
  /\ pc' = "main"
  /\ UNCHANGED <<clock, list, active, pcbs, next, now, running, due_time,
                 due_in, calls>>

\* tcp_timer_needed.
TcpTimerNeeded ==
  IF ~active /\ pcbs' THEN active' = TRUE /\ SysTimeout(TCP)
  ELSE UNCHANGED <<active, list, due_in>>

\* TCP_REG: TCP links a pcb into the list of listening pcbs (bound, listen) or
\* of active or time-wait ones.
TcpReg ==
  /\ pc = "main"
  /\ pcbs' \in {pcbs, TRUE}
  /\ TcpTimerNeeded
  /\ UNCHANGED <<clock, pc, next, now, running, due_time, calls>>

\* TCP_RMV: the last active or time-wait pcb goes.
TcpRmv ==
  /\ pc = "main" /\ pcbs
  /\ pcbs' = FALSE
  /\ UNCHANGED <<clock, list, active, pc, next, now, running, due_time,
                 due_in, calls>>

\* sys_check_timeouts up to its loop.
CheckTimeouts ==
  /\ pc = "main"
  /\ pc' = "check" /\ now' = sys_now /\ lag' = 0
  /\ calls' = [h \in Handlers |-> 0]
  /\ UNCHANGED <<time, list, active, pcbs, next, running, due_time, due_in>>

Expired == list # << >> /\ ~TimeLessThan(now, Head(list).time)

\* The first timeout has expired: it is unlinked and freed, and its handler is
\* called.
Expire ==
  /\ pc = "check" /\ Expired
  /\ list' = Tail(list)
  /\ running' = Head(list).h
  /\ due_time' = Head(list).time
  /\ calls' = [calls EXCEPT ![Head(list).h] = @ + 1]
  /\ pc' = "handler"
  /\ UNCHANGED <<clock, active, pcbs, next, now, due_in>>

CheckReturn ==
  /\ pc = "check" /\ ~Expired
  /\ pc' = "main"
  /\ UNCHANGED <<clock, list, active, pcbs, next, now, running, due_time,
                 due_in, calls>>

\* Mutant: the flag stays set when the timer is not put back.
TcpTimerStayActive ==
  /\ pc = "handler" /\ running = TCP
  /\ pcbs' \in {FALSE, pcbs}
  /\ IF pcbs' THEN SysTimeout(TCP) /\ UNCHANGED active
     ELSE UNCHANGED <<active, list, due_in>>
  /\ pc' = "check" /\ running' = 0
  /\ UNCHANGED <<clock, next, now, due_time, calls>>

\* tcpip_tcp_timer. tcp_tmr may remove the last pcb.
TcpTimer ==
  /\ pc = "handler" /\ running = TCP
  /\ pcbs' \in {FALSE, pcbs}
  /\ IF pcbs' THEN SysTimeout(TCP) /\ UNCHANGED active
     ELSE active' = FALSE /\ UNCHANGED <<list, due_in>>
  /\ pc' = "check" /\ running' = 0
  /\ UNCHANGED <<clock, next, now, due_time, calls>>

\* The next regular time has already passed.
Overloaded(t) == TimeLessThan(t, sys_now)

\* Mutant: a timer that is overloaded is not put back.
CyclicTimerDrop ==
  /\ pc = "handler" /\ running # TCP
  /\ LET next_timeout_time == (due_time + Interval[running]) % TimeMod
     IN  IF Overloaded(next_timeout_time)
         THEN UNCHANGED <<list, due_in>>
         ELSE /\ SysTimeoutAbs(next_timeout_time, running)
              /\ due_in' = [due_in EXCEPT ![running] = @ + Interval[running]]
  /\ pc' = "check" /\ running' = 0
  /\ UNCHANGED <<clock, active, pcbs, next, now, due_time, calls>>

\* lwip_cyclic_timer, after cyclic->handler() has run.
CyclicTimer ==
  /\ pc = "handler" /\ running # TCP
  /\ LET next_timeout_time == (due_time + Interval[running]) % TimeMod
     IN  IF Overloaded(next_timeout_time)
         THEN SysTimeout(running)
         ELSE /\ SysTimeoutAbs(next_timeout_time, running)
              /\ due_in' = [due_in EXCEPT ![running] = @ + Interval[running]]
  /\ pc' = "check" /\ running' = 0
  /\ UNCHANGED <<clock, active, pcbs, next, now, due_time, calls>>

MainLoop == CheckTimeouts \/ Expire \/ CheckReturn \/ TcpTimer \/ CyclicTimer
Next == Tick \/ SysTimeoutsInit \/ InitDone \/ TcpReg \/ TcpRmv \/ MainLoop

Spec == Init /\ [][Next]_vars

\* The timer ticks; start-up and the main loop go on.
FairSpec ==
  Spec /\ WF_vars(Tick) /\ WF_vars(SysTimeoutsInit \/ InitDone) /\ WF_vars(MainLoop)

-----------------------------------------------------------------------------
TypeOK ==
  /\ time \in Times /\ list \in Seq(Entries) /\ Len(list) <= PoolSize
  /\ active \in BOOLEAN /\ pcbs \in BOOLEAN
  /\ pc \in {"init", "main", "check", "handler"} /\ next \in 2 .. Len(Interval) + 1
  /\ now \in Times /\ running \in {0} \union Handlers /\ due_time \in Times
  /\ lag \in 0 .. MaxLag
  /\ due_in \in [Handlers -> Int] /\ calls \in [Handlers -> Nat]

\* No timer is ever lost or doubled: each started cyclic timer has exactly one
\* timeout or is being called, and the TCP timer has one exactly when its flag
\* says so. The pool of the size the options give is therefore never empty.
TimersKept ==
  /\ \A i, j \in DOMAIN list : list[i].h = list[j].h => i = j
  /\ running \notin Listed
  /\ 2 .. next - 1 = (Listed \union {running}) \ {0, TCP}
  /\ active <=> TCP \in Listed \union {running}

\* The list is in the order of the true due times, across the wrap of the
\* clock.
SoonestFirst ==
  \A i, j \in DOMAIN list : i < j => due_in[list[i].h] <= due_in[list[j].h]

\* Handlers are called when they are due: never early, and late only by the
\* time the main loop takes for two passes.
CalledWhenDue ==
  [][running' # running /\ running' # 0 =>
       /\ due_in[running'] <= 0
       /\ due_in[running'] > - 2 * MaxLag * MsPerTick]_vars

\* sys_check_timeouts catches up without bursts: however late it is called, it
\* calls no handler more than twice.
NoBurst == \A h \in Handlers : calls[h] <= 2

\* Types, and that sys_timeout never finds the pool empty or a timer started
\* twice, whatever TCP does between two runs of its timer.
RecordsSafe == TypeOK /\ TimersKept

\* sys_check_timeouts works through the list in true time order and without
\* bursts, across the wrap and however late it is called.
ScheduleSafe == SoonestFirst /\ NoBurst

\* While there are connections the TCP timer keeps running.
TcpTimerRuns == <>[]pcbs => []<>(running = TCP)

\* Every cyclic timer is called again and again, and sys_check_timeouts returns.
CyclicTimersRun ==
  /\ \A h \in Handlers \ {TCP} : []<>(running = h)
  /\ []<>(pc = "main")

\* All timers go on, the one of TCP while it has connections.
TimersRun == TcpTimerRuns /\ CyclicTimersRun
=============================================================================

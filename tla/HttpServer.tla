----------------------------- MODULE HttpServer -----------------------------
(***************************************************************************)
(* The HTTP server on lwIP's TCP: incoming segments (tcp_in.c), the TCP    *)
(* timers (tcp.c), the listener with its pool of pcbs, and the server's    *)
(* callbacks (Httpd), for several client connections at once.  All of it   *)
(* runs in the main loop, so a segment or a timer tick is one step.        *)
(*                                                                         *)
(* Clients are an environment: any segment a client of the connection may  *)
(* have sent can arrive at any time, again and out of order, or never; so  *)
(* may what the server sends.                                              *)
(***************************************************************************)
EXTENDS Httpd, FiniteSets

CONSTANTS Conns,      \* connection attempts of clients
          NumPcb,     \* MEMP_NUM_TCP_PCB
          Backlog,    \* the listener's backlog
          PoolSize,   \* PBUF_POOL_SIZE
          MaxReq,     \* bound: data units a client sends
          Trailing    \* clients may send data after a complete request

ASSUME ServerAssumption ==
    /\ IsFiniteSet(Conns)
    /\ {NumPcb, Backlog, PoolSize, MaxReq} \subseteq Nat \ {0}
    /\ Trailing \in BOOLEAN

VARIABLES pcb,       \* the connection's pcb
          hs,        \* its http_state
          net,       \* what has crossed the wire, see TcpPcb
          got,       \* units the client has received, in order
          free,      \* free pbufs of the pool the receiver allocates from
          pending    \* the listener's accepts_pending

vars == <<pcb, hs, net, got, free, pending>>

NoNet == [sent |-> 0, fin |-> 0, rst |-> FALSE, peerfin |-> FALSE]

Init == /\ pcb = [c \in Conns |-> NoPcb]
        /\ hs = [c \in Conns |-> NoHttpState]
        /\ net = [c \in Conns |-> NoNet]
        /\ got = [c \in Conns |-> 0]
        /\ free = PoolSize
        /\ pending = 0

\* Outcomes of allocations and of the transmit path; e.parse matters to data.
Env(parse) == [mem : BOOLEAN, w : 0 .. SndBuf, out : 0 .. SndBuf + 1, parse : parse]

Quiet == Env({"ok"})

\* The calls that write no data.
Control == {e \in Quiet : e.w = 0}

Context(c) == [p |-> pcb[c], h |-> hs[c], net |-> net[c], free |-> free,
               pend |-> pending, inp |-> FALSE, closed |-> FALSE, gotfin |-> FALSE,
               reset |-> FALSE, acked |-> FALSE, data |-> FALSE, over |-> FALSE]

\* The effect of a call that worked on connection c only.
Apply(c, k) == /\ pcb' = [pcb EXCEPT ![c] = k.p]
               /\ hs' = [hs EXCEPT ![c] = k.h]
               /\ net' = [net EXCEPT ![c] = k.net]
               /\ free' = k.free
               /\ pending' = k.pend
               /\ UNCHANGED got

(***************************************************************************)
(* tcp_input                                                               *)
(***************************************************************************)
\* Segments that can arrive from the client of c.  Its sequence space: the SYN
\* at 0, data from 1.  An old segment, the next one, or one from beyond a gap;
\* a FIN on its own or on the last data.  An acknowledgement older than lastack
\* has the effect of lastack's.
Segments(c) ==
    [syn : BOOLEAN, rst : BOOLEAN, ack : {0} \cup pcb[c].una .. got[c],
     seq : {pcb[c].rcv - 1, pcb[c].rcv, pcb[c].rcv + 1},
     data : BOOLEAN, fin : BOOLEAN]

\* What a client sends at all: a SYN has no acknowledgement here, everything
\* else has one; nothing new after its FIN; data after a complete request only
\* if the clients do so.
Sendable(c, s) ==
    /\ s.syn => s.seq = 0 /\ s.ack = 0 /\ ~s.rst /\ ~s.data /\ ~s.fin
    /\ ~s.syn => s.ack > 0 /\ s.seq > 0
    /\ s.rst => ~s.data /\ ~s.fin
    /\ (s.data \/ s.fin) /\ s.seq = pcb[c].rcv => ~net[c].peerfin
    /\ s.data => s.seq <= MaxReq
    /\ s.data /\ s.seq >= pcb[c].rcv /\ (hs[c].file \/ hs[c].st = "served") => Trailing

\* tcp_receive: the acknowledgement, then the text.  Text is taken only next in
\* sequence (no queue for later segments in this build) and only before a FIN;
\* data received before is trimmed off the FIN it comes with.
tcp_receive(k, s) ==
    LET p == k.p
        new == s.ack \in (p.una + 1) .. p.nxt
        a == IF new
             THEN [k EXCEPT !.p.una = s.ack, !.p.uns = Max({@, s.ack}), !.p.nrtx = 0,
                            !.acked = \E i \in p.una .. (s.ack - 1) :
                                         i >= 1 /\ ~(p.fin /\ i = p.lbb - 1)]
             ELSE k
        open == p.st \in {"ESTABLISHED", "FIN_WAIT_1", "FIN_WAIT_2"}
        text == open /\ s.data /\ s.seq = p.rcv
        fin == open /\ s.fin /\ (s.seq = p.rcv \/ (s.data /\ s.seq = p.rcv - 1))
        One(b) == IF b THEN 1 ELSE 0
    IN  [a EXCEPT !.p.rcv = @ + One(text) + One(fin),
                  !.p.wdef = @ + 2 * One(text) + One(fin),
                  !.data = text, !.gotfin = fin, !.net.peerfin = @ \/ fin]

\* The last acknowledgement has come: nothing is unsent or unacknowledged.
AllAcked(k, s) == s.ack = k.p.nxt /\ k.p.uns = k.p.lbb

ToTimeWait(k) == [tcp_pcb_purge(k) EXCEPT !.p.st = "TIME_WAIT"]

Move(k, st) == [k EXCEPT !.p.st = st]

\* SYN_RCVD: the handshake's last segment, a repeated SYN, or noise.
SynReceived(k, s, e) ==
    IF s.ack \in (k.p.una + 1) .. k.p.nxt
    THEN LET a == tcp_backlog_accepted(Move(k, "ESTABLISHED"))
             b == tcp_receive(http_accept(a), s)
         IN  IF e.mem
             THEN IF b.gotfin THEN Move(b, "CLOSE_WAIT") ELSE b
             ELSE [tcp_abandon(a, TRUE) EXCEPT !.over = TRUE]
    ELSE IF s.syn /\ k.p.una < k.p.uns     \* tcp_rexmit
    THEN [k EXCEPT !.p.uns = k.p.una, !.p.nrtx = Min({@ + 1, MaxRtx})]
    ELSE k

\* The state machine, without RST and SYN which are sorted out first.
Process(k, s, e) ==
    LET r == tcp_receive(k, s)
    IN  CASE k.p.st = "SYN_RCVD" -> SynReceived(k, s, e)
          [] k.p.st \in {"ESTABLISHED", "CLOSE_WAIT"} ->
                IF r.gotfin THEN Move(r, "CLOSE_WAIT") ELSE r
          [] k.p.st = "FIN_WAIT_1" ->
                IF r.gotfin THEN IF AllAcked(r, s) THEN ToTimeWait(r) ELSE Move(r, "CLOSING")
                ELSE IF AllAcked(r, s) THEN Move(r, "FIN_WAIT_2") ELSE r
          [] k.p.st = "FIN_WAIT_2" -> IF r.gotfin THEN ToTimeWait(r) ELSE r
          [] k.p.st = "CLOSING" -> IF AllAcked(r, s) THEN ToTimeWait(r) ELSE r
          [] k.p.st = "LAST_ACK" -> [r EXCEPT !.closed = AllAcked(r, s)]

tcp_process(k, s, e) ==
    IF s.rst THEN [k EXCEPT !.reset = (s.seq = k.p.rcv)]
    ELSE IF s.syn /\ k.p.st # "SYN_RCVD" THEN k
    ELSE Process(k, s, e)

\* tcp_input_delayed_close; a caller that sees it happen goes to aborted.
tcp_input_delayed_close(k) ==
    IF k.closed THEN [tcp_free(tcp_pcb_purge(k)) EXCEPT !.over = TRUE] ELSE k

\* TCP_EVENT_SENT
SentEvent(k, e) == IF k.acked /\ k.p.cb THEN http_sent(k, e) ELSE k

\* Received data: refused with a RST once the application has closed.
RecvEvent(k, e) ==
    IF ~k.data THEN k
    ELSE IF k.p.rxclosed
    THEN [tcp_abandon([k EXCEPT !.free = @ + 1], TRUE) EXCEPT !.over = TRUE]
    ELSE http_recv(k, e)

\* TCP_EVENT_CLOSED, with the window corrected by the FIN's byte before it.
ClosedEvent(k, e) ==
    IF ~k.gotfin THEN k
    ELSE LET a == [k EXCEPT !.p.wdef = IF @ = 0 THEN 0 ELSE @ - 1]
         IN  IF a.p.cb THEN http_recv_null(a, e) ELSE a

\* The callbacks, in the order of tcp_input, after tcp_process returned ERR_OK.
Callbacks(k, e) ==
    LET a == tcp_input_delayed_close(SentEvent(k, e))
        b == IF a.over THEN a ELSE RecvEvent(a, e)
        d == IF b.over THEN b ELSE ClosedEvent(b, e)
        f == [d EXCEPT !.inp = FALSE]
        g == IF d.over THEN d ELSE tcp_input_delayed_close(f)
    IN  IF g.over THEN g ELSE tcp_output(g, e)

\* One pbuf of the pool carries the segment.  tcp_input frees it at the end
\* unless tcp_receive has passed it on as recv_data.
tcp_input(k0, s, e) ==
    LET k == tcp_process([k0 EXCEPT !.inp = TRUE, !.free = @ - 1], s, e)
        r == IF k.over THEN k
             ELSE IF k.reset THEN RemoveWithError(k)
             ELSE Callbacks(k, e)
    IN  IF k.data THEN r ELSE [r EXCEPT !.free = @ + 1]

EnvOf(s) == IF s.data THEN Env({"ok", "more", "bad"}) ELSE Quiet

\* A segment for an active connection; without a free pbuf it is lost.
Segment(c) ==
    /\ free > 0
    /\ Active(pcb[c])
    /\ \E k \in UNION {{tcp_input(Context(c), s, e) : e \in EnvOf(s)} :
                        s \in {t \in Segments(c) : Sendable(c, t)}} :
          Apply(c, k)

(***************************************************************************)
(* The listener                                                            *)
(***************************************************************************)
Used == {c \in Conns : pcb[c].st # "free"}

\* tcp_kill_timewait, then tcp_kill_state: the first of these states that some
\* pcb is in gives the victim, the longest inactive one.  tcp_kill_prio finds
\* none, since every connection has the listener's priority.
Victims(p) ==
    LET In(st) == {c \in Conns : p[c].st = st}
    IN  CASE In("TIME_WAIT") # {} -> In("TIME_WAIT")
          [] In("TIME_WAIT") = {} /\ In("LAST_ACK") # {} -> In("LAST_ACK")
          [] In("TIME_WAIT") = {} /\ In("LAST_ACK") = {} -> In("CLOSING")

\* The new pcb with its SYN queued; nothing is sent yet.
NewPcb == [NoPcb EXCEPT !.st = "SYN_RCVD", !.rcv = 1, !.lbb = 1, !.backlogpend = TRUE]

\* tcp_listen_input once a pcb is there: without memory for the SYN the pcb is
\* abandoned.
Answer(c, e) ==
    LET k == [Context(c) EXCEPT !.p = NewPcb, !.pend = @ + 1, !.net = NoNet]
    IN  IF e.mem THEN tcp_output(k, e) ELSE tcp_abandon(k, FALSE)

\* A SYN the client (re)sends while it has no answer, for which there is no pcb.
SynArrives(c) == /\ free > 0
                 /\ pcb[c].st = "free" /\ hs[c].st = "none" /\ got[c] = 0
                 /\ pending < Backlog

ListenInput(c) ==
    /\ SynArrives(c)
    /\ Cardinality(Used) < NumPcb
    /\ \E k \in {Answer(c, e) : e \in Control} : Apply(c, k)

\* tcp_alloc without a free pcb: pending FINs are sent, then a victim is found;
\* otherwise the SYN is dropped.
ListenInputFull(c) ==
    /\ SynArrives(c)
    /\ Cardinality(Used) >= NumPcb
    /\ \E e \in Control :
          LET r == [d \in Conns |-> RetryClose(Context(d), e)]
              p == [d \in Conns |-> r[d].p]
              n == [d \in Conns |-> r[d].net]
          IN  \/ /\ Victims(p) = {}
                 /\ pcb' = p /\ net' = n
                 /\ UNCHANGED <<hs, got, free, pending>>
              \/ \E v \in Victims(p) :
                    LET dead == tcp_abandon([r[v] EXCEPT !.p = p[v]], FALSE)
                        k == Answer(c, e)
                    IN  /\ pcb' = [p EXCEPT ![v] = dead.p, ![c] = k.p]
                        /\ net' = [n EXCEPT ![c] = k.net]
                        /\ hs' = [hs EXCEPT ![v] = dead.h]
                        /\ free' = dead.free
                        /\ pending' = k.pend
                        /\ UNCHANGED got

(***************************************************************************)
(* The timers, one pcb of the loop at a time                               *)
(***************************************************************************)
\* tcp_fasttmr: the FIN that could not be queued.
FastTmr(c, mem) ==
    /\ Active(pcb[c]) /\ pcb[c].closepend
    /\ \E k \in {RetryClose(Context(c), e) : e \in {f \in Control : f.mem = mem}} : Apply(c, k)

\* tcp_slowtmr, a pcb that has been retransmitting for too long, or has stayed
\* too long in one of three states.
Stuck(p) == p.st \in {"SYN_RCVD", "FIN_WAIT_2", "LAST_ACK"}

SlowTmrRemove(c) ==
    /\ Active(pcb[c])
    /\ pcb[c].nrtx >= MaxRtx \/ Stuck(pcb[c])
    /\ Apply(c, RemoveWithError(Context(c)))

\* tcp_slowtmr otherwise: the retransmission timer, then the poll timer, each
\* of which may have expired.
SlowTick(k, rto, poll, e) ==
    LET a == IF rto THEN tcp_rexmit_rto(k, e) ELSE k
        b == IF a.p.cb THEN http_poll(a, e) ELSE a
    IN  IF ~poll THEN a
        ELSE IF b.p.st = "free" THEN b ELSE tcp_output(b, e)

SlowTmr(c, rto, poll) ==
    /\ Active(pcb[c]) /\ pcb[c].nrtx < MaxRtx
    /\ rto \/ poll
    /\ rto => pcb[c].una < pcb[c].lbb
    /\ \E k \in {SlowTick(Context(c), rto, poll, e) : e \in Quiet} : Apply(c, k)

\* tcp_slowtmr, 2 MSL in TIME_WAIT.
TimeWaitOver(c) ==
    /\ pcb[c].st = "TIME_WAIT"
    /\ Apply(c, tcp_free(Context(c)))

(***************************************************************************)
(* The client's end of the wire                                            *)
(***************************************************************************)
ClientReceives(c) ==
    /\ got[c] < net[c].sent
    /\ got' = [got EXCEPT ![c] = @ + 1]
    /\ UNCHANGED <<pcb, hs, net, free, pending>>

Next == \E c \in Conns :
           \/ Segment(c)
           \/ ListenInput(c)
           \/ ListenInputFull(c)
           \/ \E mem \in BOOLEAN : FastTmr(c, mem)
           \/ SlowTmrRemove(c)
           \/ \E rto, poll \in BOOLEAN : SlowTmr(c, rto, poll)
           \/ TimeWaitOver(c)
           \/ ClientReceives(c)

Spec == Init /\ [][Next]_vars

\* When a timer has something to do: ENABLED of the three steps below, written
\* out as a comparison of what the step leaves with what it finds.
Changes(c, k) ==
    <<k.p, k.h, k.net, k.free, k.pend>> # <<pcb[c], hs[c], net[c], free, pending>>
PollDue(c) ==
    /\ Active(pcb[c]) /\ pcb[c].nrtx < MaxRtx
    /\ \E rto \in BOOLEAN, e \in Quiet :
          /\ rto => pcb[c].una < pcb[c].lbb
          /\ Changes(c, SlowTick(Context(c), rto, TRUE, e))
RemoveDue(c) ==
    /\ Active(pcb[c])
    /\ pcb[c].nrtx >= MaxRtx \/ Stuck(pcb[c])
    /\ Changes(c, RemoveWithError(Context(c)))
CloseDue(c) ==
    /\ Active(pcb[c]) /\ pcb[c].closepend
    /\ \E e \in {f \in Control : f.mem} : Changes(c, RetryClose(Context(c), e))

\* The timers run as long as the main loop does, so a timer that stays due
\* expires (weak fairness).  A FIN's segment comes
\* from a pool the server's other connections give back, so memory for it is
\* there from time to time.
Fairness ==
    \A c \in Conns :
       /\ \/ []<>~PollDue(c)
          \/ []<><<\E rto \in BOOLEAN : SlowTmr(c, rto, TRUE)>>_vars
       /\ []<>~RemoveDue(c) \/ []<><<SlowTmrRemove(c)>>_vars
       /\ []<>~CloseDue(c) \/ []<><<FastTmr(c, TRUE)>>_vars

FairSpec == Spec /\ Fairness

-----------------------------------------------------------------------------
(***************************************************************************)
(* Properties                                                              *)
(***************************************************************************)
States == {"free", "SYN_RCVD", "ESTABLISHED", "CLOSE_WAIT", "LAST_ACK",
           "FIN_WAIT_1", "FIN_WAIT_2", "CLOSING", "TIME_WAIT"}

\* The types of the variables.
TypeOK ==
    /\ pcb \in [Conns -> [st : States, rcv : Nat, wdef : 0 .. 3, una : Nat, uns : Nat,
                          nxt : Nat, lbb : 0 .. FileLen + 2, fin : BOOLEAN,
                          closepend : BOOLEAN, rxclosed : BOOLEAN, backlogpend : BOOLEAN,
                          nrtx : 0 .. MaxRtx, cb : BOOLEAN]]
    /\ hs \in [Conns -> [st : {"none", "live", "served", "failed"}, req : 0 .. ReqQueueLen,
                         file : BOOLEAN, left : 0 .. FileLen, retries : 0 .. MaxRetries - 1]]
    /\ net \in [Conns -> [sent : Nat, fin : Nat, rst : BOOLEAN, peerfin : BOOLEAN]]
    /\ got \in [Conns -> Nat]
    /\ free \in 0 .. PoolSize
    /\ pending \in 0 .. Backlog

\* The receive buffers on the request queues: buffer i of connection c.
Queued(h) == {b \in Conns \X (1 .. ReqQueueLen) : b[2] <= h[b[1]].req}

\* No receive buffer is lost or freed twice: each is in the pool or on the
\* request queue of a live connection, whichever way a connection ends
\* (http_recv, http_close_conn, http_err, tcp_input).
PoolConserved == free + Cardinality(Queued(hs)) = PoolSize

\* The server's state lives exactly as long as its callbacks are registered on
\* an established pcb: no callback runs on a freed http_state, none is left
\* behind by a pcb that is aborted, times out or is taken by tcp_alloc.
StateMatchesPcb ==
    \A c \in Conns :
       /\ hs[c].st = "live" <=> pcb[c].cb
       /\ pcb[c].cb => pcb[c].st = "ESTABLISHED" /\ ~pcb[c].rxclosed /\ pcb[c].wdef = 0

\* A connection the server has closed has its FIN queued or is marked for
\* tcp_fasttmr: a close that failed for want of memory is never forgotten.
CloseNotForgotten ==
    \A c \in Conns :
       pcb[c].rxclosed /\ pcb[c].st \in {"ESTABLISHED", "CLOSE_WAIT"} => pcb[c].closepend

\* accepts_pending counts the half open connections exactly, so that the
\* listener never stops answering for good (tcp_backlog_accepted's warning).
PendingExact ==
    /\ pending = Cardinality({c \in Conns : pcb[c].backlogpend})
    /\ \A c \in Conns : pcb[c].backlogpend <=> pcb[c].st = "SYN_RCVD"

\* No part of the file is skipped or queued twice, and never more than the send
\* buffer holds, however little http_write gets through each time.
NothingSkipped ==
    \A c \in Conns :
       hs[c].file => /\ pcb[c].lbb - 1 + hs[c].left = FileLen
                     /\ pcb[c].lbb - pcb[c].una <= SndBuf

\* A client that receives the server's FIN after the end of file was reached
\* has received the whole file before it.
WholeFile ==
    \A c \in Conns :
       hs[c].st = "served" /\ net[c].fin # 0 => net[c].fin = FileLen + 1

\* A client that leaves its own side open until it is answered is not reset
\* once the whole file has been queued.
ServedNotReset ==
    \A c \in Conns :
       hs[c].st = "served" /\ net[c].rst => net[c].peerfin

\* Whichever way connections begin and end, buffers, http_states and the
\* listener's count of half open connections stay exact.
ResourcesSafe == TypeOK /\ PoolConserved /\ StateMatchesPcb /\ PendingExact

\* The response a client sees is the whole file, then the FIN, and no RST.
ResponseWhole == NothingSkipped /\ WholeFile /\ ServedNotReset

\* What http_send says of the end of the file: the FIN is added to the data, it
\* does not become a RST.  Not so for a client whose FIN comes with its request
\* (README, Disagreements).
EofSendsFin == \A c \in Conns : hs[c].st = "served" => ~net[c].rst

\* The server lets go of every connection and completes every close: a client
\* that makes no progress is closed by http_poll, one that is gone is removed by
\* tcp_slowtmr, and a FIN that found no memory is queued by tcp_fasttmr.  So the
\* receive pool, which incomplete requests can use up, comes back.
ConnectionEnds ==
    \A c \in Conns :
       hs[c].st = "live" \/ pcb[c].closepend ~> hs[c].st # "live" /\ ~pcb[c].closepend

\* The server implements HttpLedger: connections only go forward, and move
\* buffers between their own request queue and the pool only.
Phase(h) == CASE h.st = "none" -> "none"
              [] h.st = "live" -> IF h.file THEN "sending" ELSE "reading"
              [] h.st \in {"served", "failed"} -> "ended"

Ledger == INSTANCE HttpLedger
             WITH Limit <- ReqQueueLen,
                  phase <- [c \in Conns |-> Phase(hs[c])],
                  held <- [c \in Conns |-> hs[c].req],
                  pool <- free

ImplementsLedger == Ledger!Spec
=============================================================================

------------------------------- MODULE TcpSend ------------------------------
(***************************************************************************)
(* The sending half of one lwIP TCP connection (tcp_out.c, the ACK part of *)
(* tcp_receive, the timers of tcp_slowtmr) byte by byte: the two queues of *)
(* segments, the peer's window and the congestion window, retransmission   *)
(* after a timeout and after three duplicate ACKs, and the persist timer   *)
(* with its probes and its splitting of the first unsent segment.          *)
(*                                                                         *)
(* Sequence numbers count from the first byte of the response.  The pcb is *)
(* the record k: its fields have lwIP's names, except wl2, which equals    *)
(* lastack as the peer sends nothing but ACKs here.  rtime is -1 or, for   *)
(* any value from 0, 0: how long the timers take is left open.  cwnd is    *)
(* cut at SndBuf, beyond which it has no effect.  rto_end is -1 without    *)
(* TF_RTO.  k.wire holds all segments that have been sent.                 *)
(*                                                                         *)
(* The network loses, repeats and reorders both data and ACKs.             *)
(***************************************************************************)
EXTENDS Integers, SequencesExt

CONSTANTS MSS,        \* bytes in a segment
          Bytes,      \* bound: bytes the application writes
          Windows,    \* windows the peer advertises
          Shrinks,    \* the peer may take back window it has advertised
          Closes,     \* the application closes after its last byte
          Chunks,     \* sizes of the application's writes
          Failures,   \* there may be no route, and the transmit path may fail
          MaxRtx,     \* TCP_MAXRTX
          MaxAcks     \* bound: ACKs that arrive

SndBuf == 2 * MSS     \* TCP_SND_BUF

ASSUME TcpSendAssumption ==
    /\ {MSS, Bytes, MaxRtx, MaxAcks} \subseteq Nat \ {0}
    /\ Windows \subseteq 0 .. SndBuf
    /\ Chunks \subseteq Nat \ {0}
    /\ {Shrinks, Closes, Failures} \subseteq BOOLEAN

VARIABLES k,       \* the pcb and what it has put on the wire
          rcv,     \* the peer's next expected byte; the FIN counts as one
          acks     \* ACKs that have arrived

vars == <<k, rcv, acks>>

Init == /\ \E w \in Windows :
              k = [unsent |-> <<>>, unacked |-> <<>>, lastack |-> 0, snd_nxt |-> 0,
                   snd_lbb |-> 0, snd_wnd |-> w, cwnd |-> SndBuf, rtime |-> -1,
                   nrtx |-> 0, rto_end |-> -1, persist |-> FALSE, probe |-> 0,
                   dupacks |-> 0, infr |-> FALSE, fin |-> FALSE, open |-> TRUE,
                   wire |-> {}]
        /\ rcv = 0
        /\ acks = 0

\* Outcomes of allocations, of the route lookup and of the transmit path, which
\* takes e.out segments before one fails; e.hold: Nagle's algorithm is not
\* overridden by an earlier memory error or a full queue.
Env == [mem : BOOLEAN, hold : BOOLEAN, route : IF Failures THEN BOOLEAN ELSE {TRUE},
        out : IF Failures THEN 0 .. 3 ELSE {3}]

Good == [mem |-> TRUE, hold |-> TRUE, route |-> TRUE, out |-> 3]

(***************************************************************************)
(* Segments                                                                *)
(***************************************************************************)
Seg(seq, len, fin) == [seq |-> seq, len |-> len, fin |-> fin]

TCPLEN(g) == g.len + (IF g.fin THEN 1 ELSE 0)

End(g) == g.seq + TCPLEN(g)

\* The number of segments before the first whose place is in T.
Before(s, T) == Min({Len(s)} \cup {i - 1 : i \in T})

\* Inserted before the first segment that is not smaller.
Insert(s, g) == InsertAt(s, Before(s, {i \in DOMAIN s : s[i].seq >= g.seq}) + 1, g)

Queued == k.unacked \o k.unsent

BytesIn(s) == FoldSeq(LAMBDA g, n : g.len + n, 0, s)

(***************************************************************************)
(* Queueing data and the FIN                                               *)
(***************************************************************************)
\* n bytes in new segments.
NewSegs(seq, n) ==
    [i \in 1 .. (n + MSS - 1) \div MSS |->
        LET at == (i - 1) * MSS
        IN  Seg(seq + at, IF n - at < MSS THEN n - at ELSE MSS, FALSE)]

\* How many of n bytes the last unsent segment takes.
Fill(p, n) ==
    LET last == p.unsent[Len(p.unsent)]
    IN  IF p.unsent = <<>> \/ last.len = 0 THEN 0
        ELSE IF MSS - last.len < n THEN MSS - last.len ELSE n

\* tcp_write: the last unsent segment is filled up, the rest makes new segments.
\* On a failure nothing is changed.
tcp_write(p, n, e) ==
    LET fill == Fill(p, n)
        old == IF fill = 0 THEN p.unsent
               ELSE [p.unsent EXCEPT ![Len(p.unsent)].len = @ + fill]
    IN  IF ~e.mem \/ p.fin \/ n > SndBuf - BytesIn(p.unsent \o p.unacked)
        THEN p
        ELSE [p EXCEPT !.unsent = old \o NewSegs(p.snd_lbb + fill, n - fill), !.snd_lbb = @ + n]

\* Mutant: the FIN goes on the first unsent segment.
tcp_send_finFirst(p, e) ==
    IF p.fin \/ p.unsent = <<>> THEN p
    ELSE [p EXCEPT !.unsent[1].fin = TRUE, !.fin = TRUE]

\* tcp_send_fin: the FIN goes on the last unsent segment, else on one of its own.
tcp_send_fin(p, e) ==
    IF p.fin THEN p
    ELSE IF p.unsent # <<>> THEN [p EXCEPT !.unsent[Len(p.unsent)].fin = TRUE, !.fin = TRUE]
    ELSE IF e.mem THEN [p EXCEPT !.unsent = <<Seg(p.snd_lbb, 0, TRUE)>>,
                                 !.snd_lbb = @ + 1, !.fin = TRUE]
    ELSE p

(***************************************************************************)
(* tcp_output                                                              *)
(***************************************************************************)
Wnd(p) == IF p.snd_wnd < p.cwnd THEN p.snd_wnd ELSE p.cwnd

Fits(p, g) == g.seq - p.lastack + g.len <= Wnd(p)

\* The first unsent segment goes out and waits to be acknowledged, behind the
\* others unless it is sent again.
SendOne(p) ==
    LET g == p.unsent[1]
        behind == p.unacked = <<>> \/ p.unacked[Len(p.unacked)].seq <= g.seq
    IN  [p EXCEPT !.unsent = Tail(@),
                  !.unacked = IF behind THEN Append(@, g) ELSE Insert(@, g),
                  !.snd_nxt = IF @ < End(g) THEN End(g) ELSE @,
                  !.rtime = 0,
                  !.wire = @ \cup {g}]

\* The first unsent segment does not fit: the persist timer takes over if no
\* retransmission timer runs for data in flight.
StartPersist(p) ==
    IF p.snd_wnd <= p.cwnd /\ p.unacked = <<>> /\ ~p.persist
    THEN [p EXCEPT !.persist = TRUE, !.probe = 0]
    ELSE p

\* Nagle's algorithm holds back a short last segment while others are in flight.
Held(p, e) ==
    /\ e.hold /\ ~p.infr /\ ~p.fin
    /\ p.unacked # <<>> /\ Len(p.unsent) = 1 /\ p.unsent[1].len < MSS

\* The loop's ith turn.  The retransmission timer runs as soon as a segment is
\* handed to IP, also if IP fails, which ends the loop.
Turn(p, i, e) ==
    IF p.unsent = <<>> \/ ~Fits(p, p.unsent[1]) \/ Held(p, e) THEN p
    ELSE IF i > e.out THEN [p EXCEPT !.rtime = 0]
    ELSE SendOne(p)

tcp_output(p, e) ==
    LET turn[i \in 0 .. Len(p.unsent)] ==
            IF i = 0 THEN [p EXCEPT !.persist = FALSE] ELSE Turn(turn[i - 1], i, e)
    IN  IF p.unsent = <<>> \/ ~e.route THEN p
        ELSE IF ~Fits(p, p.unsent[1]) THEN StartPersist(p)
        ELSE turn[Len(p.unsent)]

(***************************************************************************)
(* The application                                                         *)
(***************************************************************************)
\* One callback: some bytes, the close after the last one.
AppSend(p, n, e) ==
    LET a == tcp_write(p, n, e)
    IN  IF Closes /\ a.snd_lbb >= Bytes THEN tcp_send_fin(a, e) ELSE a

Writes(p) == {0} \cup {n \in Chunks : ~p.fin /\ p.snd_lbb + n <= Bytes}

\* A callback from tcp_slowtmr's poll or from other input, with the tcp_output
\* that follows each of them.
Application ==
    /\ k.open
    /\ \E n \in Writes(k), e \in Env : k' = tcp_output(AppSend(k, n, e), e)
    /\ UNCHANGED <<rcv, acks>>

(***************************************************************************)
(* An ACK arrives                                                          *)
(***************************************************************************)
\* tcp_rexmit and tcp_rexmit_fast: the first segment in flight is sent again.
tcp_rexmit_fast(p, busy) ==
    IF p.unacked = <<>> \/ p.infr \/ busy
    THEN p
    ELSE [p EXCEPT !.unacked = Tail(@), !.unsent = Insert(@, p.unacked[1]),
                   !.nrtx = IF @ < MaxRtx THEN @ + 1 ELSE @, !.cwnd = SndBuf,
                   !.infr = TRUE, !.rtime = 0]

\* An ACK of lastack: it may open the window; otherwise it is a duplicate while
\* the retransmission timer runs.
DuplicateAck(p, w, busy) ==
    LET d == IF p.dupacks < 3 THEN p.dupacks + 1 ELSE 3
        a == [p EXCEPT !.dupacks = d, !.cwnd = IF p.dupacks = 3 /\ @ + MSS < SndBuf
                                              THEN @ + MSS
                                              ELSE IF p.dupacks = 3 THEN SndBuf ELSE @]
    IN  IF w > p.snd_wnd THEN [p EXCEPT !.snd_wnd = w, !.dupacks = 0]
        ELSE IF p.rtime < 0 THEN [p EXCEPT !.dupacks = 0]
        ELSE IF d = 3 THEN tcp_rexmit_fast(a, busy) ELSE a

\* The number of segments at the head of a queue that an ACK takes off it.
Acked(s, a) == Before(s, {i \in DOMAIN s : End(s[i]) > a})

\* Mutant: segments that went back to the unsent queue are not looked at.
FreeAckedFlightOnly(p, a) ==
    [p EXCEPT !.unacked = SelectSeq(@, LAMBDA g : End(g) > a)]

\* tcp_free_acked_segments on both queues, up to the first not acknowledged.
FreeAcked(p, a) ==
    LET Rest(s) == SubSeq(s, Acked(s, a) + 1, Len(s))
    IN  [p EXCEPT !.unacked = Rest(@), !.unsent = Rest(@)]

\* Mutant: the timer stops with every ACK.
RestartTimerStop(p) == [p EXCEPT !.rtime = -1]

\* Nothing in flight, no timer; otherwise it starts again.
RestartTimer(p) == [p EXCEPT !.rtime = IF p.unacked = <<>> THEN -1 ELSE 0]

RtoDone(p) ==
    LET first == IF p.unacked # <<>> THEN p.unacked[1].seq
                 ELSE IF p.unsent # <<>> THEN p.unsent[1].seq ELSE p.rto_end
    IN  IF p.rto_end <= first THEN [p EXCEPT !.rto_end = -1] ELSE p

\* An ACK of something new.
NewAck(p, a, w) ==
    LET acked == a - p.lastack
        limit == IF p.rto_end >= 0 THEN MSS ELSE 2 * MSS
        grown == p.cwnd + (IF acked < limit THEN acked ELSE limit)
        q == [p EXCEPT !.infr = FALSE, !.nrtx = 0, !.dupacks = 0, !.lastack = a,
                       !.snd_wnd = w,
                       !.cwnd = IF p.infr \/ grown > SndBuf THEN SndBuf ELSE grown]
    IN  RtoDone(RestartTimer(FreeAcked(q, a)))

tcp_receive(p, a, w, busy) ==
    LET q == [p EXCEPT !.probe = 0]     \* tcp_process
    IN  IF a > p.lastack THEN NewAck(q, a, w)
        ELSE IF a = p.lastack THEN DuplicateAck(q, w, busy)
        ELSE [q EXCEPT !.dupacks = 0]

\* recv_acked: the ACK takes bytes off the queues.
AcksBytes(p, a) ==
    a > p.lastack /\ \E s \in {p.unacked, p.unsent} : \E i \in 1 .. Acked(s, a) : s[i].len > 0

\* The sent callback runs if bytes were acknowledged.
Callback(p, q, a, n, e) == IF AcksBytes(p, a) THEN AppSend(q, n, e) ELSE q

\* Any ACK the peer has sent or may send: the right edge of the window moves
\* back only for a peer that shrinks it.
AckArrives ==
    /\ k.open /\ acks < MaxAcks
    /\ \E a \in 0 .. rcv, w \in Windows, busy \in BOOLEAN :
          /\ a > k.lastack /\ ~Shrinks => a + w >= k.lastack + k.snd_wnd
          /\ LET p == tcp_receive(k, a, w, busy)
             IN  \E n \in Writes(p), e \in Env : k' = tcp_output(Callback(k, p, a, n, e), e)
    /\ acks' = acks + 1
    /\ UNCHANGED rcv

(***************************************************************************)
(* The timers of tcp_slowtmr                                               *)
(***************************************************************************)
\* Mutant: probes are not counted.
tcp_zero_window_probeUncounted(p, e) ==
    IF p.unsent = <<>> THEN p
    ELSE [p EXCEPT !.wire = @ \cup {Seg(p.unsent[1].seq, 1, FALSE)}]

\* tcp_zero_window_probe: one byte, or the FIN, that the window does not allow.
tcp_zero_window_probe(p, e) ==
    LET g == p.unsent[1]
        q == [p EXCEPT !.probe = @ + 1]
        end == g.seq + 1
    IN  IF p.unsent = <<>> THEN p
        ELSE IF ~e.mem THEN q
        ELSE [q EXCEPT !.snd_nxt = IF @ < end THEN end ELSE @,
                       !.wire = IF e.out > 0
                                THEN @ \cup {IF g.len = 0 THEN g ELSE Seg(g.seq, 1, FALSE)}
                                ELSE @]

\* Mutant: the rest of a split segment is not put back.
tcp_split_unsent_segLose(p) ==
    IF p.unsent[1].len <= p.snd_wnd THEN p
    ELSE [p EXCEPT !.unsent[1].len = p.snd_wnd]

\* tcp_split_unsent_seg: TCPH_SET_FLAG leaves the FIN on the first part too.
tcp_split_unsent_seg(p) ==
    LET g == p.unsent[1]
        head == [g EXCEPT !.len = p.snd_wnd]
        rest == Seg(g.seq + p.snd_wnd, g.len - p.snd_wnd, g.fin)
    IN  IF g.len <= p.snd_wnd THEN p
        ELSE [p EXCEPT !.unsent = <<head, rest>> \o Tail(@)]

\* The persist timer has reached its count.
PersistTmr(e) ==
    /\ k.open /\ k.persist
    /\ k.nrtx < MaxRtx /\ k.probe < MaxRtx
    /\ k' = IF k.snd_wnd = 0 THEN tcp_zero_window_probe(k, e)
            ELSE IF k.unsent = <<>> \/ ~e.mem THEN k
            ELSE tcp_output(tcp_split_unsent_seg(k), e)
    /\ UNCHANGED <<rcv, acks>>

\* Mutant: what was in flight goes behind the unsent.
tcp_rexmit_rto_prepareLast(p) ==
    [p EXCEPT !.unsent = @ \o p.unacked, !.unacked = <<>>]

\* tcp_rexmit_rto_prepare: everything in flight goes back before the unsent.
tcp_rexmit_rto_prepare(p) ==
    IF p.unacked = <<>> THEN p
    ELSE LET last == p.unacked[Len(p.unacked)]
         IN  [p EXCEPT !.unsent = p.unacked \o @, !.unacked = <<>>,
                       !.rto_end = End(last)]

\* The retransmission timer has expired.
RtoTmr(e) ==
    /\ k.open /\ ~k.persist /\ k.rtime >= 0 /\ k.nrtx < MaxRtx
    /\ Queued # <<>>
    /\ k' = tcp_output([tcp_rexmit_rto_prepare(k) EXCEPT !.rtime = 0, !.cwnd = MSS,
                                                         !.nrtx = @ + 1], e)
    /\ UNCHANGED <<rcv, acks>>

\* tcp_slowtmr gives up; the queues are freed.
GiveUp ==
    /\ k.open
    /\ k.nrtx >= MaxRtx \/ (k.persist /\ k.probe >= MaxRtx)
    /\ k' = [k EXCEPT !.open = FALSE, !.unsent = <<>>, !.unacked = <<>>]
    /\ UNCHANGED <<rcv, acks>>

(***************************************************************************)
(* The peer takes some or all of a segment that is next in sequence.       *)
(***************************************************************************)
PeerReceives ==
    /\ \E g \in k.wire : /\ g.seq <= rcv
                         /\ \E r \in rcv + 1 .. End(g) : rcv' = r
    /\ UNCHANGED <<k, acks>>

Next == \/ Application
        \/ AckArrives
        \/ \E e \in Env : PersistTmr(e)
        \/ \E e \in Env : RtoTmr(e)
        \/ GiveUp
        \/ PeerReceives

Spec == Init /\ [][Next]_vars

\* tcp_slowtmr runs every 500 ms and polls every pcb; memory, a route and the
\* transmit path are there again some time.
FairSpec == /\ Spec
            /\ WF_vars(PersistTmr(Good))
            /\ WF_vars(RtoTmr(Good))
            /\ WF_vars(GiveUp)
            /\ WF_vars(k.open /\ k' = tcp_output(k, Good) /\ UNCHANGED <<rcv, acks>>)

-----------------------------------------------------------------------------
(***************************************************************************)
(* Properties                                                              *)
(***************************************************************************)
Segment == [seq : 0 .. Bytes, len : 0 .. MSS, fin : BOOLEAN]

Pcb == [unsent : Seq(Segment), unacked : Seq(Segment), lastack : 0 .. Bytes + 1,
        snd_nxt : 0 .. Bytes + 1, snd_lbb : 0 .. Bytes + 1, snd_wnd : Windows,
        cwnd : MSS .. SndBuf, rtime : {-1, 0}, nrtx : 0 .. MaxRtx,
        rto_end : -1 .. Bytes + 1, persist : BOOLEAN, probe : 0 .. MaxRtx,
        dupacks : 0 .. 3, infr : BOOLEAN, fin : BOOLEAN, open : BOOLEAN,
        wire : SUBSET Segment]

\* The types of the variables.
TypeOK == k \in Pcb /\ rcv \in 0 .. Bytes + 1 /\ acks \in 0 .. MaxAcks

\* What the queues hold is exactly what the peer has not acknowledged: the
\* segments follow each other without gap or overlap from lastack to the end of
\* what was written, however they moved between the queues.  Only the first part
\* of a segment that tcp_split_unsent_seg has cut, which counts the window from
\* the segment's first byte, may be acknowledged already.
QueuesExact ==
    k.open =>
        /\ Queued = <<>> => k.lastack >= k.snd_lbb
        /\ Queued # <<>> =>
              /\ Queued[1].seq <= k.lastack
              /\ \E i \in {1, 2} \cap DOMAIN Queued : k.lastack < End(Queued[i])
              /\ End(Queued[Len(Queued)]) >= k.snd_lbb
        /\ \A i \in 1 .. Len(Queued) - 1 :
              /\ Queued[i].seq + Queued[i].len = Queued[i + 1].seq
              /\ Queued[i].fin => Queued[i + 1].fin

\* tcp_rexmit keeps the unsent queue sorted, as its comment says.  Not so when
\* its output fails and the timer expires (README, Disagreements).
UnsentSorted == \A i, j \in DOMAIN k.unsent : i < j => k.unsent[i].seq <= k.unsent[j].seq

\* snd_lbb is the sequence number of the next byte to be buffered, as tcp.h says.
LbbIsNext ==
    k.open => \A i \in DOMAIN Queued :
                 i = Len(Queued) /\ Queued[i].len > 0 => Queued[i].seq + Queued[i].len = k.snd_lbb

\* As tcp_slowtmr asserts, the persist timer never runs with data in flight.
PersistNoFlight == k.persist => k.unacked = <<>>

\* As tcp_slowtmr asserts, the persist timer never runs with an empty send buffer.
\* Not so after the last byte was probed with (README, Disagreements).
PersistHasData == k.open /\ k.persist => k.unsent # <<>>

\* Data in flight always has a retransmission timer.
FlightTimed == k.open /\ k.unacked # <<>> => k.rtime >= 0

\* What is sent is guarded by the retransmission timer, and the persist timer
\* takes over only when nothing is in flight.
TimersSafe == TypeOK /\ PersistNoFlight /\ FlightTimed

\* The FIN the peer sees comes after the last byte that was written, or on the
\* first part of a segment that tcp_split_unsent_seg has cut, whose remainder
\* carries it as well.
FinLast ==
    k.open =>
       \A g \in k.wire :
          g.fin => \/ g.seq + g.len = Bytes
                   \/ \E h \in k.wire \cup Range(Queued) : h.fin /\ h.seq = g.seq + g.len

\* What was written is acknowledged or the connection is given up, also if the
\* peer falls silent or leaves its window closed: some timer always goes on.
Drains == Queued # <<>> ~> Queued = <<>>
=============================================================================

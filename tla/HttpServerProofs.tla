-------------------------- MODULE HttpServerProofs ---------------------------
(***************************************************************************)
(* The HTTP server on lwIP's TCP keeps its buffers, its states and its     *)
(* response exact, and implements HttpLedger, for any number of clients    *)
(* and pcbs, every file length, buffer and pool.                           *)
(***************************************************************************)
EXTENDS HttpServer, FiniteSetTheorems, TLAPS

(***************************************************************************)
(* The invariant of one connection                                         *)
(***************************************************************************)
Pcbs == [st : States, rcv : Nat, wdef : Nat, una : Nat, uns : Nat, nxt : Nat, lbb : Nat,
         fin : BOOLEAN, closepend : BOOLEAN, rxclosed : BOOLEAN, backlogpend : BOOLEAN,
         nrtx : 0 .. MaxRtx, cb : BOOLEAN]
HttpStates == [st : {"none", "live", "served", "failed"}, req : Nat, file : BOOLEAN,
               left : Nat, retries : 0 .. MaxRetries - 1]
Nets == [sent : Nat, fin : Nat, rst : BOOLEAN, peerfin : BOOLEAN]
Contexts == [p : Pcbs, h : HttpStates, net : Nets, free : Int, pend : Int, inp : BOOLEAN,
             closed : BOOLEAN, gotfin : BOOLEAN, reset : BOOLEAN, acked : BOOLEAN,
             data : BOOLEAN, over : BOOLEAN]

Open == {"ESTABLISHED", "CLOSE_WAIT"}
Finishing == {"FIN_WAIT_1", "FIN_WAIT_2", "CLOSING", "LAST_ACK", "TIME_WAIT"}

\* The send queues are in order; the FIN is queued in the states after it, and a
\* pcb whose close waits for memory is still in a state before it.
PcbInv(p) ==
  /\ p.st = "free" => p = NoPcb
  /\ p.una <= p.uns /\ p.uns <= p.nxt /\ p.nxt <= p.lbb
  /\ p.st = "SYN_RCVD" => p.lbb = 1 /\ ~p.cb /\ ~p.rxclosed
  /\ p.st \in Open \cup Finishing => p.una >= 1
  /\ p.fin <=> p.st \in Finishing
  /\ p.fin => p.rxclosed
  /\ p.backlogpend <=> p.st = "SYN_RCVD"
  /\ p.st \in {"FIN_WAIT_2", "TIME_WAIT"} => p.una = p.lbb
  /\ p.closepend <=> p.rxclosed /\ p.st \in Open
  /\ p.cb <=> ~p.rxclosed /\ p.st \in Open

\* Units of the file that have been queued: all but the SYN and the FIN.
Written(p) == p.lbb - (IF p.fin THEN 2 ELSE 1)

\* The http_state belongs to the callbacks of the pcb; what is queued and what
\* is left of the file are the file.
HttpInv(p, h) ==
  /\ h.st = "live" <=> p.cb
  /\ h.st = "none" => p.st \in {"free", "SYN_RCVD"}
  /\ p.st = "SYN_RCVD" => h.st = "none"
  /\ h.st # "live" => h = [NoHttpState EXCEPT !.st = h.st]
  /\ h.req <= ReqQueueLen
  /\ h.file => h.req = 0 /\ Written(p) + h.left = FileLen /\ p.lbb - p.una <= SndBuf
  /\ h.st = "live" /\ ~h.file => p.lbb = 1 /\ h.left = 0
  /\ p.st # "free" /\ h.st = "served" => Written(p) = FileLen
  /\ p.st # "free" /\ h.st = "failed" => Written(p) <= FileLen

\* What went out on the wire for a connection that has ended.
EndInv(h, n) ==
  /\ h.st = "served" /\ n.fin # 0 => n.fin = FileLen + 1
  /\ ~Trailing => (h.st = "served" /\ n.rst => n.peerfin)

WireInv(p, h, n) ==
  /\ EndInv(h, n)
  /\ p.st # "free" /\ ~p.fin => n.fin = 0
  /\ p.fin => n.fin \in {0, p.lbb - 1}
  /\ p.cb \/ p.st = "SYN_RCVD" => ~n.rst

ConnInv(p, h, n) == PcbInv(p) /\ HttpInv(p, h) /\ WireInv(p, h, n)

\* Between two steps the receive window is open and a pcb whose client has
\* closed has no callbacks.
AtRest(p) == p.wdef = 0 /\ (p.cb => p.st = "ESTABLISHED")

TypeInv ==
  /\ pcb \in [Conns -> Pcbs] /\ hs \in [Conns -> HttpStates] /\ net \in [Conns -> Nets]
  /\ got \in [Conns -> Nat] /\ free \in Nat /\ pending \in 0 .. Backlog

ConnsInv == \A c \in Conns : ConnInv(pcb[c], hs[c], net[c]) /\ AtRest(pcb[c])

IInv == TypeInv /\ ConnsInv /\ PendingExact /\ (~Trailing => PoolConserved)

\* The assumptions on the constants, one by one.
LEMMA Const ==
  /\ SndBuf \in Nat /\ SndBuf > 0 /\ MaxRtx \in Nat /\ MaxRtx > 0
  /\ FileLen \in Nat /\ FileLen > 0 /\ ReqQueueLen \in Nat /\ MaxRetries \in Nat /\ MaxRetries > 0
  /\ Trailing \in BOOLEAN /\ IsFiniteSet(Conns)
  /\ NumPcb \in Nat /\ Backlog \in Nat /\ PoolSize \in Nat /\ MaxReq \in Nat
BY TcpAssumption, HttpdAssumption, ServerAssumption

\* The smaller of two numbers.
LEMMA Min2 == \A a, b \in Int : Min({a, b}) = IF a <= b THEN a ELSE b
<1> SUFFICES ASSUME NEW a \in Int, NEW b \in Int PROVE Min({a, b}) = IF a <= b THEN a ELSE b
  OBVIOUS
<1> DEFINE m == IF a <= b THEN a ELSE b
<1>1. m \in {a, b} /\ \A y \in {a, b} : m <= y
  OBVIOUS
<1>2. \A x \in {a, b} : (\A y \in {a, b} : x <= y) => x = m
  OBVIOUS
<1> HIDE DEF m
<1>3. Min({a, b}) = m
  BY <1>1, <1>2 DEF Min
<1> QED
  BY <1>3 DEF m

\* The larger of two numbers.
LEMMA Max2 == \A a, b \in Int : Max({a, b}) = IF a >= b THEN a ELSE b
<1> SUFFICES ASSUME NEW a \in Int, NEW b \in Int PROVE Max({a, b}) = IF a >= b THEN a ELSE b
  OBVIOUS
<1> DEFINE m == IF a >= b THEN a ELSE b
<1>1. m \in {a, b} /\ \A y \in {a, b} : m >= y
  OBVIOUS
<1>2. \A x \in {a, b} : (\A y \in {a, b} : x >= y) => x = m
  OBVIOUS
<1> HIDE DEF m
<1>3. Max({a, b}) = m
  BY <1>1, <1>2 DEF Max
<1> QED
  BY <1>3 DEF m

\* The smallest of three numbers.
LEMMA Min3 ==
  ASSUME NEW a \in Int, NEW b \in Int, NEW c \in Int
  PROVE  /\ Min({a, b, c}) \in {a, b, c}
         /\ Min({a, b, c}) <= a /\ Min({a, b, c}) <= b /\ Min({a, b, c}) <= c
<1> DEFINE S == {a, b, c}
           m == IF a <= b /\ a <= c THEN a ELSE IF b <= c THEN b ELSE c
<1>1. m \in S /\ \A y \in S : m <= y
  OBVIOUS
<1>2. Min(S) \in S /\ \A y \in S : Min(S) <= y
  BY <1>1 DEF Min
<1> QED
  BY <1>2


(***************************************************************************)
(* Contexts                                                                *)
(***************************************************************************)
Good(k) == k \in Contexts /\ ConnInv(k.p, k.h, k.net)

\* How far a connection has come.
Stage(h) == IF h.st = "none" THEN 0
            ELSE IF h.st = "live" THEN IF h.file THEN 2 ELSE 1
            ELSE 3

\* A connection goes forward and takes no buffer.
Forward(h, g) == /\ Stage(h) <= Stage(g)
                 /\ Stage(h) = Stage(g) => g.req = h.req
                 /\ g.req <= h.req

\* Receive buffers the context has in hand, and half open connections of others.
Bufs(k) == k.free + k.h.req
Others(k) == k.pend - (IF k.p.backlogpend THEN 1 ELSE 0)

SameFlags(k, r) ==
  /\ r.inp = k.inp /\ r.closed = k.closed /\ r.gotfin = k.gotfin /\ r.reset = k.reset
  /\ r.acked = k.acked /\ r.data = k.data /\ r.over = k.over

\* The call lost no buffer and no half open connection.
Moved(k, r) == Bufs(r) = Bufs(k) /\ Others(r) = Others(k) /\ Forward(k.h, r.h)

\* The fields of a context.
LEMMA ContextParts ==
  ASSUME NEW k \in Contexts
  PROVE  /\ k.p \in Pcbs /\ k.h \in HttpStates /\ k.net \in Nets /\ k.free \in Int /\ k.pend \in Int
         /\ k.inp \in BOOLEAN /\ k.closed \in BOOLEAN /\ k.gotfin \in BOOLEAN
         /\ k.reset \in BOOLEAN /\ k.acked \in BOOLEAN /\ k.data \in BOOLEAN /\ k.over \in BOOLEAN
BY DEF Contexts

\* The fields of a pcb.
LEMMA PcbParts ==
  ASSUME NEW p \in Pcbs
  PROVE  /\ p.st \in States /\ p.rcv \in Nat /\ p.wdef \in Nat /\ p.una \in Nat /\ p.uns \in Nat
         /\ p.nxt \in Nat /\ p.lbb \in Nat /\ p.fin \in BOOLEAN /\ p.closepend \in BOOLEAN
         /\ p.rxclosed \in BOOLEAN /\ p.backlogpend \in BOOLEAN /\ p.nrtx \in 0 .. MaxRtx
         /\ p.cb \in BOOLEAN
BY DEF Pcbs

\* The fields of an http_state.
LEMMA HttpParts ==
  ASSUME NEW h \in HttpStates
  PROVE  /\ h.st \in {"none", "live", "served", "failed"} /\ h.req \in Nat /\ h.file \in BOOLEAN
         /\ h.left \in Nat /\ h.retries \in 0 .. MaxRetries - 1
BY DEF HttpStates

\* The fields of what crossed the wire.
LEMMA NetParts ==
  ASSUME NEW n \in Nets
  PROVE  n.sent \in Nat /\ n.fin \in Nat /\ n.rst \in BOOLEAN /\ n.peerfin \in BOOLEAN
BY DEF Nets

\* A pcb that is not in use, and an http_state that is not.
LEMMA Unused ==
  /\ NoPcb \in Pcbs
  /\ NoPcb.st = "free" /\ NoPcb.una = 0 /\ NoPcb.uns = 0 /\ NoPcb.nxt = 0 /\ NoPcb.lbb = 0
  /\ NoPcb.rcv = 0 /\ NoPcb.wdef = 0 /\ NoPcb.nrtx = 0
  /\ ~NoPcb.fin /\ ~NoPcb.closepend /\ ~NoPcb.rxclosed /\ ~NoPcb.backlogpend /\ ~NoPcb.cb
BY Const DEF NoPcb, Pcbs, States

\* What http_state_free leaves of an http_state.
LEMMA EndedState ==
  ASSUME NEW how \in {"none", "live", "served", "failed"}
  PROVE  LET h == [NoHttpState EXCEPT !.st = how]
         IN  /\ h \in HttpStates /\ h.st = how /\ h.req = 0 /\ ~h.file /\ h.left = 0 /\ h.retries = 0
             /\ h = [NoHttpState EXCEPT !.st = h.st]
<1> DEFINE h == [NoHttpState EXCEPT !.st = how]
<1>1. 0 \in 0 .. MaxRetries - 1
  BY Const
<1>2. /\ NoHttpState \in HttpStates /\ NoHttpState.req = 0 /\ NoHttpState.file = FALSE
      /\ NoHttpState.left = 0 /\ NoHttpState.retries = 0
  BY <1>1 DEF NoHttpState, HttpStates
<1>3. h \in HttpStates
  BY <1>2 DEF HttpStates
<1>4. h.st = how /\ h.req = 0 /\ h.file = FALSE /\ h.left = 0 /\ h.retries = 0
  BY <1>2 DEF HttpStates
<1> HIDE DEF h
<1>5. h = [NoHttpState EXCEPT !.st = h.st]
  BY <1>4 DEF h
<1> QED
  BY <1>3, <1>4, <1>5 DEF h

\* Two calls, one after the other, lose nothing if neither does.
LEMMA MovedTrans ==
  ASSUME NEW k \in Contexts, NEW r \in Contexts, NEW t \in Contexts, Moved(k, r), Moved(r, t)
  PROVE  Moved(k, t)
<1>1. k.h.req \in Nat /\ r.h.req \in Nat /\ t.h.req \in Nat
  BY ContextParts, HttpParts
<1>2. Stage(k.h) \in Nat /\ Stage(r.h) \in Nat /\ Stage(t.h) \in Nat
  BY DEF Stage
<1> QED
  BY <1>1, <1>2 DEF Moved, Forward

\* Two calls keep the locals of tcp_input if each does.
LEMMA FlagsTrans ==
  ASSUME NEW k, NEW r, NEW t, SameFlags(k, r), SameFlags(r, t)
  PROVE  SameFlags(k, t)
BY DEF SameFlags

\* http_state_free
LEMMA StateFree ==
  ASSUME NEW k \in Contexts, NEW how \in {"served", "failed"}
  PROVE  LET r == http_state_free(k, how)
         IN  /\ r \in Contexts /\ r.p = k.p /\ r.h = [NoHttpState EXCEPT !.st = how]
             /\ r.net = k.net /\ r.free = k.free + k.h.req /\ r.pend = k.pend
             /\ SameFlags(k, r)
<1>1. [NoHttpState EXCEPT !.st = how] \in HttpStates
  BY EndedState
<1>2. k.free + k.h.req \in Int
  BY ContextParts, HttpParts
<1> QED
  BY <1>1, <1>2 DEF http_state_free, Contexts, SameFlags

\* The pcb goes, with the error callback if there is one.
LEMMA Removed ==
  ASSUME NEW k, Good(k)
  PROVE  LET r == RemoveWithError(k)
         IN  /\ r \in Contexts /\ r.p = NoPcb /\ r.net = k.net
             /\ r.h = IF k.p.cb THEN [NoHttpState EXCEPT !.st = "failed"] ELSE k.h
             /\ Moved(k, r) /\ SameFlags(k, r)
<1> DEFINE a == http_err(k)
           b == tcp_pcb_purge(a)
           r == tcp_free(b)
<1>1. /\ a \in Contexts /\ a.p = k.p /\ a.net = k.net /\ a.pend = k.pend /\ SameFlags(k, a)
      /\ a.h = IF k.p.cb THEN [NoHttpState EXCEPT !.st = "failed"] ELSE k.h
      /\ a.free = IF k.p.cb THEN k.free + k.h.req ELSE k.free
  BY StateFree DEF http_err, Good, SameFlags
<1> HIDE DEF a
<1>2. a.p.backlogpend <=> a.p.st = "SYN_RCVD"
  BY <1>1 DEF Good, ConnInv, PcbInv
<1>3. /\ b \in Contexts /\ b.h = a.h /\ b.net = a.net /\ b.free = a.free /\ SameFlags(a, b)
      /\ b.pend = IF a.p.backlogpend THEN a.pend - 1 ELSE a.pend
  <2>1. CASE Active(a.p) /\ a.p.backlogpend
    <3> DEFINE q == [[a.p EXCEPT !.backlogpend = FALSE] EXCEPT !.uns = a.p.una, !.lbb = a.p.una]
    <3>1. q \in Pcbs
      BY <1>1, ContextParts DEF Pcbs
    <3> DEFINE t == [a EXCEPT !.p = [a.p EXCEPT !.backlogpend = FALSE], !.pend = a.pend - 1]
    <3>2. tcp_backlog_accepted(a) = t
      BY <2>1 DEF tcp_backlog_accepted
    <3>3. t.p = [a.p EXCEPT !.backlogpend = FALSE] /\ t.p.una = a.p.una
      BY <1>1, ContextParts DEF Contexts, Pcbs
    <3> HIDE DEF t
    <3>4. b = [t EXCEPT !.p = q]
      BY <2>1, <3>2, <3>3 DEF tcp_pcb_purge
    <3> HIDE DEF q, b
    <3>5. b = [a EXCEPT !.p = q, !.pend = a.pend - 1]
      BY <3>4, <1>1 DEF t, Contexts
    <3>6. a.pend - 1 \in Int
      BY <1>1, ContextParts
    <3> HIDE DEF t
    <3> QED
      BY <3>1, <3>5, <3>6, <2>1, <1>1 DEF Contexts, SameFlags
  <2>2. CASE Active(a.p) /\ ~a.p.backlogpend
    <3> DEFINE q == [a.p EXCEPT !.uns = a.p.una, !.lbb = a.p.una]
    <3>1. q \in Pcbs
      BY <1>1, ContextParts DEF Pcbs
    <3>2. b = [a EXCEPT !.p = q]
      BY <2>2 DEF tcp_pcb_purge, tcp_backlog_accepted
    <3> HIDE DEF q, b
    <3> QED
      BY <3>1, <3>2, <2>2, <1>1 DEF Contexts, SameFlags
  <2>3. CASE ~Active(a.p)
    BY <2>3, <1>1, <1>2 DEF tcp_pcb_purge, Active, SameFlags
  <2> QED
    BY <2>1, <2>2, <2>3
<1> HIDE DEF b
<1>4. /\ r \in Contexts /\ r.p = NoPcb /\ r.h = b.h /\ r.net = b.net /\ r.free = b.free
      /\ r.pend = b.pend /\ SameFlags(b, r)
  BY <1>3, Unused DEF tcp_free, Contexts, SameFlags
<1>5. r = RemoveWithError(k)
  BY DEF RemoveWithError, a, b
<1> HIDE DEF r
<1>6. Forward(k.h, r.h) /\ Bufs(r) = Bufs(k)
  <2>1. k.h.req \in Nat /\ k.h \in HttpStates /\ k.free \in Int
    BY ContextParts, HttpParts DEF Good
  <2>2. CASE k.p.cb
    <3>1. k.h.st = "live"
      BY <2>2 DEF Good, ConnInv, HttpInv
    <3>2. r.h.st = "failed" /\ r.h.req = 0
      BY <2>2, <1>1, <1>3, <1>4, EndedState
    <3>3. r.free = k.free + k.h.req
      BY <2>2, <1>1, <1>3, <1>4
    <3> QED
      BY <3>1, <3>2, <3>3, <2>1 DEF Forward, Stage, Bufs
  <2>3. CASE ~k.p.cb
    BY <2>1, <2>3, <1>1, <1>3, <1>4 DEF Forward, Stage, Bufs
  <2> QED
    BY <2>2, <2>3
<1>7. Others(r) = Others(k)
  BY <1>1, <1>3, <1>4, Unused, ContextParts DEF Others, Good
<1>8. SameFlags(k, r)
  BY <1>1, <1>3, <1>4, FlagsTrans
<1> QED
  BY <1>1, <1>3, <1>4, <1>5, <1>6, <1>7, <1>8 DEF Moved


\* An http_state that is not in use is empty.
LEMMA EndedIs ==
  ASSUME NEW h \in HttpStates, h = [NoHttpState EXCEPT !.st = h.st]
  PROVE  h.req = 0 /\ ~h.file /\ h.left = 0 /\ h.retries = 0
<1>1. PICK w \in {"none", "live", "served", "failed"} : w = h.st
  BY HttpParts
<1>2. h = [NoHttpState EXCEPT !.st = w]
  BY <1>1
<1> QED
  BY <1>2, EndedState

\* A connection without a pcb is in order if its http_state is gone.
LEMMA DeadGood ==
  ASSUME NEW k \in Contexts, k.p = NoPcb, k.h.st # "live",
         k.h = [NoHttpState EXCEPT !.st = k.h.st], EndInv(k.h, k.net)
  PROVE  Good(k)
<1>2. k.h.req = 0 /\ ~k.h.file /\ k.h.left = 0
  BY ContextParts, EndedIs
<1>3. PcbInv(NoPcb)
  BY Unused DEF PcbInv, Open, Finishing
<1>4. HttpInv(NoPcb, k.h)
  BY <1>2, Unused, Const DEF HttpInv
<1>5. WireInv(NoPcb, k.h, k.net)
  BY Unused DEF WireInv
<1> QED
  BY <1>3, <1>4, <1>5 DEF Good, ConnInv

\* tcp_slowtmr and a RST of the client: the connection is removed.
LEMMA RemovedGood ==
  ASSUME NEW k, Good(k)
  PROVE  Good(RemoveWithError(k)) /\ AtRest(RemoveWithError(k).p)
<1> DEFINE r == RemoveWithError(k)
<1>1. /\ r \in Contexts /\ r.p = NoPcb /\ r.net = k.net
      /\ r.h = IF k.p.cb THEN [NoHttpState EXCEPT !.st = "failed"] ELSE k.h
  BY Removed
<1> HIDE DEF r
<1>2. /\ k.h.st = "live" <=> k.p.cb
      /\ k.h.st # "live" => k.h = [NoHttpState EXCEPT !.st = k.h.st]
      /\ EndInv(k.h, k.net)
  BY DEF Good, ConnInv, HttpInv, WireInv
<1>3. CASE k.p.cb
  <2>1. r.h.st = "failed" /\ r.h = [NoHttpState EXCEPT !.st = r.h.st]
    BY <1>1, <1>3, EndedState
  <2>2. EndInv(r.h, r.net)
    BY <2>1 DEF EndInv
  <2> QED
    BY <1>1, <2>1, <2>2, DeadGood, Unused DEF r, AtRest
<1>4. CASE ~k.p.cb
  <2>1. r.h = k.h /\ r.h.st # "live" /\ r.h = [NoHttpState EXCEPT !.st = r.h.st] /\ EndInv(r.h, r.net)
    BY <1>1, <1>2, <1>4
  <2> QED
    BY <1>1, <2>1, DeadGood, Unused DEF r, AtRest
<1> QED
  BY <1>3, <1>4

\* tcp_free for a pcb without callbacks.
LEMMA FreedGood ==
  ASSUME NEW k \in Contexts, ~k.p.cb, ~k.p.backlogpend, k.h.st # "live",
         k.h = [NoHttpState EXCEPT !.st = k.h.st], EndInv(k.h, k.net)
  PROVE  LET r == tcp_free(k)
         IN  /\ Good(r) /\ r.p = NoPcb /\ r.h = k.h /\ r.net = k.net /\ r.free = k.free
             /\ r.pend = k.pend /\ SameFlags(k, r) /\ Moved(k, r)
<1> DEFINE r == tcp_free(k)
<1>1. /\ r \in Contexts /\ r.p = NoPcb /\ r.h = k.h /\ r.net = k.net /\ r.free = k.free
      /\ r.pend = k.pend /\ SameFlags(k, r)
  BY Unused DEF tcp_free, Contexts, SameFlags
<1> HIDE DEF r
<1>2. Good(r)
  BY <1>1, DeadGood
<1>3. k.h.req \in Nat /\ Stage(k.h) \in Nat
  BY ContextParts, HttpParts DEF Stage
<1>4. Moved(k, r)
  BY <1>1, <1>3, Unused DEF Moved, Forward, Bufs, Others
<1> QED
  BY <1>1, <1>2, <1>4 DEF r

\* tcp_abandon, with a RST only if that is no loss to a client that was served.
LEMMA Abandoned ==
  ASSUME NEW k, Good(k), NEW reset \in BOOLEAN,
         ~Trailing /\ reset /\ k.h.st = "served" => k.net.peerfin
  PROVE  LET r == tcp_abandon(k, reset)
         IN  /\ Good(r) /\ r.p = NoPcb /\ Moved(k, r) /\ SameFlags(k, r)
             /\ ~k.p.cb => r.h = k.h
             /\ ~k.p.cb /\ ~reset => r.net = k.net
             /\ r.net.peerfin = k.net.peerfin
<1>1. CASE k.p.st = "TIME_WAIT"
  <2>1. tcp_abandon(k, reset) = tcp_free(k)
    BY <1>1 DEF tcp_abandon
  <2>2. ~k.p.cb /\ ~k.p.backlogpend
    BY <1>1 DEF Good, ConnInv, PcbInv, Open
  <2>3. k \in Contexts /\ k.h.st # "live" /\ k.h = [NoHttpState EXCEPT !.st = k.h.st] /\ EndInv(k.h, k.net)
    BY <2>2 DEF Good, ConnInv, HttpInv, WireInv
  <2> QED
    BY <2>1, <2>2, <2>3, FreedGood
<1>2. CASE k.p.st # "TIME_WAIT"
  <2> DEFINE a == RemoveWithError(k)
             r == [a EXCEPT !.net.rst = @ \/ reset]
  <2>1. tcp_abandon(k, reset) = r
    BY <1>2 DEF tcp_abandon
  <2>2. Good(a) /\ a \in Contexts /\ a.p = NoPcb /\ Moved(k, a) /\ SameFlags(k, a) /\ a.net = k.net
        /\ a.h = IF k.p.cb THEN [NoHttpState EXCEPT !.st = "failed"] ELSE k.h
    BY Removed, RemovedGood
  <2> HIDE DEF a
  <2>3. a.net \in Nets
    BY <2>2, ContextParts
  <2> DEFINE n == [a.net EXCEPT !.rst = @ \/ reset]
  <2>4. /\ n \in Nets /\ n.rst = (a.net.rst \/ reset) /\ n.fin = a.net.fin
        /\ n.peerfin = a.net.peerfin
    BY <2>3 DEF Nets
  <2>5. ~reset => n = a.net
    BY <2>3 DEF Nets
  <2>6. r = [a EXCEPT !.net = n]
    OBVIOUS
  <2> HIDE DEF n, r
  <2>7. /\ r \in Contexts /\ r.p = NoPcb /\ r.h = a.h /\ r.net = n /\ r.free = a.free
        /\ r.pend = a.pend /\ SameFlags(a, r)
    BY <2>2, <2>4, <2>6 DEF Contexts, SameFlags
  <2>8. EndInv(r.h, r.net)
    <3>1. EndInv(a.h, a.net)
      BY <2>2 DEF Good, ConnInv, WireInv
    <3>2. CASE k.p.cb
      <4>1. r.h.st = "failed"
        BY <3>2, <2>2, <2>7, EndedState
      <4> QED
        BY <4>1 DEF EndInv
    <3>3. CASE ~k.p.cb
      BY <3>1, <3>3, <2>2, <2>4, <2>7 DEF EndInv
    <3> QED
      BY <3>2, <3>3
  <2>9. r.h.st # "live" /\ r.h = [NoHttpState EXCEPT !.st = r.h.st]
    BY <2>2, <2>7, Unused DEF Good, ConnInv, HttpInv
  <2>10. Good(r)
    BY <2>7, <2>8, <2>9, DeadGood
  <2>11. Moved(k, r)
    BY <2>2, <2>7 DEF Moved, Bufs, Others, Forward, Stage
  <2>12. SameFlags(k, r)
    BY <2>2, <2>7, FlagsTrans
  <2> QED
    BY <2>1, <2>2, <2>4, <2>5, <2>7, <2>10, <2>11, <2>12
<1> QED
  BY <1>1, <1>2

\* tcp_output sends from the unsent queue.
LEMMA OutputGood ==
  ASSUME NEW k, Good(k), NEW e, e.out \in Nat, k.p.st # "free"
  PROVE  LET r == tcp_output(k, e)
         IN  /\ Good(r) /\ Moved(k, r) /\ SameFlags(k, r) /\ r.h = k.h /\ r.free = k.free
             /\ r.pend = k.pend /\ r.p.st = k.p.st /\ r.p.cb = k.p.cb /\ r.p.wdef = k.p.wdef
             /\ r.p.backlogpend = k.p.backlogpend
             /\ r.net.peerfin = k.net.peerfin
<1>0. k \in Contexts /\ PcbInv(k.p) /\ HttpInv(k.p, k.h) /\ WireInv(k.p, k.h, k.net)
  BY DEF Good, ConnInv
<1>1. CASE k.inp
  <2>1. tcp_output(k, e) = k
    BY <1>1 DEF tcp_output
  <2>2. Stage(k.h) \in Nat /\ k.h.req \in Nat
    BY <1>0, ContextParts, HttpParts DEF Stage
  <2> QED
    BY <2>1, <2>2 DEF Moved, Forward, SameFlags
<1>2. CASE ~k.inp
  <2> DEFINE u == Min({k.p.lbb, k.p.uns + e.out})
  <2>1. k.p \in Pcbs /\ k.net \in Nets /\ k.h \in HttpStates
    BY <1>0, ContextParts
  <2>2. /\ k.p.lbb \in Nat /\ k.p.uns \in Nat /\ k.p.nxt \in Nat /\ k.p.una \in Nat /\ k.p.fin \in BOOLEAN
        /\ k.net.sent \in Nat
    BY <2>1, PcbParts, NetParts
  <2>3. k.p.una <= k.p.uns /\ k.p.uns <= k.p.nxt /\ k.p.nxt <= k.p.lbb
    BY <1>0 DEF PcbInv
  <2>4. u = IF k.p.lbb <= k.p.uns + e.out THEN k.p.lbb ELSE k.p.uns + e.out
    <3>1. k.p.uns + e.out \in Int
      BY <2>2
    <3> QED
      BY <2>2, <3>1, Min2
  <2> HIDE DEF u
  <2>5. u \in Nat /\ k.p.uns <= u /\ u <= k.p.lbb
    BY <2>2, <2>3, <2>4
  <2> DEFINE x == Max({k.p.nxt, u})
             y == Max({k.net.sent, u})
             f == IF k.p.fin THEN k.p.lbb - 1 ELSE 0
             q == [k.p EXCEPT !.uns = u, !.nxt = x]
             n == [k.net EXCEPT !.sent = y, !.fin = f]
             r == tcp_output(k, e)
  <2>6. x \in Nat /\ u <= x /\ k.p.nxt <= x /\ x <= k.p.lbb /\ y \in Nat
    BY <2>2, <2>3, <2>5, Max2
  <2>7. f \in Nat
    <3>1. k.p.fin => k.p.una >= 1
      BY <1>0 DEF PcbInv, Finishing, Open
    <3> QED
      BY <3>1, <2>2, <2>3
  <2>8. r = [k EXCEPT !.p = q, !.net = n]
    BY <1>2 DEF tcp_output, u
  <2> HIDE DEF x, y, r
  <2>9. /\ q \in Pcbs /\ q.uns = u /\ q.nxt = x /\ q.st = k.p.st /\ q.lbb = k.p.lbb
        /\ q.una = k.p.una /\ q.fin = k.p.fin /\ q.closepend = k.p.closepend
        /\ q.rxclosed = k.p.rxclosed /\ q.backlogpend = k.p.backlogpend /\ q.cb = k.p.cb
        /\ q.wdef = k.p.wdef
    BY <2>1, <2>5, <2>6 DEF Pcbs
  <2>10. n \in Nets /\ n.fin = f /\ n.rst = k.net.rst /\ n.peerfin = k.net.peerfin
    BY <2>1, <2>6, <2>7 DEF Nets
  <2> HIDE DEF q, n
  <2>11. /\ r \in Contexts /\ r.p = q /\ r.net = n /\ r.h = k.h /\ r.free = k.free /\ r.pend = k.pend
         /\ SameFlags(k, r)
    BY <1>0, <2>8, <2>9, <2>10 DEF Contexts, SameFlags
  <2>12. PcbInv(q)
    <3>1. q.una <= q.uns /\ q.uns <= q.nxt /\ q.nxt <= q.lbb
      BY <2>2, <2>3, <2>5, <2>6, <2>9
    <3> QED
      BY <1>0, <2>9, <3>1 DEF PcbInv
  <2>13. HttpInv(q, k.h)
    BY <1>0, <2>9 DEF HttpInv, Written
  <2>14. WireInv(q, k.h, n)
    <3>1. f # 0 /\ k.h.st = "served" => f = FileLen + 1
      <4>1. k.p.st # "free" /\ k.h.st = "served" => k.p.lbb - (IF k.p.fin THEN 2 ELSE 1) = FileLen
        BY <1>0 DEF HttpInv, Written
      <4> QED
        BY <4>1, <2>2, Const
    <3>2. EndInv(k.h, n)
      BY <1>0, <3>1, <2>10 DEF WireInv, EndInv
    <3> QED
      BY <1>0, <3>2, <2>9, <2>10 DEF WireInv
  <2>15. Moved(k, r)
    <3>1. Stage(k.h) \in Nat /\ k.h.req \in Nat
      BY <2>1, HttpParts DEF Stage
    <3> QED
      BY <3>1, <2>9, <2>11 DEF Moved, Forward, Bufs, Others
  <2> QED
    BY <2>9, <2>10, <2>11, <2>12, <2>13, <2>14, <2>15 DEF Good, ConnInv, r
<1> QED
  BY <1>1, <1>2


\* http_write queues a part of the file that fits the send buffer.
LEMMA WriteGood ==
  ASSUME NEW k, Good(k), k.h.file, NEW e, e.w \in Nat
  PROVE  LET r == http_write(k, e)
         IN  /\ Good(r) /\ Moved(k, r) /\ SameFlags(k, r) /\ r.net = k.net /\ r.h.file
             /\ r.p.st = k.p.st /\ r.p.cb = k.p.cb /\ r.p.wdef = k.p.wdef
<1> DEFINE n == Min({k.h.left, SndBuf - Buffered(k.p), e.w})
           q == [k.p EXCEPT !.lbb = @ + n]
           g == [k.h EXCEPT !.left = @ - n]
           r == http_write(k, e)
<1>0. k \in Contexts /\ PcbInv(k.p) /\ HttpInv(k.p, k.h) /\ WireInv(k.p, k.h, k.net)
  BY DEF Good, ConnInv
<1>1. k.p \in Pcbs /\ k.h \in HttpStates
  BY <1>0, ContextParts
<1>2. /\ k.p.lbb \in Nat /\ k.p.una \in Nat /\ k.p.uns \in Nat /\ k.p.nxt \in Nat
      /\ k.h.left \in Nat /\ k.h.req \in Nat
  BY <1>1, PcbParts, HttpParts
<1>3. k.h.st = "live" /\ k.p.cb /\ k.p.st \in Open /\ ~k.p.rxclosed /\ ~k.p.fin /\ k.p.una >= 1
  <2>1. k.h.st = "live"
    <3> SUFFICES ASSUME k.h.st # "live" PROVE FALSE
      OBVIOUS
    <3>1. k.h = [NoHttpState EXCEPT !.st = k.h.st]
      BY <1>0 DEF HttpInv
    <3> QED
      BY <3>1, <1>1, EndedIs
  <2> QED
    BY <2>1, <1>0 DEF HttpInv, PcbInv, Open, Finishing
<1>4. k.p.lbb - 1 + k.h.left = FileLen /\ k.p.lbb - k.p.una <= SndBuf /\ k.h.req = 0
  BY <1>0, <1>3 DEF HttpInv, Written
<1>5. Buffered(k.p) = k.p.lbb - k.p.una
  BY <1>2, <1>3, Max2 DEF Buffered
<1>6. n \in Nat /\ n <= k.h.left /\ n <= SndBuf - (k.p.lbb - k.p.una)
  <2>1. SndBuf - Buffered(k.p) \in Int /\ SndBuf - Buffered(k.p) >= 0
    BY <1>2, <1>4, <1>5, Const
  <2>2. PICK x \in Int, y \in Int, z \in Int :
          x = k.h.left /\ y = SndBuf - Buffered(k.p) /\ z = e.w /\ x >= 0 /\ y >= 0 /\ z >= 0
    BY <2>1, <1>2
  <2>3. Min({x, y, z}) \in {x, y, z} /\ Min({x, y, z}) <= x /\ Min({x, y, z}) <= y
    BY Min3
  <2>4. n = Min({x, y, z})
    BY <2>2
  <2> HIDE DEF n
  <2>5. n \in {x, y, z} /\ n <= x /\ n <= y
    BY <2>3, <2>4
  <2> QED
    BY <2>2, <2>5, <1>5
<1>7. r = [k EXCEPT !.p = q, !.h = g]
  BY DEF http_write
<1> HIDE DEF n, r
<1>8. /\ q \in Pcbs /\ q.lbb = k.p.lbb + n /\ q.uns = k.p.uns /\ q.nxt = k.p.nxt
      /\ q.st = k.p.st /\ q.una = k.p.una /\ q.fin = k.p.fin /\ q.closepend = k.p.closepend
      /\ q.rxclosed = k.p.rxclosed /\ q.backlogpend = k.p.backlogpend /\ q.cb = k.p.cb
      /\ q.wdef = k.p.wdef
  BY <1>1, <1>6 DEF Pcbs
<1>9. k.h.left - n \in Nat
  BY <1>2, <1>6
<1>10. g \in HttpStates /\ g.left = k.h.left - n /\ g.st = k.h.st /\ g.file = k.h.file /\ g.req = k.h.req
  BY <1>1, <1>9 DEF HttpStates
<1> HIDE DEF q, g
<1>11. /\ r \in Contexts /\ r.p = q /\ r.h = g /\ r.net = k.net /\ r.free = k.free /\ r.pend = k.pend
       /\ SameFlags(k, r)
  BY <1>0, <1>7, <1>8, <1>10 DEF Contexts, SameFlags
<1>12. PcbInv(q)
  <2>1. q.una <= q.uns /\ q.uns <= q.nxt /\ q.nxt <= q.lbb
    BY <1>0, <1>2, <1>6, <1>8 DEF PcbInv
  <2>2. q.st # "free" /\ q.st # "SYN_RCVD" /\ q.st \notin {"FIN_WAIT_2", "TIME_WAIT"}
    BY <1>3, <1>8 DEF Open
  <2> QED
    BY <1>0, <1>8, <2>1, <2>2 DEF PcbInv
<1>13. HttpInv(q, g)
  <2>1. ~q.fin /\ q.lbb - 1 + g.left = FileLen /\ q.lbb - q.una <= SndBuf
    BY <1>2, <1>3, <1>4, <1>6, <1>8, <1>10, Const
  <2>2. g.st = "live" /\ g.file /\ g.req = 0 /\ q.cb /\ q.st \in Open
    BY <1>3, <1>4, <1>8, <1>10
  <2> QED
    BY <2>1, <2>2, Const DEF HttpInv, Written, Open
<1>14. WireInv(q, g, k.net)
  BY <1>0, <1>3, <1>8, <1>10 DEF WireInv, EndInv
<1>15. Moved(k, r)
  <2>1. Stage(k.h) \in Nat /\ Stage(g) = Stage(k.h)
    BY <1>10 DEF Stage
  <2> QED
    BY <2>1, <1>2, <1>8, <1>10, <1>11 DEF Moved, Forward, Bufs, Others
<1> QED
  BY <1>8, <1>10, <1>11, <1>12, <1>13, <1>14, <1>15 DEF Good, ConnInv, r

\* tcp_close_shutdown_fin for a pcb the application has closed: the FIN is
\* queued or waits for tcp_fasttmr.
LEMMA FinGood ==
  ASSUME NEW k \in Contexts, k.p.st \in Open, ~k.p.closepend,
         ConnInv([k.p EXCEPT !.closepend = TRUE], k.h, k.net),
         NEW e, e.out \in Nat
  PROVE  LET r == tcp_close_shutdown_fin(k, e)
         IN  /\ Good(r) /\ Moved(k, r) /\ SameFlags(k, r) /\ r.h = k.h /\ r.free = k.free
             /\ r.pend = k.pend /\ ~r.p.cb /\ r.p.wdef = k.p.wdef /\ r.p.st # "free"
             /\ r.net.peerfin = k.net.peerfin /\ ~r.p.backlogpend
<1> DEFINE q == [k.p EXCEPT !.closepend = TRUE]
           r == tcp_close_shutdown_fin(k, e)
<1>1. k.p \in Pcbs /\ k.h \in HttpStates /\ k.net \in Nets
  BY ContextParts
<1>2. /\ q \in Pcbs /\ q.closepend /\ q.st = k.p.st /\ q.una = k.p.una /\ q.uns = k.p.uns
      /\ q.nxt = k.p.nxt /\ q.lbb = k.p.lbb /\ q.fin = k.p.fin /\ q.rxclosed = k.p.rxclosed
      /\ q.backlogpend = k.p.backlogpend /\ q.cb = k.p.cb /\ q.wdef = k.p.wdef
  BY <1>1 DEF Pcbs
<1> HIDE DEF q
<1>3. PcbInv(q) /\ HttpInv(q, k.h) /\ WireInv(q, k.h, k.net)
  BY DEF q, ConnInv
<1>4. ~k.p.cb /\ k.p.rxclosed /\ ~k.p.fin /\ ~k.p.backlogpend /\ k.p.una >= 1 /\ k.h.st # "live"
      /\ k.p.st # "free" /\ k.p.st # "SYN_RCVD"
  BY <1>2, <1>3 DEF PcbInv, HttpInv, Open, Finishing
<1>5. CASE FinFits(k.p, e)
  <2> DEFINE st == IF k.p.st = "CLOSE_WAIT" THEN "LAST_ACK" ELSE "FIN_WAIT_1"
             f == [k.p EXCEPT !.lbb = @ + 1, !.fin = TRUE, !.st = st]
             a == [k EXCEPT !.p = f]
  <2>1. r = tcp_output(a, e)
    BY <1>4, <1>5 DEF tcp_close_shutdown_fin, Open
  <2> HIDE DEF r
  <2>2. st \in {"LAST_ACK", "FIN_WAIT_1"} /\ st \in States
    BY DEF States
  <2> HIDE DEF st
  <2>3. /\ f \in Pcbs /\ f.lbb = k.p.lbb + 1 /\ f.fin /\ f.st = st /\ f.una = k.p.una /\ f.uns = k.p.uns
        /\ f.nxt = k.p.nxt /\ f.closepend = k.p.closepend /\ f.rxclosed = k.p.rxclosed
        /\ f.backlogpend = k.p.backlogpend /\ f.cb = k.p.cb /\ f.wdef = k.p.wdef
    <3>1. PICK z \in Nat : z = k.p.lbb + 1
      BY <1>1, PcbParts
    <3>2. f = [k.p EXCEPT !.lbb = z, !.fin = TRUE, !.st = st]
      BY <3>1
    <3> HIDE DEF f
    <3> QED
      BY <3>1, <3>2, <1>1, <2>2 DEF Pcbs
  <2> HIDE DEF f
  <2>4. /\ a \in Contexts /\ a.p = f /\ a.h = k.h /\ a.net = k.net /\ a.free = k.free
        /\ a.pend = k.pend /\ SameFlags(k, a)
    BY <2>3 DEF Contexts, SameFlags
  <2> HIDE DEF a
  <2>5. k.p.lbb \in Nat /\ k.p.una \in Nat /\ k.p.uns \in Nat /\ k.p.nxt \in Nat
    BY <1>1, PcbParts
  <2>6. PcbInv(f)
    <3>1. f.una <= f.uns /\ f.uns <= f.nxt /\ f.nxt <= f.lbb /\ f.una >= 1
      BY <1>2, <1>3, <1>4, <2>3, <2>5 DEF PcbInv
    <3>2. f.st \in Finishing /\ f.st \notin Open /\ f.st \notin {"free", "SYN_RCVD", "FIN_WAIT_2", "TIME_WAIT"}
      BY <2>2, <2>3 DEF Finishing, Open
    <3> QED
      BY <1>4, <2>3, <3>1, <3>2 DEF PcbInv
  <2>7. HttpInv(f, k.h)
    <3>1. Written(f) = Written(q)
      BY <1>2, <1>4, <2>3, <2>5 DEF Written
    <3>2. ~k.h.file
      <4>1. k.h = [NoHttpState EXCEPT !.st = k.h.st]
        BY <1>3, <1>4 DEF HttpInv
      <4> QED
        BY <4>1, <1>1, EndedIs
    <3> QED
      BY <1>2, <1>3, <1>4, <2>2, <2>3, <3>1, <3>2 DEF HttpInv
  <2>8. WireInv(f, k.h, k.net)
    BY <1>2, <1>3, <1>4, <2>2, <2>3 DEF WireInv
  <2>9. Good(a) /\ a.p.st # "free"
    BY <2>2, <2>3, <2>4, <2>6, <2>7, <2>8 DEF Good, ConnInv
  <2>10. /\ Good(r) /\ Moved(a, r) /\ SameFlags(a, r) /\ r.h = a.h /\ r.free = a.free
         /\ r.pend = a.pend /\ r.p.st = a.p.st /\ r.p.cb = a.p.cb /\ r.p.wdef = a.p.wdef
         /\ r.p.backlogpend = a.p.backlogpend /\ r.net.peerfin = a.net.peerfin
    BY <2>1, <2>9, OutputGood
  <2>11. Moved(k, r)
    BY <2>3, <2>4, <2>10, ContextParts, HttpParts DEF Moved, Bufs, Others, Forward, Stage
  <2>12. SameFlags(k, r)
    BY <2>4, <2>10, FlagsTrans
  <2> QED
    BY <1>4, <2>2, <2>3, <2>4, <2>10, <2>11, <2>12 DEF r
<1>6. CASE ~FinFits(k.p, e)
  <2>1. r = [k EXCEPT !.p = q]
    BY <1>4, <1>6 DEF tcp_close_shutdown_fin, Open, q
  <2> HIDE DEF r
  <2>2. /\ r \in Contexts /\ r.p = q /\ r.h = k.h /\ r.net = k.net /\ r.free = k.free
        /\ r.pend = k.pend /\ SameFlags(k, r)
    BY <1>2, <2>1 DEF Contexts, SameFlags
  <2>3. Moved(k, r)
    <3>1. Stage(k.h) \in Nat /\ k.h.req \in Nat
      BY <1>1, HttpParts DEF Stage
    <3> QED
      BY <1>2, <2>2, <3>1 DEF Moved, Bufs, Others, Forward
  <2> QED
    BY <1>2, <1>3, <1>4, <2>2, <2>3 DEF Good, ConnInv, r
<1> QED
  BY <1>5, <1>6


(***************************************************************************)
(* The callbacks of the server                                             *)
(***************************************************************************)
\* The pcb is about to be freed by tcp_input_delayed_close.
Doomed(k) ==
  /\ k \in Contexts /\ k.closed /\ ~k.p.cb /\ ~k.p.backlogpend /\ k.h.st # "live"
  /\ k.h = [NoHttpState EXCEPT !.st = k.h.st] /\ EndInv(k.h, k.net)

\* The locals of tcp_input but TF_CLOSED.
Flow(k, r) ==
  /\ r.inp = k.inp /\ r.gotfin = k.gotfin /\ r.reset = k.reset
  /\ r.acked = k.acked /\ r.data = k.data /\ r.over = k.over

\* A callback that may write or close leaves a connection in order or one that
\* tcp_input frees.
Outcome(k, r) ==
  /\ r \in Contexts /\ Flow(k, r) /\ r.net.peerfin = k.net.peerfin
  /\ r.closed => Doomed(r)
  /\ k.p.wdef = 0 /\ ~k.closed => ~r.closed
  /\ ~r.closed => Good(r) /\ r.p.wdef = k.p.wdef /\ r.p.st # "free"
  /\ r.p.cb => k.p.cb /\ r.p.st = k.p.st

\* A connection the server may write to or close. If the window is not open,
\* tcp_input is at work, and it is the client's FIN that closed it.
Usable(k) ==
  /\ Good(k) /\ k.p.cb /\ ~k.closed
  /\ k.p.wdef # 0 => k.inp
  /\ ~Trailing /\ k.p.wdef # 0 => k.net.peerfin

\* tcp_pcb_purge of a pcb that is not half open.
LEMMA Purged ==
  ASSUME NEW k \in Contexts, ~k.p.backlogpend
  PROVE  LET r == tcp_pcb_purge(k)
         IN  /\ r \in Contexts /\ r.h = k.h /\ r.net = k.net /\ r.free = k.free
             /\ r.pend = k.pend /\ SameFlags(k, r) /\ r.p.cb = k.p.cb /\ ~r.p.backlogpend
             /\ r.p.st = k.p.st /\ r.p.wdef = k.p.wdef /\ r.p.rxclosed = k.p.rxclosed
<1>1. CASE Active(k.p)
  <2> DEFINE q == [k.p EXCEPT !.uns = k.p.una, !.lbb = k.p.una]
             r == tcp_pcb_purge(k)
  <2>1. q \in Pcbs /\ q.cb = k.p.cb /\ q.backlogpend = k.p.backlogpend /\ q.st = k.p.st
        /\ q.wdef = k.p.wdef /\ q.rxclosed = k.p.rxclosed
    BY ContextParts DEF Pcbs
  <2>2. r = [k EXCEPT !.p = q]
    BY <1>1 DEF tcp_pcb_purge, tcp_backlog_accepted
  <2> HIDE DEF q, r
  <2>3. /\ r \in Contexts /\ r.h = k.h /\ r.net = k.net /\ r.free = k.free
        /\ r.pend = k.pend /\ SameFlags(k, r) /\ r.p = q
    BY <2>1, <2>2 DEF Contexts, SameFlags
  <2> QED
    BY <2>1, <2>3 DEF r
<1>2. CASE ~Active(k.p)
  BY <1>2 DEF tcp_pcb_purge, SameFlags
<1> QED
  BY <1>1, <1>2

\* tcp_input_delayed_close frees the pcb.
LEMMA DelayedClose ==
  ASSUME NEW k, Doomed(k)
  PROVE  LET r == tcp_input_delayed_close(k)
         IN  /\ Good(r) /\ r.p = NoPcb /\ r.over /\ r.h = k.h /\ Moved(k, r) /\ r.data = k.data
             /\ r.closed
<1> DEFINE a == tcp_pcb_purge(k)
           b == tcp_free(a)
           r == tcp_input_delayed_close(k)
<1>1. r = [b EXCEPT !.over = TRUE]
  BY DEF tcp_input_delayed_close, Doomed
<1>2. /\ a \in Contexts /\ a.h = k.h /\ a.net = k.net /\ a.free = k.free
      /\ a.pend = k.pend /\ SameFlags(k, a) /\ a.p.cb = k.p.cb /\ ~a.p.backlogpend
  BY Purged DEF Doomed
<1> HIDE DEF a
<1>3. /\ Good(b) /\ b.p = NoPcb /\ b.h = a.h /\ b.net = a.net /\ b.free = a.free
      /\ b.pend = a.pend /\ SameFlags(a, b) /\ Moved(a, b)
  BY <1>2, FreedGood DEF Doomed
<1> HIDE DEF b, r
<1>4. /\ r \in Contexts /\ r.p = b.p /\ r.h = b.h /\ r.net = b.net /\ r.free = b.free
      /\ r.pend = b.pend /\ r.over /\ r.data = b.data /\ r.closed = b.closed
  BY <1>1, <1>3 DEF Good, Contexts
<1>5. Moved(k, r)
  <2>1. Stage(k.h) \in Nat /\ k.h.req \in Nat /\ ~k.p.backlogpend
    BY ContextParts, HttpParts DEF Stage, Doomed
  <2> QED
    BY <2>1, <1>2, <1>3, <1>4, Unused DEF Moved, Bufs, Others, Forward
<1> QED
  BY <1>2, <1>3, <1>4, <1>5 DEF Good, SameFlags, r, Doomed

\* http_close_conn
LEMMA CloseConn ==
  ASSUME NEW k, Usable(k), NEW how \in {"served", "failed"},
         how = "served" => k.h.file /\ k.h.left = 0,
         NEW e, e.out \in Nat
  PROVE  LET r == http_close_conn(k, e, how)
         IN  Outcome(k, r) /\ Moved(k, r) /\ ~r.p.cb
<1> DEFINE f == http_state_free(k, how)
           q == [f.p EXCEPT !.cb = FALSE]
           c == [f EXCEPT !.p = q]
           s == [c.p EXCEPT !.rxclosed = TRUE]
           a == [c EXCEPT !.p = s]
           r == http_close_conn(k, e, how)
<1>1. k \in Contexts /\ PcbInv(k.p) /\ HttpInv(k.p, k.h) /\ WireInv(k.p, k.h, k.net)
      /\ k.p \in Pcbs /\ k.h \in HttpStates /\ k.net \in Nets /\ k.free \in Int
  BY ContextParts DEF Usable, Good, ConnInv
<1>2. k.p.cb /\ k.h.st = "live" /\ k.p.st \in Open /\ ~k.p.fin /\ ~k.p.backlogpend /\ ~k.p.closepend
      /\ ~k.closed /\ k.p.una >= 1 /\ k.net.fin = 0
  BY <1>1 DEF Usable, PcbInv, HttpInv, WireInv, Open, Finishing
<1>3. /\ f \in Contexts /\ f.p = k.p /\ f.h = [NoHttpState EXCEPT !.st = how] /\ f.net = k.net
      /\ f.free = k.free + k.h.req /\ f.pend = k.pend /\ SameFlags(k, f)
  BY <1>1, StateFree
<1>4. r = tcp_close(c, e)
  BY DEF http_close_conn
<1> HIDE DEF f, r
<1>5. /\ q \in Pcbs /\ q.cb = FALSE /\ q.st = k.p.st /\ q.una = k.p.una /\ q.uns = k.p.uns
      /\ q.nxt = k.p.nxt /\ q.lbb = k.p.lbb /\ q.fin = k.p.fin /\ q.closepend = k.p.closepend
      /\ q.backlogpend = k.p.backlogpend /\ q.wdef = k.p.wdef
  BY <1>1, <1>3 DEF Pcbs
<1> HIDE DEF q
<1>6. /\ c \in Contexts /\ c.p = q /\ c.h = f.h /\ c.net = f.net /\ c.free = f.free
      /\ c.pend = f.pend /\ SameFlags(f, c)
  BY <1>3, <1>5 DEF Contexts, SameFlags
<1> HIDE DEF c
<1>7. /\ s \in Pcbs /\ s.cb = FALSE /\ s.st = k.p.st /\ s.una = k.p.una /\ s.uns = k.p.uns
      /\ s.nxt = k.p.nxt /\ s.lbb = k.p.lbb /\ s.fin = k.p.fin /\ s.closepend = k.p.closepend
      /\ s.backlogpend = k.p.backlogpend /\ s.wdef = k.p.wdef /\ s.rxclosed = TRUE
  BY <1>5, <1>6 DEF Pcbs
<1>8. a = [c EXCEPT !.p.rxclosed = TRUE]
  BY <1>6
<1> HIDE DEF s
<1>9. /\ a \in Contexts /\ a.p = s /\ a.h = c.h /\ a.net = c.net /\ a.free = c.free
      /\ a.pend = c.pend /\ SameFlags(c, a)
  BY <1>6, <1>7 DEF Contexts, SameFlags
<1> HIDE DEF a
<1>10. /\ a.h = [NoHttpState EXCEPT !.st = how] /\ a.net = k.net /\ a.free = k.free + k.h.req
       /\ a.pend = k.pend /\ SameFlags(k, a)
  BY <1>3, <1>6, <1>9, FlagsTrans
<1>11. a.h.st = how /\ a.h.req = 0 /\ a.h = [NoHttpState EXCEPT !.st = a.h.st] /\ ~a.h.file /\ a.h.left = 0
  BY <1>10, EndedState
<1>12. Moved(k, a)
  <2>1. Stage(k.h) \in 1 .. 2 /\ Stage(a.h) = 3 /\ k.h.req \in Nat
    BY <1>1, <1>2, <1>11, HttpParts DEF Stage
  <2> QED
    BY <2>1, <1>1, <1>2, <1>7, <1>9, <1>10, <1>11 DEF Moved, Forward, Bufs, Others
<1>13. CASE k.p.wdef = 0
  <2>1. r = tcp_close_shutdown_fin(a, e)
    BY <1>4, <1>5, <1>6, <1>8, <1>13 DEF tcp_close
  <2> DEFINE t == [a.p EXCEPT !.closepend = TRUE]
  <2>2. /\ t \in Pcbs /\ t.cb = FALSE /\ t.st = k.p.st /\ t.una = k.p.una /\ t.uns = k.p.uns
        /\ t.nxt = k.p.nxt /\ t.lbb = k.p.lbb /\ t.fin = k.p.fin /\ t.closepend
        /\ t.backlogpend = k.p.backlogpend /\ t.wdef = k.p.wdef /\ t.rxclosed
    BY <1>7, <1>9 DEF Pcbs
  <2> HIDE DEF t
  <2>3. PcbInv(t)
    BY <1>1, <1>2, <2>2 DEF PcbInv, Open, Finishing
  <2>4. HttpInv(t, a.h)
    <3>1. Written(t) = Written(k.p) /\ Written(k.p) = k.p.lbb - 1 /\ k.p.lbb \in Nat
      BY <1>1, <1>2, <2>2, PcbParts DEF Written
    <3>2. how = "served" => Written(t) = FileLen
      BY <3>1, <1>1, Const DEF HttpInv
    <3>3. Written(t) <= FileLen
      <4>1. CASE k.h.file
        BY <4>1, <3>1, <1>1, HttpParts, Const DEF HttpInv
      <4>2. CASE ~k.h.file
        BY <4>2, <3>1, <1>1, <1>2, Const DEF HttpInv
      <4> QED
        BY <4>1, <4>2
    <3> QED
      BY <3>2, <3>3, <1>2, <1>11, <2>2, Const DEF HttpInv, Open
  <2>5. WireInv(t, a.h, a.net)
    <3>1. ~k.net.rst
      BY <1>1, <1>2 DEF WireInv
    <3> QED
      BY <3>1, <1>2, <1>10, <2>2 DEF WireInv, EndInv
  <2>6. a.p.st \in Open /\ ~a.p.closepend
    BY <1>2, <1>7, <1>9
  <2>7. ConnInv([a.p EXCEPT !.closepend = TRUE], a.h, a.net)
    BY <2>3, <2>4, <2>5 DEF ConnInv, t
  <2>8. /\ Good(r) /\ Moved(a, r) /\ SameFlags(a, r) /\ r.h = a.h /\ r.free = a.free
        /\ r.pend = a.pend /\ ~r.p.cb /\ r.p.wdef = a.p.wdef /\ r.p.st # "free"
        /\ r.net.peerfin = a.net.peerfin
    BY <2>1, <2>6, <2>7, <1>9, FinGood
  <2>9. Moved(k, r) /\ SameFlags(k, r) /\ r \in Contexts
    BY <1>1, <1>9, <1>10, <1>12, <2>8, MovedTrans, FlagsTrans DEF Good
  <2>10. ~r.closed /\ Flow(k, r)
    BY <2>9, <1>2 DEF SameFlags, Flow
  <2> QED
    BY <1>7, <1>9, <1>10, <2>8, <2>9, <2>10 DEF Outcome, r
<1>14. CASE k.p.wdef # 0
  <2> DEFINE b == tcp_pcb_purge(a)
             n == [b.net EXCEPT !.rst = TRUE]
             d == [b EXCEPT !.net = n]
  <2>1. k.inp /\ c.inp /\ a.inp
    BY <1>3, <1>6, <1>9, <1>14 DEF Usable, SameFlags
  <2>2. r = [d EXCEPT !.closed = TRUE]
    BY <2>1, <1>2, <1>4, <1>5, <1>6, <1>8, <1>14 DEF tcp_close, Open
  <2>3. /\ b \in Contexts /\ b.h = a.h /\ b.net = a.net /\ b.free = a.free
        /\ b.pend = a.pend /\ SameFlags(a, b) /\ b.p.cb = a.p.cb /\ ~b.p.backlogpend
        /\ b.p.st = a.p.st
    BY <1>2, <1>7, <1>9, Purged
  <2> HIDE DEF b, r
  <2>4. n \in Nets /\ n.rst /\ n.fin = k.net.fin /\ n.peerfin = k.net.peerfin
    BY <2>3, <1>1, <1>10 DEF Nets
  <2> HIDE DEF n
  <2>5. /\ d \in Contexts /\ d.h = b.h /\ d.net = n /\ d.free = b.free
        /\ d.pend = b.pend /\ SameFlags(b, d) /\ d.p = b.p
    BY <2>3, <2>4 DEF Contexts, SameFlags
  <2> HIDE DEF d
  <2>6. /\ r \in Contexts /\ r.h = d.h /\ r.net = n /\ r.free = d.free
        /\ r.pend = d.pend /\ Flow(d, r) /\ r.p = d.p /\ r.closed
    BY <2>2, <2>5 DEF Contexts, Flow
  <2>7. Flow(k, r)
    BY <1>10, <2>3, <2>5, <2>6 DEF SameFlags, Flow
  <2>8. EndInv(r.h, r.net)
    BY <1>2, <1>14, <2>3, <2>4, <2>5, <2>6 DEF EndInv, Usable
  <2>9. Doomed(r)
    BY <1>7, <1>9, <1>11, <2>3, <2>5, <2>6, <2>8 DEF Doomed
  <2>10. Moved(k, r)
    BY <1>2, <1>7, <1>9, <1>12, <2>3, <2>5, <2>6 DEF Moved, Forward, Bufs, Others, Stage
  <2> QED
    BY <1>7, <1>9, <1>14, <2>3, <2>4, <2>5, <2>6, <2>7, <2>9, <2>10 DEF Outcome, r
<1> QED
  BY <1>13, <1>14


\* A callback that prepares the context and goes on.
LEMMA OutcomeAfter ==
  ASSUME NEW k \in Contexts, NEW a \in Contexts, NEW r, Outcome(a, r), Moved(a, r), Moved(k, a),
         SameFlags(k, a), a.net.peerfin = k.net.peerfin, a.p.wdef = k.p.wdef, k.p.cb,
         a.p.st = k.p.st
  PROVE  Outcome(k, r) /\ Moved(k, r)
<1>1. r \in Contexts
  BY DEF Outcome
<1>2. Moved(k, r)
  BY <1>1, MovedTrans
<1>3. Flow(k, r) /\ a.closed = k.closed
  BY DEF Outcome, SameFlags, Flow
<1> QED
  BY <1>2, <1>3 DEF Outcome

\* A call that changes nothing loses nothing.
LEMMA MovedSelf ==
  ASSUME NEW k \in Contexts
  PROVE  Moved(k, k)
<1>1. Stage(k.h) \in Nat /\ k.h.req \in Nat
  BY ContextParts, HttpParts DEF Stage
<1> QED
  BY <1>1 DEF Moved, Forward

\* http_send
LEMMA SendGood ==
  ASSUME NEW k, Usable(k), NEW e, e.out \in Nat, e.w \in Nat
  PROVE  LET r == http_send(k, e)
         IN  Outcome(k, r) /\ Moved(k, r)
<1> DEFINE a == http_write(k, e)
           r == http_send(k, e)
<1>0. k \in Contexts /\ Good(k) /\ k.p.cb
  BY DEF Usable, Good
<1>1. CASE ~k.h.file
  <2>1. r = http_close_conn(k, e, "failed")
    BY <1>1 DEF http_send
  <2> QED
    BY <2>1, CloseConn
<1>2. CASE k.h.file
  <2>1. r = IF a.h.left = 0 THEN http_close_conn(a, e, "served") ELSE a
    BY <1>2 DEF http_send
  <2>2. /\ Good(a) /\ Moved(k, a) /\ SameFlags(k, a) /\ a.net = k.net /\ a.h.file
        /\ a.p.st = k.p.st /\ a.p.cb = k.p.cb /\ a.p.wdef = k.p.wdef
    BY <1>0, <1>2, WriteGood
  <2> HIDE DEF a, r
  <2>3. Usable(a) /\ a \in Contexts
    BY <2>2 DEF Usable, SameFlags, Good
  <2>4. CASE a.h.left = 0
    <3>1. Outcome(a, r) /\ Moved(a, r)
      BY <2>1, <2>2, <2>3, <2>4, CloseConn
    <3> QED
      BY <3>1, <2>2, <2>3, <1>0, OutcomeAfter DEF r
  <2>5. CASE a.h.left # 0
    <3>1. r = a
      BY <2>1, <2>5
    <3>2. ~a.closed /\ a.p.st # "free" /\ Flow(k, a)
      BY <2>2 DEF Usable, SameFlags, Good, ConnInv, PcbInv, Open, Flow
    <3>3. Outcome(k, r) /\ Moved(k, r)
      BY <3>1, <3>2, <2>2, <2>3 DEF Outcome
    <3> QED
      BY <3>3 DEF r
  <2> QED
    BY <2>4, <2>5
<1> QED
  BY <1>1, <1>2

\* The count of polls does not matter to the rest.
LEMMA RetriesFree ==
  ASSUME NEW k, Usable(k), NEW n \in 0 .. MaxRetries - 1
  PROVE  LET a == [k EXCEPT !.h.retries = n]
         IN  /\ Usable(a) /\ a \in Contexts /\ Moved(k, a) /\ SameFlags(k, a) /\ a.net = k.net
             /\ a.p = k.p /\ a.h.file = k.h.file /\ a.h.retries = n
<1> DEFINE g == [k.h EXCEPT !.retries = n]
           a == [k EXCEPT !.h = g]
<1>1. k \in Contexts /\ k.h \in HttpStates /\ k.p \in Pcbs
  BY ContextParts DEF Usable, Good
<1>2. g \in HttpStates /\ g.st = k.h.st /\ g.req = k.h.req /\ g.file = k.h.file /\ g.left = k.h.left
      /\ g.retries = n
  BY <1>1 DEF HttpStates
<1> HIDE DEF g
<1>3. /\ a \in Contexts /\ a.h = g /\ a.p = k.p /\ a.net = k.net /\ a.free = k.free /\ a.pend = k.pend
      /\ SameFlags(k, a)
  BY <1>1, <1>2 DEF Contexts, SameFlags
<1> HIDE DEF a
<1>4. k.h.st = "live"
  BY DEF Usable, Good, ConnInv, HttpInv
<1>5. HttpInv(a.p, g) /\ WireInv(a.p, g, a.net) /\ PcbInv(a.p)
  BY <1>2, <1>3, <1>4 DEF Usable, Good, ConnInv, HttpInv, WireInv, EndInv
<1>6. Usable(a)
  BY <1>3, <1>5 DEF Usable, Good, ConnInv, SameFlags
<1>7. Moved(k, a)
  <2>1. Stage(k.h) \in Nat /\ k.h.req \in Nat /\ Stage(g) = Stage(k.h)
    BY <1>1, <1>2, HttpParts DEF Stage
  <2> QED
    BY <2>1, <1>2, <1>3 DEF Moved, Forward, Bufs, Others
<1> QED
  BY <1>2, <1>3, <1>6, <1>7 DEF a, g

\* http_sent
LEMMA SentGood ==
  ASSUME NEW k, Usable(k), NEW e, e.out \in Nat, e.w \in Nat
  PROVE  LET r == http_sent(k, e)
         IN  Outcome(k, r) /\ Moved(k, r)
<1> DEFINE a == [k EXCEPT !.h.retries = 0]
           r == http_sent(k, e)
<1>1. r = http_send(a, e)
  BY DEF http_sent
<1>2. 0 \in 0 .. MaxRetries - 1
  BY Const
<1>3. /\ Usable(a) /\ a \in Contexts /\ Moved(k, a) /\ SameFlags(k, a) /\ a.net = k.net /\ a.p = k.p
  BY <1>2, RetriesFree
<1> HIDE DEF a, r
<1>4. Outcome(a, r) /\ Moved(a, r)
  BY <1>1, <1>3, SendGood
<1>5. k \in Contexts /\ k.p.cb
  BY DEF Usable, Good
<1> QED
  BY <1>3, <1>4, <1>5, OutcomeAfter DEF r

\* http_poll
LEMMA PollGood ==
  ASSUME NEW k, Usable(k), NEW e, e.out \in Nat, e.w \in Nat
  PROVE  LET r == http_poll(k, e)
         IN  Outcome(k, r) /\ Moved(k, r)
<1> DEFINE n == k.h.retries + 1
           a == [k EXCEPT !.h.retries = n]
           r == http_poll(k, e)
<1>1. k \in Contexts /\ k.h \in HttpStates /\ k.p.cb
  BY ContextParts DEF Usable, Good
<1>2. n \in Nat /\ n <= MaxRetries /\ k.h.retries \in Nat
  BY <1>1, HttpParts, Const
<1>3. a.h.retries = n /\ a.h.req = k.h.req
  BY <1>1, <1>2 DEF Contexts, HttpStates
<1>4. r = IF n = MaxRetries THEN http_close_conn(a, e, "failed")
          ELSE IF k.h.file THEN http_send(a, e) ELSE a
  BY <1>3 DEF http_poll
<1> HIDE DEF r, n
<1>5. CASE n = MaxRetries
  <2>1. http_state_free(a, "failed") = http_state_free(k, "failed")
    <3> DEFINE g == [k.h EXCEPT !.retries = n]
    <3>1. a = [k EXCEPT !.h = g]
      OBVIOUS
    <3>2. a.free = k.free
      BY <1>1 DEF Contexts
    <3> HIDE DEF g
    <3>3. [a EXCEPT !.h = [NoHttpState EXCEPT !.st = "failed"], !.free = k.free + k.h.req]
            = [k EXCEPT !.h = [NoHttpState EXCEPT !.st = "failed"], !.free = k.free + k.h.req]
      BY <3>1, <1>1 DEF Contexts
    <3> HIDE DEF a
    <3> QED
      BY <3>2, <3>3, <1>3 DEF http_state_free
  <2>2. r = http_close_conn(k, e, "failed")
    BY <2>1, <1>4, <1>5 DEF http_close_conn
  <2> QED
    BY <2>2, CloseConn DEF r
<1>6. CASE n # MaxRetries
  <2>1. n \in 0 .. MaxRetries - 1
    BY <1>2, <1>6, Const
  <2>2. /\ Usable(a) /\ a \in Contexts /\ Moved(k, a) /\ SameFlags(k, a) /\ a.net = k.net /\ a.p = k.p
    BY <2>1, RetriesFree
  <2> HIDE DEF a
  <2>3. CASE k.h.file
    <3>1. Outcome(a, r) /\ Moved(a, r)
      BY <1>4, <1>6, <2>2, <2>3, SendGood
    <3> QED
      BY <1>1, <2>2, <3>1, OutcomeAfter DEF r
  <2>4. CASE ~k.h.file
    <3>1. r = a
      BY <1>4, <1>6, <2>4
    <3>2. Good(a) /\ ~a.closed /\ a.p.st # "free" /\ Flow(k, a)
      BY <2>2 DEF Usable, SameFlags, Good, ConnInv, PcbInv, Open, Flow
    <3>3. Outcome(k, r)
      BY <3>1, <3>2, <2>2, <1>1 DEF Outcome
    <3> QED
      BY <3>1, <3>3, <2>2 DEF r
  <2> QED
    BY <2>3, <2>4
<1> QED
  BY <1>5, <1>6

\* tcp_fasttmr and tcp_alloc: a FIN that waits is tried again.
LEMMA RetryGood ==
  ASSUME NEW k, Good(k), NEW e, e.out \in Nat
  PROVE  LET r == RetryClose(k, e)
         IN  /\ Good(r) /\ Moved(k, r) /\ SameFlags(k, r) /\ r.h = k.h /\ r.free = k.free
             /\ r.pend = k.pend /\ r.p.wdef = k.p.wdef /\ r.p.cb = k.p.cb
             /\ r.p.backlogpend = k.p.backlogpend
             /\ ~k.p.closepend => r = k
             /\ k.p.closepend => r.p.st # "free"
<1>0. k \in Contexts /\ k.p \in Pcbs
  BY ContextParts DEF Good
<1>1. CASE ~k.p.closepend
  BY <1>0, <1>1, MovedSelf DEF RetryClose, SameFlags
<1>2. CASE k.p.closepend
  <2> DEFINE q == [k.p EXCEPT !.closepend = FALSE]
             a == [k EXCEPT !.p = q]
             r == RetryClose(k, e)
  <2>1. r = tcp_close_shutdown_fin(a, e)
    BY <1>2 DEF RetryClose
  <2>2. /\ q \in Pcbs /\ ~q.closepend /\ q.st = k.p.st /\ q.cb = k.p.cb /\ q.wdef = k.p.wdef
        /\ q.backlogpend = k.p.backlogpend /\ [q EXCEPT !.closepend = TRUE] = k.p
    BY <1>0, <1>2 DEF Pcbs
  <2> HIDE DEF q, r
  <2>3. /\ a \in Contexts /\ a.p = q /\ a.h = k.h /\ a.net = k.net /\ a.free = k.free /\ a.pend = k.pend
        /\ SameFlags(k, a)
    BY <1>0, <2>2 DEF Contexts, SameFlags
  <2> HIDE DEF a
  <2>4. k.p.st \in Open /\ ~k.p.backlogpend /\ ~k.p.cb
    BY <1>2 DEF Good, ConnInv, PcbInv, Open
  <2>5. ConnInv([a.p EXCEPT !.closepend = TRUE], a.h, a.net)
    BY <2>2, <2>3 DEF Good
  <2>6. /\ Good(r) /\ Moved(a, r) /\ SameFlags(a, r) /\ r.h = a.h /\ r.free = a.free
        /\ r.pend = a.pend /\ ~r.p.cb /\ r.p.wdef = a.p.wdef /\ r.p.st # "free"
        /\ ~r.p.backlogpend
    BY <2>1, <2>2, <2>3, <2>4, <2>5, FinGood
  <2>7. Moved(k, r) /\ SameFlags(k, r)
    BY <2>2, <2>3, <2>6, FlagsTrans, MovedSelf DEF Moved, Bufs, Others
  <2>8. r.p.cb = k.p.cb /\ r.p.backlogpend = k.p.backlogpend /\ r.p.wdef = k.p.wdef
    <3>1. r.p \in Pcbs
      BY <2>6, ContextParts DEF Good
    <3>2. r.p.cb \in BOOLEAN /\ r.p.backlogpend \in BOOLEAN /\ k.p.cb \in BOOLEAN
          /\ k.p.backlogpend \in BOOLEAN
      BY <3>1, <1>0, PcbParts
    <3> QED
      BY <3>2, <2>2, <2>3, <2>4, <2>6
  <2> QED
    BY <2>3, <2>6, <2>7, <2>8, <1>2 DEF r
<1> QED
  BY <1>1, <1>2

\* A connection goes forward and takes at most the buffer that has arrived.
Advanced(h, g) == /\ Stage(h) <= Stage(g)
                  /\ Stage(h) = Stage(g) => g.req >= h.req
                  /\ g.req <= h.req + 1

\* http_recv has taken the buffer that arrived.
Taken(k, r) == Bufs(r) = Bufs(k) + 1 /\ Others(r) = Others(k) /\ Advanced(k.h, r.h)

\* Nothing is lost after http_recv has taken the buffer.
LEMMA TakenThenMoved ==
  ASSUME NEW k \in Contexts, NEW a \in Contexts, NEW r \in Contexts, Taken(k, a), Moved(a, r)
  PROVE  Taken(k, r)
<1>1. k.h.req \in Nat /\ a.h.req \in Nat /\ r.h.req \in Nat
  BY ContextParts, HttpParts
<1>2. Stage(k.h) \in Nat /\ Stage(a.h) \in Nat /\ Stage(r.h) \in Nat
  BY DEF Stage
<1> QED
  BY <1>1, <1>2 DEF Moved, Forward, Taken, Advanced

\* tcp_recved
LEMMA RecvedGood ==
  ASSUME NEW k, Good(k), k.p.cb, k.p.wdef \in {2, 3}
  PROVE  LET a == tcp_recved(k)
         IN  /\ Good(a) /\ SameFlags(k, a) /\ a.net = k.net /\ a.h = k.h /\ a.free = k.free
             /\ a.pend = k.pend /\ a.p.st = k.p.st /\ a.p.cb /\ a.p.wdef = k.p.wdef - 2
             /\ a.p.backlogpend = k.p.backlogpend
<1> DEFINE q == [k.p EXCEPT !.wdef = IF @ >= 2 THEN @ - 2 ELSE 0]
           a == [k EXCEPT !.p = q]
<1>0. k \in Contexts /\ k.p \in Pcbs /\ PcbInv(k.p) /\ HttpInv(k.p, k.h) /\ WireInv(k.p, k.h, k.net)
  BY ContextParts DEF Good, ConnInv
<1>1. a = tcp_recved(k)
  BY DEF tcp_recved
<1>2. /\ q \in Pcbs /\ q.wdef = k.p.wdef - 2 /\ q.uns = k.p.uns /\ q.nxt = k.p.nxt /\ q.lbb = k.p.lbb
      /\ q.st = k.p.st /\ q.una = k.p.una /\ q.fin = k.p.fin /\ q.closepend = k.p.closepend
      /\ q.rxclosed = k.p.rxclosed /\ q.backlogpend = k.p.backlogpend /\ q.cb = k.p.cb
  <2>1. PICK z \in Nat : z = k.p.wdef - 2
    OBVIOUS
  <2>2. q = [k.p EXCEPT !.wdef = z]
    BY <2>1
  <2> HIDE DEF q
  <2> QED
    BY <2>1, <2>2, <1>0 DEF Pcbs
<1> HIDE DEF q
<1>3. /\ a \in Contexts /\ a.p = q /\ a.h = k.h /\ a.net = k.net /\ a.free = k.free /\ a.pend = k.pend
      /\ SameFlags(k, a)
  BY <1>0, <1>2 DEF Contexts, SameFlags
<1> HIDE DEF a
<1>4. q.st # "free"
  BY <1>0, <1>2 DEF PcbInv, Open
<1>5. PcbInv(q) /\ HttpInv(q, k.h) /\ WireInv(q, k.h, k.net)
  BY <1>0, <1>2, <1>4 DEF PcbInv, HttpInv, WireInv, Written
<1> QED
  BY <1>1, <1>2, <1>3, <1>5 DEF Good, ConnInv, a

\* The server's state changes, the pcb does not.
LEMMA NewState ==
  ASSUME NEW k, Good(k), k.p.cb, NEW r \in Contexts, r.p = k.p, r.net = k.net,
         r.h.st = "live", HttpInv(k.p, r.h)
  PROVE  Good(r)
<1>1. PcbInv(k.p) /\ WireInv(k.p, r.h, k.net)
  BY DEF Good, ConnInv, WireInv, EndInv
<1> QED
  BY <1>1 DEF Good, ConnInv

\* http_recv with data that the client had still to send, or, after its FIN.
LEMMA RecvGood ==
  ASSUME NEW k, Good(k), k.p.cb, ~k.closed, k.inp, k.p.wdef \in {2, 3},
         k.p.wdef = 3 => k.net.peerfin,
         NEW e, e.out \in Nat, e.w \in Nat, e.parse \in {"ok", "more", "bad"}
  PROVE  LET r == http_recv(k, e)
         IN  /\ r \in Contexts /\ Flow(k, r) /\ r.net.peerfin = k.net.peerfin
             /\ r.closed => Doomed(r)
             /\ ~r.closed => Good(r) /\ r.p.wdef = k.p.wdef - 2 /\ r.p.st # "free"
             /\ r.p.cb => r.p.st = k.p.st
             /\ Taken(k, r)
<1> DEFINE a == tcp_recved(k)
           b == [a EXCEPT !.h.req = @ + 1]
           r == http_recv(k, e)
<1>0. k \in Contexts /\ k.h \in HttpStates /\ k.free \in Int /\ k.pend \in Int /\ HttpInv(k.p, k.h)
  BY ContextParts DEF Good, ConnInv
<1>1. /\ Good(a) /\ a \in Contexts /\ SameFlags(k, a) /\ a.net = k.net /\ a.h = k.h /\ a.free = k.free
      /\ a.pend = k.pend /\ a.p.st = k.p.st /\ a.p.cb /\ a.p.wdef = k.p.wdef - 2
      /\ a.p.backlogpend = k.p.backlogpend
  BY RecvedGood DEF Good
<1>2. r = IF k.h.file THEN [a EXCEPT !.free = @ + 1]
          ELSE IF ParseResult(b, e) = "more" THEN b
          ELSE IF ParseResult(b, e) = "ok" THEN http_send(http_init_file(FreeRequest(b)), e)
          ELSE http_close_conn(FreeRequest(b), e, "failed")
  BY DEF http_recv
<1> HIDE DEF a, r
<1>3. k.h.st = "live" /\ a.p.st # "free" /\ a.p.st \in Open /\ k.h.req \in Nat
      /\ a.p.una >= 1 /\ ~a.p.fin /\ a.p.una \in Nat
  <2>1. a.p \in Pcbs
    BY <1>1, ContextParts
  <2> QED
    BY <2>1, <1>0, <1>1, PcbParts, HttpParts DEF HttpInv, Good, ConnInv, PcbInv, Open, Finishing
<1>4. \A x \in Contexts : /\ Good(x) /\ x.p = a.p /\ SameFlags(a, x) /\ x.net = a.net => Usable(x)
  <2>1. a.inp /\ ~a.closed /\ (a.p.wdef # 0 => a.net.peerfin)
    BY <1>1 DEF SameFlags
  <2> QED
    BY <1>1, <2>1 DEF Usable, SameFlags
<1>5. \A x \in Contexts :
         /\ Good(x) /\ x.p = a.p /\ SameFlags(a, x) /\ x.net = a.net /\ x.pend = a.pend
         /\ Bufs(x) = Bufs(k) + 1 /\ Advanced(k.h, x.h)
         => /\ Taken(k, x) /\ Flow(k, x) /\ x.net.peerfin = k.net.peerfin /\ ~x.closed
            /\ x.p.wdef = k.p.wdef - 2 /\ x.p.st # "free" /\ x.p.st = k.p.st
  BY <1>1, <1>3 DEF Taken, Others, SameFlags, Flow
<1>6. \A x \in Contexts : \A y :
         /\ Taken(k, x) /\ Flow(k, x) /\ x.net.peerfin = k.net.peerfin
         /\ x.p.wdef = k.p.wdef - 2 /\ x.p.st = k.p.st /\ Outcome(x, y) /\ Moved(x, y)
         => /\ y \in Contexts /\ Flow(k, y) /\ y.net.peerfin = k.net.peerfin
            /\ y.closed => Doomed(y)
            /\ ~y.closed => Good(y) /\ y.p.wdef = k.p.wdef - 2 /\ y.p.st # "free"
            /\ y.p.cb => y.p.st = k.p.st
            /\ Taken(k, y)
  BY <1>0, TakenThenMoved DEF Outcome, Flow
<1>7. CASE k.h.file
  <2>1. PICK f \in Int : f = k.free + 1
    BY <1>0
  <2>2. r = [a EXCEPT !.h = a.h, !.free = f]
    BY <2>1, <1>1, <1>2, <1>7 DEF Contexts
  <2>3. HttpInv(a.p, a.h)
    BY <1>1 DEF Good, ConnInv
  <2>4. /\ Good(r) /\ r.h = a.h /\ r.free = f /\ r.p = a.p /\ r.net = a.net /\ r.pend = a.pend
        /\ SameFlags(a, r)
    <3>1. /\ r \in Contexts /\ r.h = a.h /\ r.free = f /\ r.p = a.p /\ r.net = a.net /\ r.pend = a.pend
          /\ SameFlags(a, r)
      BY <2>2, <1>0, <1>1 DEF Contexts, SameFlags
    <3> QED
      BY <3>1, <2>3, <1>1, <1>3, NewState
  <2>5. Bufs(r) = Bufs(k) + 1 /\ Advanced(k.h, r.h)
    <3>1. Stage(k.h) \in Nat
      BY DEF Stage
    <3> QED
      BY <3>1, <2>1, <2>4, <1>0, <1>1, <1>3 DEF Bufs, Advanced
  <2> QED
    BY <2>4, <2>5, <1>5 DEF Good, r
<1>8. CASE ~k.h.file
  <2> DEFINE z == k.h.req + 1
             g == [k.h EXCEPT !.req = z]
             f == k.free + z
  <2>1. z \in Nat /\ f \in Int
    BY <1>0, <1>3
  <2>2. g \in HttpStates /\ g.req = z /\ g.st = "live" /\ ~g.file /\ g.left = k.h.left
        /\ g.retries = k.h.retries
    BY <1>0, <1>3, <1>8, <2>1 DEF HttpStates
  <2>3. b = [a EXCEPT !.h = g]
    BY <1>1
  <2> HIDE DEF g
  <2>4. b \in Contexts /\ b.h = g /\ b.free = k.free
    BY <2>2, <2>3, <1>1 DEF Contexts
  <2>5. k.h.left = 0 /\ a.p.lbb = 1
    BY <1>0, <1>1, <1>3, <1>8 DEF Good, ConnInv, HttpInv
  <2>6. Stage(k.h) = 1
    BY <1>3, <1>8 DEF Stage
  <2> HIDE DEF b
  <2>7. CASE ParseResult(b, e) = "more"
    <3>1. r = b
      BY <1>2, <1>8, <2>7
    <3>2. z <= ReqQueueLen
      BY <2>1, <2>2, <2>4, <2>7, Const DEF ParseResult
    <3>3. b = [a EXCEPT !.h = g, !.free = k.free]
      BY <2>3, <1>1 DEF Contexts
    <3>4. HttpInv(a.p, g)
      BY <2>2, <2>5, <3>2, <1>1, <1>3, Const DEF HttpInv, Open
    <3>5. /\ Good(b) /\ b.h = g /\ b.free = k.free /\ b.p = a.p /\ b.net = a.net /\ b.pend = a.pend
          /\ SameFlags(a, b)
      <4>1. /\ b.p = a.p /\ b.net = a.net /\ b.pend = a.pend /\ SameFlags(a, b)
        BY <2>3, <2>2, <1>1 DEF Contexts, SameFlags
      <4> QED
        BY <4>1, <3>4, <2>2, <2>4, <1>1, NewState
    <3>6. Bufs(b) = Bufs(k) + 1 /\ Advanced(k.h, b.h)
      BY <3>5, <2>2, <2>6, <1>0, <1>3 DEF Bufs, Advanced, Stage
    <3> QED
      BY <3>1, <3>5, <3>6, <1>5, <2>4 DEF r
  <2>8. ASSUME NEW x \in Contexts, x.p = a.p, x.net = a.net, x.pend = a.pend, SameFlags(a, x),
               x.free = f, x.h.st = "live", x.h.req = 0, HttpInv(a.p, x.h)
        PROVE  /\ Usable(x)
               /\ Bufs(x) = Bufs(k) + 1 /\ Others(x) = Others(k) /\ (x.h.file => Taken(k, x))
               /\ Flow(k, x) /\ x.net.peerfin = k.net.peerfin
               /\ x.p.wdef = k.p.wdef - 2 /\ x.p.st = k.p.st
    <3> HIDE DEF f
    <3>1. Good(x)
      BY <2>8, <1>1, NewState
    <3>2. Bufs(x) = Bufs(k) + 1
      BY <2>8, <1>0, <1>3 DEF Bufs, f
    <3>3. x.h.file => Advanced(k.h, x.h)
      <4>1. x.h.file => Stage(x.h) = 2
        BY <2>8 DEF Stage
      <4> QED
        BY <4>1, <2>8, <2>6, <1>3 DEF Advanced
    <3>4. Others(x) = Others(k) /\ Flow(k, x)
      BY <2>8, <1>1 DEF Others, SameFlags, Flow
    <3> QED
      BY <2>8, <3>1, <3>2, <3>3, <3>4, <1>1, <1>4 DEF Taken
  <2>9. CASE ParseResult(b, e) = "ok"
    <3> DEFINE h1 == [g EXCEPT !.req = 0]
               c == FreeRequest(b)
               h == [h1 EXCEPT !.file = TRUE, !.left = FileLen, !.retries = 0]
               x == http_init_file(c)
    <3>1. h1 \in HttpStates /\ h1.st = "live"
      BY <2>2 DEF HttpStates
    <3>2. c = [b EXCEPT !.h = h1, !.free = f]
      BY <2>2, <2>4 DEF FreeRequest
    <3> HIDE DEF h1, f
    <3>3. c = [a EXCEPT !.h = h1, !.free = f]
      BY <3>2, <2>3, <1>1 DEF Contexts
    <3>4. c.h = h1
      BY <3>3, <1>1 DEF Contexts
    <3> HIDE DEF c
    <3>5. 0 \in 0 .. MaxRetries - 1
      BY Const
    <3>6. h \in HttpStates /\ h.st = "live" /\ h.file /\ h.left = FileLen /\ h.req = 0
      <4>1. h1.req = 0
        BY <2>2 DEF h1, HttpStates
      <4> QED
        BY <4>1, <3>1, <3>5, Const DEF HttpStates
    <3>7. x = [c EXCEPT !.h = h]
      BY <3>4 DEF http_init_file
    <3> HIDE DEF h, x
    <3>8. x = [a EXCEPT !.h = h, !.free = f]
      BY <3>3, <3>7, <1>1 DEF Contexts
    <3>9. HttpInv(a.p, h)
      <4>1. Written(a.p) + h.left = FileLen /\ a.p.lbb - a.p.una <= SndBuf
        BY <3>6, <2>5, <1>3, Const DEF Written
      <4> QED
        BY <4>1, <3>6, <1>1, <1>3, Const DEF HttpInv, Open
    <3>10. /\ Usable(x) /\ x \in Contexts /\ Taken(k, x) /\ Flow(k, x) /\ x.net.peerfin = k.net.peerfin
           /\ x.p.wdef = k.p.wdef - 2 /\ x.p.st = k.p.st
      <4>1. /\ x \in Contexts /\ x.h = h /\ x.free = f /\ x.p = a.p /\ x.net = a.net
            /\ x.pend = a.pend /\ SameFlags(a, x)
        BY <3>6, <3>8, <2>1, <1>1 DEF Contexts, SameFlags
      <4> QED
        BY <4>1, <3>6, <3>9, <2>8
    <3>11. r = http_send(x, e)
      BY <1>2, <1>8, <2>9 DEF x, c
    <3>12. Outcome(x, r) /\ Moved(x, r)
      BY <3>10, <3>11, SendGood
    <3> QED
      BY <3>10, <3>12, <1>6 DEF r
  <2>10. CASE ParseResult(b, e) \notin {"ok", "more"}
    <3> DEFINE h == [g EXCEPT !.req = 0]
               x == FreeRequest(b)
    <3>1. h \in HttpStates /\ h.st = "live" /\ ~h.file /\ h.left = 0 /\ h.req = 0
      BY <2>2, <2>5 DEF HttpStates
    <3>2. x = [b EXCEPT !.h = h, !.free = f]
      BY <2>2, <2>4 DEF FreeRequest
    <3> HIDE DEF h, f
    <3>3. x = [a EXCEPT !.h = h, !.free = f]
      BY <3>2, <2>3, <1>1 DEF Contexts
    <3> HIDE DEF x
    <3>4. HttpInv(a.p, h)
      BY <3>1, <2>5, <1>1, <1>3, Const DEF HttpInv, Open
    <3>5. /\ Usable(x) /\ x \in Contexts /\ Flow(k, x) /\ x.net.peerfin = k.net.peerfin
          /\ x.p.wdef = k.p.wdef - 2 /\ x.p.st = k.p.st
          /\ Bufs(x) = Bufs(k) + 1 /\ Others(x) = Others(k) /\ x.h = h
      <4>1. /\ x \in Contexts /\ x.h = h /\ x.free = f /\ x.p = a.p /\ x.net = a.net
            /\ x.pend = a.pend /\ SameFlags(a, x)
        BY <3>1, <3>3, <2>1, <1>1 DEF Contexts, SameFlags
      <4> QED
        BY <4>1, <3>1, <3>4, <2>8
    <3>6. r = http_close_conn(x, e, "failed")
      BY <1>2, <1>8, <2>10 DEF x
    <3>7. Outcome(x, r) /\ Moved(x, r) /\ ~r.p.cb
      BY <3>5, <3>6, CloseConn
    <3>8. Stage(r.h) = 3 /\ r.h.req = 0
      <4>1. r \in Contexts /\ r.h.st # "live"
        BY <3>7 DEF Outcome, Doomed, Good, ConnInv, HttpInv
      <4>2. Stage(r.h) >= 1 /\ r.h.req <= 0
        BY <3>1, <3>5, <3>7 DEF Moved, Forward, Stage
      <4>3. r.h.req \in Nat
        BY <4>1, ContextParts, HttpParts
      <4> QED
        BY <4>1, <4>2, <4>3 DEF Stage
    <3>9. Taken(k, r)
      BY <3>5, <3>7, <3>8, <2>6, <1>3 DEF Taken, Moved, Advanced
    <3>10. Flow(k, r)
      BY <3>5, <3>7 DEF Outcome, Flow
    <3> QED
      BY <3>5, <3>7, <3>9, <3>10 DEF r, Outcome
  <2> QED
    BY <2>7, <2>9, <2>10
<1> QED
  BY <1>7, <1>8

(***************************************************************************)
(* tcp_process                                                             *)
(***************************************************************************)
\* The text or the FIN that tcp_receive took, in the window's units.
Window(k) == (IF k.data THEN 2 ELSE 0) + (IF k.gotfin THEN 1 ELSE 0)

\* tcp_receive moves una and uns by an acknowledgement of something new, and
\* takes text and FIN in the states that receive.
LEMMA ReceiveParts ==
  ASSUME NEW k \in Contexts, NEW s, s.ack \in Int, s.data \in BOOLEAN, s.fin \in BOOLEAN
  PROVE  LET r == tcp_receive(k, s)
             new == s.ack \in (k.p.una + 1) .. k.p.nxt
         IN  /\ r \in Contexts /\ r.h = k.h /\ r.free = k.free /\ r.pend = k.pend
             /\ r.inp = k.inp /\ r.closed = k.closed /\ r.reset = k.reset /\ r.over = k.over
             /\ r.net.fin = k.net.fin /\ r.net.rst = k.net.rst
             /\ r.net.peerfin = (k.net.peerfin \/ r.gotfin)
             /\ new => r.p.una = s.ack /\ r.p.uns = IF k.p.uns >= s.ack THEN k.p.uns ELSE s.ack
             /\ ~new => r.p.una = k.p.una /\ r.p.uns = k.p.uns
             /\ r.p.nxt = k.p.nxt /\ r.p.lbb = k.p.lbb /\ r.p.fin = k.p.fin /\ r.p.st = k.p.st
             /\ r.p.closepend = k.p.closepend /\ r.p.rxclosed = k.p.rxclosed
             /\ r.p.backlogpend = k.p.backlogpend /\ r.p.cb = k.p.cb
             /\ r.p.wdef = k.p.wdef + Window(r)
             /\ r.acked => k.acked \/ k.p.nxt > 1
             /\ r.data => s.data /\ s.seq = k.p.rcv
             /\ r.data \/ r.gotfin => k.p.st \in {"ESTABLISHED", "FIN_WAIT_1", "FIN_WAIT_2"}
<1> DEFINE p == k.p
           new == s.ack \in (k.p.una + 1) .. k.p.nxt
           m == Max({k.p.uns, s.ack})
           ak == IF new THEN \E i \in p.una .. (s.ack - 1) : i >= 1 /\ ~(p.fin /\ i = p.lbb - 1)
                 ELSE k.acked
           q1 == IF new THEN [k.p EXCEPT !.una = s.ack, !.uns = m, !.nrtx = 0] ELSE k.p
           a == IF new THEN [k EXCEPT !.p = q1, !.acked = ak] ELSE k
           open == p.st \in {"ESTABLISHED", "FIN_WAIT_1", "FIN_WAIT_2"}
           text == open /\ s.data /\ s.seq = p.rcv
           fin == open /\ s.fin /\ (s.seq = p.rcv \/ (s.data /\ s.seq = p.rcv - 1))
           One(b) == IF b THEN 1 ELSE 0
           rc == q1.rcv + One(text) + One(fin)
           wd == q1.wdef + 2 * One(text) + One(fin)
           q2 == [q1 EXCEPT !.rcv = rc, !.wdef = wd]
           n == [k.net EXCEPT !.peerfin = @ \/ fin]
           r == tcp_receive(k, s)
<1>0. k.p \in Pcbs /\ k.net \in Nets /\ k.acked \in BOOLEAN
  BY ContextParts
<1>1. k.p.una \in Nat /\ k.p.nxt \in Nat /\ k.p.uns \in Nat /\ k.p.rcv \in Nat /\ k.p.wdef \in Nat
  BY <1>0, PcbParts
<1>2. new => s.ack \in Nat /\ m = (IF k.p.uns >= s.ack THEN k.p.uns ELSE s.ack) /\ m \in Nat
  BY <1>1, Max2
<1>3. 0 \in 0 .. MaxRtx
  BY Const
<1>4. ak \in BOOLEAN /\ (ak => k.acked \/ k.p.nxt > 1)
  <2>1. CASE new
    <3> DEFINE ex == \E i \in p.una .. (s.ack - 1) : i >= 1 /\ ~(p.fin /\ i = p.lbb - 1)
    <3>1. ex => k.p.nxt > 1
      <4> SUFFICES ASSUME ex PROVE k.p.nxt > 1
        OBVIOUS
      <4>1. PICK i \in p.una .. (s.ack - 1) : i >= 1
        OBVIOUS
      <4> QED
        BY <4>1, <2>1, <1>1
    <3>2. ex \in BOOLEAN
      BY Zenon
    <3>3. ak = ex
      BY <2>1
    <3> HIDE DEF ex, ak
    <3> QED
      BY <3>1, <3>2, <3>3
  <2>2. CASE ~new
    BY <2>2, <1>0
  <2> QED
    BY <2>1, <2>2
<1>5. /\ q1 \in Pcbs /\ q1.una = (IF new THEN s.ack ELSE k.p.una)
      /\ q1.uns = (IF new THEN m ELSE k.p.uns)
      /\ q1.nxt = k.p.nxt /\ q1.lbb = k.p.lbb /\ q1.fin = k.p.fin /\ q1.st = k.p.st
      /\ q1.closepend = k.p.closepend /\ q1.rxclosed = k.p.rxclosed
      /\ q1.backlogpend = k.p.backlogpend /\ q1.cb = k.p.cb /\ q1.rcv = k.p.rcv
      /\ q1.wdef = k.p.wdef
  <2> HIDE DEF m
  <2>1. CASE new
    <3> DEFINE q == [k.p EXCEPT !.una = s.ack, !.uns = m, !.nrtx = 0]
    <3>1. q1 = q
      BY <2>1
    <3>2. /\ q \in Pcbs /\ q.una = s.ack /\ q.uns = m
          /\ q.nxt = k.p.nxt /\ q.lbb = k.p.lbb /\ q.fin = k.p.fin /\ q.st = k.p.st
          /\ q.closepend = k.p.closepend /\ q.rxclosed = k.p.rxclosed
          /\ q.backlogpend = k.p.backlogpend /\ q.cb = k.p.cb /\ q.rcv = k.p.rcv
          /\ q.wdef = k.p.wdef
      BY <2>1, <1>0, <1>2, <1>3 DEF Pcbs
    <3> HIDE DEF q, q1, new
    <3> QED
      BY <2>1, <3>1, <3>2
  <2>2. CASE ~new
    BY <2>2, <1>0
  <2> QED
    BY <2>1, <2>2
<1> HIDE DEF m, ak, q1
<1>6. a \in Contexts /\ a.p = q1 /\ a.acked = ak /\ a.h = k.h /\ a.net = k.net /\ a.free = k.free
      /\ a.pend = k.pend /\ a.inp = k.inp /\ a.closed = k.closed /\ a.reset = k.reset
      /\ a.over = k.over
  <2>1. CASE new
    BY <2>1, <1>4, <1>5 DEF Contexts
  <2>2. CASE ~new
    BY <2>2, <1>4, <1>5 DEF q1, ak
  <2> QED
    BY <2>1, <2>2
<1>7. r = [a EXCEPT !.p = q2, !.data = text, !.gotfin = fin, !.net = n]
  <2> DEFINE a0 == IF new
                   THEN [k EXCEPT !.p.una = s.ack, !.p.uns = Max({@, s.ack}), !.p.nrtx = 0,
                            !.acked = \E i \in p.una .. (s.ack - 1) :
                                         i >= 1 /\ ~(p.fin /\ i = p.lbb - 1)]
                   ELSE k
  <2>1. a = a0
    <3>1. CASE new
      BY <3>1 DEF m, ak, q1
    <3>2. CASE ~new
      BY <3>2
    <3> QED
      BY <3>1, <3>2
  <2>2. r = [a0 EXCEPT !.p.rcv = @ + One(text) + One(fin),
                  !.p.wdef = @ + 2 * One(text) + One(fin),
                  !.data = text, !.gotfin = fin, !.net.peerfin = @ \/ fin]
    BY DEF tcp_receive
  <2> HIDE DEF a0, a, r, text, fin, One, new
  <2>3. r = [a EXCEPT !.p.rcv = @ + One(text) + One(fin),
                  !.p.wdef = @ + 2 * One(text) + One(fin),
                  !.data = text, !.gotfin = fin, !.net.peerfin = @ \/ fin]
    BY <2>1, <2>2
  <2> QED
    BY <2>3, <1>6
<1> HIDE DEF a, r
<1>8. /\ text \in BOOLEAN /\ fin \in BOOLEAN
      /\ text => s.data /\ s.seq = k.p.rcv
      /\ text \/ fin => k.p.st \in {"ESTABLISHED", "FIN_WAIT_1", "FIN_WAIT_2"}
  OBVIOUS
<1> HIDE DEF text, fin
<1>9. rc \in Nat /\ wd \in Nat /\ wd = k.p.wdef + ((IF text THEN 2 ELSE 0) + (IF fin THEN 1 ELSE 0))
  BY <1>1, <1>5, <1>8
<1> HIDE DEF rc, wd
<1>10. /\ q2 \in Pcbs /\ q2.una = q1.una /\ q2.uns = q1.uns /\ q2.wdef = wd
       /\ q2.nxt = k.p.nxt /\ q2.lbb = k.p.lbb /\ q2.fin = k.p.fin /\ q2.st = k.p.st
       /\ q2.closepend = k.p.closepend /\ q2.rxclosed = k.p.rxclosed
       /\ q2.backlogpend = k.p.backlogpend /\ q2.cb = k.p.cb
  BY <1>5, <1>9 DEF Pcbs
<1>11. n \in Nets /\ n.fin = k.net.fin /\ n.rst = k.net.rst /\ n.peerfin = (k.net.peerfin \/ fin)
  BY <1>0, <1>8 DEF Nets
<1> HIDE DEF q2, n
<1>12. /\ r \in Contexts /\ r.p = q2 /\ r.net = n /\ r.data = text /\ r.gotfin = fin
       /\ r.h = a.h /\ r.free = a.free /\ r.pend = a.pend /\ r.inp = a.inp /\ r.closed = a.closed
       /\ r.reset = a.reset /\ r.over = a.over /\ r.acked = a.acked
  BY <1>6, <1>7, <1>8, <1>10, <1>11 DEF Contexts
<1>13. r.p.wdef = k.p.wdef + Window(r)
  BY <1>9, <1>10, <1>12 DEF Window
<1>14. /\ new => r.p.una = s.ack /\ r.p.uns = IF k.p.uns >= s.ack THEN k.p.uns ELSE s.ack
       /\ ~new => r.p.una = k.p.una /\ r.p.uns = k.p.uns
  BY <1>2, <1>5, <1>10, <1>12
<1> HIDE DEF new
<1> QED
  BY <1>4, <1>6, <1>8, <1>10, <1>11, <1>12, <1>13, <1>14 DEF r, new

\* The segment of an established connection leaves its invariant.
LEMMA ReceiveGood ==
  ASSUME NEW k, Good(k), k.p.st \in Open \cup Finishing, k.p.st # "TIME_WAIT", k.p.wdef = 0,
         NEW s, s.ack \in Int, s.data \in BOOLEAN, s.fin \in BOOLEAN
  PROVE  LET r == tcp_receive(k, s)
         IN  /\ Good(r) /\ Moved(k, r) /\ r.h = k.h /\ r.free = k.free /\ r.p.wdef = Window(r)
             /\ AllAcked(r, s) => r.p.una = r.p.lbb /\ r.p.uns = r.p.lbb /\ r.p.nxt = r.p.lbb
<1> DEFINE r == tcp_receive(k, s)
           new == s.ack \in (k.p.una + 1) .. k.p.nxt
<1>0. k \in Contexts /\ PcbInv(k.p) /\ HttpInv(k.p, k.h) /\ WireInv(k.p, k.h, k.net) /\ k.p \in Pcbs
      /\ k.h \in HttpStates /\ k.net \in Nets
  BY ContextParts DEF Good, ConnInv
<1>1. /\ r \in Contexts /\ r.h = k.h /\ r.free = k.free /\ r.pend = k.pend
      /\ r.net.fin = k.net.fin /\ r.net.rst = k.net.rst
      /\ r.net.peerfin = (k.net.peerfin \/ r.gotfin)
      /\ r.p.nxt = k.p.nxt /\ r.p.lbb = k.p.lbb /\ r.p.fin = k.p.fin /\ r.p.st = k.p.st
      /\ r.p.closepend = k.p.closepend /\ r.p.rxclosed = k.p.rxclosed
      /\ r.p.backlogpend = k.p.backlogpend /\ r.p.cb = k.p.cb
      /\ r.p.wdef = k.p.wdef + Window(r)
  BY <1>0, ReceiveParts
<1>2. /\ new => r.p.una = s.ack /\ r.p.uns = IF k.p.uns >= s.ack THEN k.p.uns ELSE s.ack
      /\ ~new => r.p.una = k.p.una /\ r.p.uns = k.p.uns
  BY <1>0, ReceiveParts
<1> HIDE DEF r
<1>3. k.p.una \in Nat /\ k.p.uns \in Nat /\ k.p.nxt \in Nat /\ k.p.lbb \in Nat
  BY <1>0, PcbParts
<1>4. /\ r.p.una \in Nat /\ r.p.uns \in Nat /\ k.p.una <= r.p.una /\ r.p.una <= r.p.uns
      /\ r.p.uns <= r.p.nxt /\ r.p.nxt <= r.p.lbb /\ r.p.una >= 1
      /\ k.p.una = k.p.lbb => r.p.una = k.p.una
  BY <1>0, <1>1, <1>2, <1>3 DEF PcbInv
<1>5. PcbInv(r.p)
  <2>1. r.p.st \notin {"free", "SYN_RCVD"}
    BY <1>1 DEF Open, Finishing
  <2> QED
    BY <2>1, <1>0, <1>1, <1>4 DEF PcbInv
<1>6. HttpInv(r.p, k.h)
  <2>1. Written(r.p) = Written(k.p)
    BY <1>1 DEF Written
  <2>2. k.p.lbb - k.p.una <= SndBuf => r.p.lbb - r.p.una <= SndBuf
    BY <1>1, <1>3, <1>4, Const
  <2> QED
    BY <2>1, <2>2, <1>0, <1>1 DEF HttpInv
<1>7. WireInv(r.p, k.h, r.net)
  BY <1>0, <1>1 DEF WireInv, EndInv
<1>8. AllAcked(r, s) => r.p.una = r.p.lbb /\ r.p.uns = r.p.lbb /\ r.p.nxt = r.p.lbb
  BY <1>1, <1>2, <1>3, <1>4 DEF AllAcked
<1>9. Moved(k, r)
  <2>1. Stage(k.h) \in Nat /\ k.h.req \in Nat
    BY <1>0, HttpParts DEF Stage
  <2> QED
    BY <2>1, <1>1 DEF Moved, Forward, Bufs, Others
<1>10. r.p.wdef = Window(r)
  BY <1>1 DEF Window
<1> QED
  BY <1>1, <1>5, <1>6, <1>7, <1>8, <1>9, <1>10 DEF Good, ConnInv, r

\* A pcb moves on within the states before, or those after, the FIN is queued.
LEMMA MoveGood ==
  ASSUME NEW k, Good(k), NEW st \in States,
         \/ k.p.st \in Open /\ st \in Open
         \/ k.p.st \in Finishing /\ st \in Finishing,
         st \in {"FIN_WAIT_2", "TIME_WAIT"} => k.p.una = k.p.lbb
  PROVE  LET r == Move(k, st)
         IN  /\ Good(r) /\ Moved(k, r) /\ SameFlags(k, r) /\ r.h = k.h /\ r.free = k.free
             /\ r.net = k.net /\ r.p.st = st /\ r.p.cb = k.p.cb /\ r.p.wdef = k.p.wdef
             /\ r.p.rxclosed = k.p.rxclosed
<1> DEFINE q == [k.p EXCEPT !.st = st]
           r == Move(k, st)
<1>0. k \in Contexts /\ PcbInv(k.p) /\ HttpInv(k.p, k.h) /\ WireInv(k.p, k.h, k.net) /\ k.p \in Pcbs
  BY ContextParts DEF Good, ConnInv
<1>1. /\ q \in Pcbs /\ q.st = st /\ q.una = k.p.una /\ q.uns = k.p.uns /\ q.nxt = k.p.nxt
      /\ q.lbb = k.p.lbb /\ q.fin = k.p.fin /\ q.closepend = k.p.closepend /\ q.wdef = k.p.wdef
      /\ q.rxclosed = k.p.rxclosed /\ q.backlogpend = k.p.backlogpend /\ q.cb = k.p.cb
  BY <1>0 DEF Pcbs
<1>2. r = [k EXCEPT !.p = q]
  BY DEF Move
<1> HIDE DEF q, r
<1>3. /\ r \in Contexts /\ r.p = q /\ r.h = k.h /\ r.net = k.net /\ r.free = k.free /\ r.pend = k.pend
      /\ SameFlags(k, r)
  BY <1>0, <1>1, <1>2 DEF Contexts, SameFlags
<1>4. k.p.st \notin {"free", "SYN_RCVD"} /\ st \notin {"free", "SYN_RCVD"}
      /\ (k.p.st \in Open <=> st \in Open) /\ (k.p.st \in Finishing <=> st \in Finishing)
  BY DEF Open, Finishing
<1>5. PcbInv(q)
  BY <1>0, <1>1, <1>4 DEF PcbInv
<1>6. HttpInv(q, k.h) /\ WireInv(q, k.h, k.net)
  BY <1>0, <1>1, <1>4 DEF HttpInv, WireInv, Written
<1>7. Moved(k, r)
  <2>1. Stage(k.h) \in Nat /\ k.h.req \in Nat
    BY <1>0, ContextParts, HttpParts DEF Stage
  <2> QED
    BY <2>1, <1>1, <1>3 DEF Moved, Forward, Bufs, Others
<1> QED
  BY <1>1, <1>3, <1>5, <1>6, <1>7 DEF Good, ConnInv, r

\* tcp_rexmit and tcp_rexmit_rto: what is not acknowledged is unsent again.
LEMMA RexmitGood ==
  ASSUME NEW k, Good(k), k.p.st # "free"
  PROVE  LET r == [k EXCEPT !.p.uns = k.p.una, !.p.nrtx = Min({@ + 1, MaxRtx})]
         IN  /\ Good(r) /\ Moved(k, r) /\ SameFlags(k, r) /\ r.h = k.h /\ r.free = k.free
             /\ r.net = k.net /\ r.p.st = k.p.st /\ r.p.cb = k.p.cb /\ r.p.wdef = k.p.wdef
<1> DEFINE m == Min({k.p.nrtx + 1, MaxRtx})
           q == [k.p EXCEPT !.uns = k.p.una, !.nrtx = m]
           r == [k EXCEPT !.p = q]
<1>0. k \in Contexts /\ PcbInv(k.p) /\ HttpInv(k.p, k.h) /\ WireInv(k.p, k.h, k.net) /\ k.p \in Pcbs
  BY ContextParts DEF Good, ConnInv
<1>1. m \in 0 .. MaxRtx
  <2>1. PICK x \in Nat : x = k.p.nrtx + 1
    BY <1>0, PcbParts, Const
  <2>2. m = IF x <= MaxRtx THEN x ELSE MaxRtx
    BY <2>1, Min2, Const
  <2> QED
    BY <2>1, <2>2, Const
<1> HIDE DEF m
<1>2. /\ q \in Pcbs /\ q.st = k.p.st /\ q.una = k.p.una /\ q.uns = k.p.una /\ q.nxt = k.p.nxt
      /\ q.lbb = k.p.lbb /\ q.fin = k.p.fin /\ q.closepend = k.p.closepend /\ q.wdef = k.p.wdef
      /\ q.rxclosed = k.p.rxclosed /\ q.backlogpend = k.p.backlogpend /\ q.cb = k.p.cb
  BY <1>0, <1>1 DEF Pcbs
<1> HIDE DEF q
<1>3. /\ r \in Contexts /\ r.p = q /\ r.h = k.h /\ r.net = k.net /\ r.free = k.free /\ r.pend = k.pend
      /\ SameFlags(k, r)
  BY <1>0, <1>2 DEF Contexts, SameFlags
<1>4. PcbInv(q)
  <2>1. q.una <= q.uns /\ q.uns <= q.nxt /\ q.nxt <= q.lbb
    BY <1>0, <1>2, PcbParts DEF PcbInv
  <2> QED
    BY <2>1, <1>0, <1>2 DEF PcbInv
<1>5. HttpInv(q, k.h) /\ WireInv(q, k.h, k.net)
  BY <1>0, <1>2 DEF HttpInv, WireInv, Written
<1>6. Moved(k, r)
  <2>1. Stage(k.h) \in Nat /\ k.h.req \in Nat
    BY <1>0, ContextParts, HttpParts DEF Stage
  <2> QED
    BY <2>1, <1>2, <1>3 DEF Moved, Forward, Bufs, Others
<1> HIDE DEF r
<1>7. /\ Good(r) /\ Moved(k, r) /\ SameFlags(k, r) /\ r.h = k.h /\ r.free = k.free
      /\ r.net = k.net /\ r.p.st = k.p.st /\ r.p.cb = k.p.cb /\ r.p.wdef = k.p.wdef
  BY <1>2, <1>3, <1>4, <1>5, <1>6 DEF Good, ConnInv
<1> QED
  BY <1>7 DEF r, q, m

\* The locals of tcp_input at its start.
Fresh(k) == /\ k.inp /\ ~k.closed /\ ~k.gotfin /\ ~k.reset /\ ~k.acked /\ ~k.data /\ ~k.over
            /\ k.p.wdef = 0

\* tcp_process has handled the segment; the callbacks are still to be made.
Processed(k, r) ==
  /\ Good(r) /\ r.inp /\ r.free = k.free /\ Moved(k, r)
  /\ r.over => r.p = NoPcb /\ ~r.data
  /\ ~r.over => r.p.st # "free"
  /\ r.reset => ~r.data
  /\ r.p.wdef = Window(r)
  /\ r.gotfin => r.net.peerfin
  /\ r.closed => ~r.p.cb /\ ~r.data /\ ~r.gotfin /\ ~r.p.backlogpend
  /\ r.p.cb /\ ~r.gotfin => r.p.st = "ESTABLISHED"
  /\ r.data => r.h.st # "none"
  /\ ~Trailing /\ r.data => ~r.h.file /\ r.h.st # "served" /\ ~(r.acked /\ r.p.cb)

\* Nothing was received.
LEMMA NothingProcessed ==
  ASSUME NEW k, NEW r, Good(r), Fresh(r), r.free = k.free, Moved(k, r), r.p.st # "free",
         r.p.cb => r.p.st = "ESTABLISHED"
  PROVE  Processed(k, r)
BY DEF Processed, Fresh, Window

\* SYN_RCVD
LEMMA SynReceivedGood ==
  ASSUME NEW k, Good(k), k.p.st = "SYN_RCVD", Fresh(k),
         NEW s, s.ack \in Int, s.data \in BOOLEAN, s.fin \in BOOLEAN, NEW e
  PROVE  Processed(k, SynReceived(k, s, e))
<1>0. k \in Contexts /\ PcbInv(k.p) /\ HttpInv(k.p, k.h) /\ WireInv(k.p, k.h, k.net) /\ k.p \in Pcbs
      /\ k.h \in HttpStates /\ k.net \in Nets /\ k.pend \in Int
  BY ContextParts DEF Good, ConnInv
<1>1. k.p.una \in Nat /\ k.p.uns \in Nat /\ k.p.nxt \in Nat /\ k.p.lbb = 1
      /\ k.p.una <= k.p.uns /\ k.p.uns <= k.p.nxt /\ k.p.nxt <= k.p.lbb
      /\ ~k.p.cb /\ ~k.p.rxclosed /\ ~k.p.fin /\ ~k.p.closepend /\ k.p.backlogpend
  BY <1>0, PcbParts DEF PcbInv, Finishing
<1>2. k.h.st = "none" /\ k.net.fin = 0 /\ ~k.net.rst /\ k.h = [NoHttpState EXCEPT !.st = "none"]
  BY <1>0, <1>1 DEF HttpInv, WireInv
<1>3. k.h.req = 0
  BY <1>2, EndedState
<1>4. CASE s.ack \in (k.p.una + 1) .. k.p.nxt
  <2>1. k.p.una = 0 /\ k.p.nxt = 1 /\ s.ack = 1
    BY <1>1, <1>4
  <2> DEFINE q1 == [k.p EXCEPT !.st = "ESTABLISHED"]
             m == [k EXCEPT !.p = q1]
             q2 == [q1 EXCEPT !.backlogpend = FALSE]
             a == tcp_backlog_accepted(Move(k, "ESTABLISHED"))
  <2>2. q1 \in Pcbs /\ q1.backlogpend /\ q1.st = "ESTABLISHED"
    BY <1>0, <1>1 DEF Pcbs, States
  <2>3. /\ q2 \in Pcbs /\ q2.st = "ESTABLISHED" /\ q2.una = k.p.una /\ q2.uns = k.p.uns
        /\ q2.nxt = k.p.nxt /\ q2.lbb = k.p.lbb /\ q2.fin = k.p.fin /\ q2.closepend = k.p.closepend
        /\ q2.wdef = k.p.wdef /\ q2.rxclosed = k.p.rxclosed /\ ~q2.backlogpend /\ q2.cb = k.p.cb
    BY <1>0, <1>1 DEF Pcbs, States
  <2>4. Move(k, "ESTABLISHED") = m
    BY DEF Move
  <2> HIDE DEF q1
  <2>5. m \in Contexts /\ m.p = q1 /\ m.h = k.h /\ m.net = k.net /\ m.free = k.free /\ m.pend = k.pend
        /\ SameFlags(k, m)
    BY <1>0, <2>2 DEF Contexts, SameFlags
  <2> HIDE DEF m
  <2>6. a = [m EXCEPT !.p = q2, !.pend = m.pend - 1]
    BY <2>2, <2>4, <2>5 DEF tcp_backlog_accepted
  <2>7. PICK z \in Int : z = m.pend - 1
    BY <2>5, ContextParts
  <2> HIDE DEF q2, a
  <2>8. a \in Contexts /\ a.p = q2 /\ a.h = k.h /\ a.net = k.net /\ a.free = k.free /\ a.pend = z
        /\ SameFlags(m, a)
    BY <2>3, <2>5, <2>6, <2>7 DEF Contexts, SameFlags
  <2>9. SameFlags(k, a) /\ a.pend = k.pend - 1
    BY <2>5, <2>7, <2>8, FlagsTrans
  <2> DEFINE g == [NoHttpState EXCEPT !.st = "live"]
             q3 == [q2 EXCEPT !.cb = TRUE]
             x == http_accept(a)
             b == tcp_receive(x, s)
             r == SynReceived(k, s, e)
  <2>10. r = IF e.mem THEN IF b.gotfin THEN Move(b, "CLOSE_WAIT") ELSE b
             ELSE [tcp_abandon(a, TRUE) EXCEPT !.over = TRUE]
    BY <1>4 DEF SynReceived, a
  <2>11. CASE ~e.mem
    <3> DEFINE u == tcp_pcb_purge(a)
               v == tcp_free(u)
               w == [v EXCEPT !.net.rst = @ \/ TRUE]
    <3>1. a.p.st # "TIME_WAIT" /\ ~a.p.cb /\ ~a.p.backlogpend
      BY <2>3, <2>8, <1>1
    <3>2. RemoveWithError(a) = v
      BY <3>1 DEF RemoveWithError, http_err
    <3>3. tcp_abandon(a, TRUE) = w
      BY <3>1, <3>2 DEF tcp_abandon
    <3>4. u \in Contexts /\ u.h = a.h /\ u.net = a.net /\ u.free = a.free
          /\ u.pend = a.pend /\ SameFlags(a, u) /\ u.p.cb = a.p.cb /\ ~u.p.backlogpend
      BY <2>8, <3>1, Purged
    <3> HIDE DEF u
    <3>5. u.h.st = "none" /\ u.h = [NoHttpState EXCEPT !.st = u.h.st] /\ EndInv(u.h, u.net)
      BY <3>4, <2>8, <1>2 DEF EndInv
    <3>6. /\ Good(v) /\ v.p = NoPcb /\ v.h = u.h /\ v.net = u.net /\ v.free = u.free
          /\ v.pend = u.pend /\ SameFlags(u, v)
      BY <3>1, <3>4, <3>5, FreedGood
    <3> HIDE DEF v
    <3> DEFINE n == [v.net EXCEPT !.rst = TRUE]
    <3>7. n \in Nets
      BY <3>6, ContextParts DEF Nets, Good
    <3>8. [w EXCEPT !.over = TRUE] = [v EXCEPT !.net = n, !.over = TRUE]
      BY <3>6 DEF Good, Contexts
    <3>9. r = [v EXCEPT !.net = n, !.over = TRUE]
      BY <3>3, <3>8, <2>10, <2>11
    <3> HIDE DEF n, r
    <3>10. /\ r \in Contexts /\ r.p = NoPcb /\ r.h = v.h /\ r.net = n /\ r.free = v.free /\ r.pend = v.pend
           /\ r.over /\ r.inp = v.inp /\ r.closed = v.closed /\ r.gotfin = v.gotfin
           /\ r.reset = v.reset /\ r.acked = v.acked /\ r.data = v.data
      BY <3>6, <3>7, <3>9 DEF Good, Contexts
    <3>11. r.h = k.h /\ r.free = k.free /\ r.pend = k.pend - 1
      BY <3>4, <3>6, <3>10, <2>8, <2>9
    <3>12. SameFlags(k, v)
      BY <3>4, <3>6, <2>9, FlagsTrans
    <3>13. EndInv(r.h, r.net)
      BY <3>11, <1>2 DEF EndInv
    <3>14. Good(r)
      BY <3>10, <3>11, <3>13, <1>2, DeadGood
    <3>15. Moved(k, r)
      BY <3>10, <3>11, <1>0, <1>1, <1>3, Unused DEF Moved, Bufs, Others, Forward, Stage
    <3>16. r.inp /\ ~r.closed /\ ~r.gotfin /\ ~r.reset /\ ~r.data
      BY <3>10, <3>12 DEF SameFlags, Fresh
    <3>17. Processed(k, r)
      BY <3>10, <3>11, <3>14, <3>15, <3>16, Unused DEF Processed, Window
    <3> QED
      BY <3>17 DEF r
  <2>12. CASE e.mem
    <3>1. /\ q3 \in Pcbs /\ q3.st = "ESTABLISHED" /\ q3.una = 0 /\ q3.uns = k.p.uns
          /\ q3.nxt = 1 /\ q3.lbb = 1 /\ ~q3.fin /\ ~q3.closepend
          /\ q3.wdef = 0 /\ ~q3.rxclosed /\ ~q3.backlogpend /\ q3.cb
      BY <2>3, <2>1, <1>1 DEF Pcbs, Fresh
    <3>2. /\ g \in HttpStates /\ g.st = "live" /\ g.req = 0 /\ ~g.file /\ g.left = 0
      BY EndedState
    <3>3. x = [a EXCEPT !.h = g, !.p = q3]
      BY <2>8 DEF http_accept
    <3> HIDE DEF g, q3, x
    <3>4. x \in Contexts /\ x.p = q3 /\ x.h = g /\ x.net = k.net /\ x.free = k.free
          /\ x.pend = k.pend - 1 /\ SameFlags(a, x)
      BY <2>8, <2>9, <3>1, <3>2, <3>3 DEF Contexts, SameFlags
    <3>5. /\ b \in Contexts /\ b.h = x.h /\ b.free = x.free /\ b.pend = x.pend
          /\ b.inp = x.inp /\ b.closed = x.closed /\ b.reset = x.reset /\ b.over = x.over
          /\ b.net.fin = x.net.fin /\ b.net.rst = x.net.rst
          /\ b.net.peerfin = (x.net.peerfin \/ b.gotfin)
          /\ b.p.nxt = x.p.nxt /\ b.p.lbb = x.p.lbb /\ b.p.fin = x.p.fin /\ b.p.st = x.p.st
          /\ b.p.closepend = x.p.closepend /\ b.p.rxclosed = x.p.rxclosed
          /\ b.p.backlogpend = x.p.backlogpend /\ b.p.cb = x.p.cb
          /\ b.p.wdef = x.p.wdef + Window(b)
          /\ b.acked => x.acked \/ x.p.nxt > 1
      BY <3>4, ReceiveParts
    <3>6. b.p.una = s.ack /\ b.p.uns = IF x.p.uns >= s.ack THEN x.p.uns ELSE s.ack
      <4>1. s.ack \in (x.p.una + 1) .. x.p.nxt
        BY <3>1, <3>4, <2>1
      <4> QED
        BY <4>1, <3>4, ReceiveParts
    <3> HIDE DEF b
    <3>7. b.p.una = 1 /\ b.p.uns = 1 /\ b.p.nxt = 1 /\ b.p.lbb = 1
      BY <3>1, <3>4, <3>5, <3>6, <2>1, <1>1
    <3>8. SameFlags(k, x)
      BY <3>4, <2>9, FlagsTrans
    <3>9. b.inp /\ ~b.closed /\ ~b.reset /\ ~b.over /\ ~b.acked
      BY <3>1, <3>4, <3>5, <3>8 DEF SameFlags, Fresh
    <3>10. PcbInv(b.p)
      BY <3>1, <3>4, <3>5, <3>7 DEF PcbInv, Open, Finishing
    <3>11. HttpInv(b.p, b.h)
      BY <3>1, <3>2, <3>4, <3>5, <3>7, Const DEF HttpInv
    <3>12. WireInv(b.p, b.h, b.net)
      BY <3>1, <3>2, <3>4, <3>5, <1>2 DEF WireInv, EndInv
    <3>13. Good(b)
      BY <3>5, <3>10, <3>11, <3>12 DEF Good, ConnInv
    <3>14. Moved(k, b)
      <4>1. Stage(k.h) = 0 /\ Stage(b.h) = 1
        BY <1>2, <3>2, <3>4, <3>5 DEF Stage
      <4> QED
        BY <4>1, <1>0, <1>1, <1>3, <3>1, <3>2, <3>4, <3>5 DEF Moved, Bufs, Others, Forward
    <3>15. b.p.wdef = Window(b)
      BY <3>1, <3>4, <3>5 DEF Window
    <3>16. CASE ~b.gotfin
      <4>1. r = b
        BY <2>10, <2>12, <3>16
      <4>2. Processed(k, b)
        BY <3>1, <3>2, <3>4, <3>5, <3>9, <3>13, <3>14, <3>15, <3>16 DEF Processed
      <4> QED
        BY <4>1, <4>2
    <3>17. CASE b.gotfin
      <4>1. r = Move(b, "CLOSE_WAIT")
        BY <2>10, <2>12, <3>17
      <4>2. /\ Good(r) /\ Moved(b, r) /\ SameFlags(b, r) /\ r.h = b.h /\ r.free = b.free
            /\ r.net = b.net /\ r.p.st = "CLOSE_WAIT" /\ r.p.cb = b.p.cb /\ r.p.wdef = b.p.wdef
        <5>1. b.p.st \in Open /\ "CLOSE_WAIT" \in Open /\ "CLOSE_WAIT" \in States
              /\ "CLOSE_WAIT" \notin {"FIN_WAIT_2", "TIME_WAIT"}
          BY <3>1, <3>4, <3>5 DEF Open, States
        <5> QED
          BY <4>1, <5>1, <3>13, MoveGood
      <4> HIDE DEF r
      <4>3. Moved(k, r) /\ Window(r) = Window(b)
        BY <4>2, <3>5, <3>14, <1>0, MovedTrans DEF Good, Window, SameFlags
      <4>4. Processed(k, r)
        BY <4>2, <4>3, <3>2, <3>4, <3>5, <3>9, <3>15, <3>17 DEF Processed, SameFlags
      <4> QED
        BY <4>4 DEF r
    <3> QED
      BY <3>16, <3>17
  <2> QED
    BY <2>11, <2>12
<1>5. CASE s.ack \notin (k.p.una + 1) .. k.p.nxt
  <2> DEFINE x == [k EXCEPT !.p.uns = k.p.una, !.p.nrtx = Min({@ + 1, MaxRtx})]
  <2>1. CASE s.syn /\ k.p.una < k.p.uns
    <3>1. SynReceived(k, s, e) = x
      BY <1>5, <2>1 DEF SynReceived
    <3>2. /\ Good(x) /\ Moved(k, x) /\ SameFlags(k, x) /\ x.h = k.h /\ x.free = k.free
          /\ x.net = k.net /\ x.p.st = k.p.st /\ x.p.cb = k.p.cb /\ x.p.wdef = k.p.wdef
      BY RexmitGood
    <3> HIDE DEF x
    <3>3. Fresh(x)
      BY <3>2 DEF Fresh, SameFlags
    <3> QED
      BY <3>1, <3>2, <3>3, <1>1, NothingProcessed
  <2>2. CASE ~(s.syn /\ k.p.una < k.p.uns)
    <3>1. SynReceived(k, s, e) = k
      BY <1>5, <2>2 DEF SynReceived
    <3> QED
      BY <3>1, <1>0, <1>1, MovedSelf, NothingProcessed
  <2> QED
    BY <2>1, <2>2
<1> QED
  BY <1>4, <1>5

\* ToTimeWait once everything is acknowledged.
LEMMA TimeWaitGood ==
  ASSUME NEW k, Good(k), k.p.st \in Finishing, k.p.st # "TIME_WAIT",
         k.p.una = k.p.lbb
  PROVE  LET r == ToTimeWait(k)
         IN  /\ Good(r) /\ Moved(k, r) /\ SameFlags(k, r) /\ r.h = k.h /\ r.free = k.free
             /\ r.net = k.net /\ r.p.st = "TIME_WAIT" /\ r.p.cb = k.p.cb /\ r.p.wdef = k.p.wdef
<1>0. k \in Contexts /\ PcbInv(k.p) /\ k.p \in Pcbs
  BY ContextParts DEF Good, ConnInv
<1>1. k.p.una \in Nat /\ k.p.uns \in Nat /\ k.p.nxt \in Nat /\ k.p.lbb \in Nat
  BY <1>0, PcbParts
<1>2. k.p.uns = k.p.una
  BY <1>0, <1>1 DEF PcbInv
<1>3. Active(k.p) /\ ~k.p.backlogpend
  BY <1>0 DEF Active, PcbInv, Finishing
<1>4. tcp_pcb_purge(k) = k
  <2> DEFINE q == [k.p EXCEPT !.uns = k.p.una, !.lbb = k.p.una]
  <2>1. q = k.p
    BY <1>0, <1>2 DEF Pcbs
  <2>2. tcp_pcb_purge(k) = [k EXCEPT !.p = q]
    BY <1>3 DEF tcp_pcb_purge, tcp_backlog_accepted
  <2> HIDE DEF q
  <2> QED
    BY <2>1, <2>2, <1>0 DEF Contexts
<1>5. ToTimeWait(k) = Move(k, "TIME_WAIT")
  BY <1>4 DEF ToTimeWait, Move
<1>6. "TIME_WAIT" \in States /\ "TIME_WAIT" \in Finishing
  BY DEF States, Finishing
<1> QED
  BY <1>5, <1>6, MoveGood

\* The state machine.
LEMMA ProcessGood ==
  ASSUME NEW k, Good(k), Active(k.p), Fresh(k), k.p.cb => k.p.st = "ESTABLISHED",
         NEW s, s.ack \in Int, s.data \in BOOLEAN, s.fin \in BOOLEAN, NEW e,
         ~Trailing /\ s.data /\ s.seq = k.p.rcv => ~k.h.file /\ k.h.st # "served"
  PROVE  Processed(k, Process(k, s, e))
<1> DEFINE t == tcp_receive(k, s)
           r == Process(k, s, e)
<1>0. k \in Contexts /\ PcbInv(k.p) /\ HttpInv(k.p, k.h) /\ k.p \in Pcbs /\ k.h \in HttpStates
  BY ContextParts DEF Good, ConnInv
<1>1. CASE k.p.st = "SYN_RCVD"
  <2>1. r = SynReceived(k, s, e)
    BY <1>1 DEF Process
  <2> QED
    BY <2>1, <1>1, SynReceivedGood
<1>2. CASE k.p.st # "SYN_RCVD"
  <2>1. k.p.st \in Open \cup Finishing /\ k.p.st # "TIME_WAIT"
    BY <1>0, <1>2, PcbParts DEF Active, States, Open, Finishing
  <2>2. /\ Good(t) /\ Moved(k, t) /\ t.h = k.h /\ t.free = k.free /\ t.p.wdef = Window(t)
        /\ AllAcked(t, s) => t.p.una = t.p.lbb /\ t.p.uns = t.p.lbb /\ t.p.nxt = t.p.lbb
    BY <2>1, ReceiveGood DEF Fresh
  <2>3. /\ t \in Contexts /\ t.inp = k.inp /\ t.closed = k.closed /\ t.reset = k.reset
        /\ t.over = k.over /\ t.net.peerfin = (k.net.peerfin \/ t.gotfin)
        /\ t.p.st = k.p.st /\ t.p.cb = k.p.cb
        /\ t.acked => k.acked \/ k.p.nxt > 1
        /\ t.data => s.data /\ s.seq = k.p.rcv
        /\ t.data \/ t.gotfin => k.p.st \in {"ESTABLISHED", "FIN_WAIT_1", "FIN_WAIT_2"}
    BY <1>0, ReceiveParts
  <2> HIDE DEF t
  <2>4. ~t.over /\ ~t.reset /\ ~t.closed /\ t.inp /\ (t.gotfin => t.net.peerfin)
    BY <2>3 DEF Fresh
  <2>5. k.h.st # "none" /\ t.p.st # "free"
    BY <1>0, <2>1, <2>3 DEF HttpInv, Open, Finishing
  <2>6. ~Trailing /\ t.data => ~t.h.file /\ t.h.st # "served" /\ ~(t.acked /\ t.p.cb)
    <3> SUFFICES ASSUME ~Trailing, t.data PROVE ~t.h.file /\ t.h.st # "served" /\ ~(t.acked /\ t.p.cb)
      OBVIOUS
    <3>1. ~k.h.file /\ k.h.st # "served"
      BY <2>3
    <3>2. k.p.cb => ~t.acked
      <4>1. k.p.cb => k.p.lbb = 1
        BY <3>1, <1>0 DEF HttpInv
      <4>2. k.p.nxt \in Nat /\ k.p.nxt <= k.p.lbb
        BY <1>0, PcbParts DEF PcbInv
      <4> QED
        BY <4>1, <4>2, <2>3 DEF Fresh
    <3> QED
      BY <3>1, <3>2, <2>2, <2>3
  \* A move of the result of tcp_receive.
  <2>7. ASSUME NEW y, Good(y), Moved(t, y), SameFlags(t, y), y.h = t.h, y.free = t.free,
               y.net = t.net, y.p.cb = t.p.cb, y.p.wdef = t.p.wdef, y.p.st # "free",
               y.p.cb /\ ~y.gotfin => y.p.st = "ESTABLISHED"
        PROVE  Processed(k, y)
    <3>1. Moved(k, y)
      BY <2>7, <2>2, <2>3, <1>0, MovedTrans DEF Good
    <3>2. Window(y) = Window(t)
      BY <2>7 DEF Window, SameFlags
    <3> QED
      BY <3>1, <3>2, <2>7, <2>2, <2>3, <2>4, <2>5, <2>6 DEF Processed, SameFlags
  <2>8. CASE k.p.st \in Open
    <3>1. r = IF t.gotfin THEN Move(t, "CLOSE_WAIT") ELSE t
      BY <2>8 DEF Process, Open, t
    <3> HIDE DEF r
    <3>2. CASE t.gotfin
      <4>1. "CLOSE_WAIT" \in States /\ "CLOSE_WAIT" \in Open /\ "CLOSE_WAIT" \notin {"FIN_WAIT_2", "TIME_WAIT"}
            /\ t.p.st \in Open
        BY <2>3, <2>8 DEF States, Open
      <4>2. /\ Good(r) /\ Moved(t, r) /\ SameFlags(t, r) /\ r.h = t.h /\ r.free = t.free
            /\ r.net = t.net /\ r.p.st = "CLOSE_WAIT" /\ r.p.cb = t.p.cb /\ r.p.wdef = t.p.wdef
        BY <4>1, <3>1, <3>2, <2>2, MoveGood
      <4>3. r.gotfin
        BY <4>2, <3>2 DEF SameFlags
      <4>4. Processed(k, r)
        BY <4>2, <4>3, <2>7
      <4> QED
        BY <4>4 DEF r
    <3>3. CASE ~t.gotfin
      <4>1. SameFlags(t, t) /\ Moved(t, t)
        BY <2>3, MovedSelf DEF SameFlags
      <4>2. Processed(k, t)
        BY <4>1, <2>2, <2>3, <2>5, <2>7
      <4> QED
        BY <3>1, <3>3, <4>2 DEF r
    <3> QED
      BY <3>2, <3>3
  <2>9. CASE k.p.st \in Finishing
    <3>0. ~t.p.cb /\ ~t.p.backlogpend
      BY <2>9, <2>2, <2>3 DEF Good, ConnInv, PcbInv, Open, Finishing
    <3>1. ASSUME NEW st \in {"FIN_WAIT_2", "CLOSING"}, st = "FIN_WAIT_2" => AllAcked(t, s)
          PROVE  Processed(k, Move(t, st))
      <4>1. st \in States /\ st \in Finishing /\ st # "TIME_WAIT" /\ st # "free"
            /\ t.p.st \in Finishing
        BY <2>3, <2>9 DEF States, Finishing
      <4>2. st \in {"FIN_WAIT_2", "TIME_WAIT"} => t.p.una = t.p.lbb
        BY <3>1, <4>1, <2>2
      <4> DEFINE y == Move(t, st)
      <4>3. /\ Good(y) /\ Moved(t, y) /\ SameFlags(t, y) /\ y.h = t.h /\ y.free = t.free
            /\ y.net = t.net /\ y.p.st = st /\ y.p.cb = t.p.cb /\ y.p.wdef = t.p.wdef
        BY <4>1, <4>2, <2>2, MoveGood
      <4> HIDE DEF y
      <4>4. Processed(k, y)
        BY <4>1, <4>3, <3>0, <2>7
      <4> QED
        BY <4>4 DEF y
    <3>2. ASSUME t.p.una = t.p.lbb
          PROVE  Processed(k, ToTimeWait(t))
      <4>1. t.p.st \in Finishing /\ t.p.st # "TIME_WAIT"
        BY <2>1, <2>3, <2>9
      <4> DEFINE y == ToTimeWait(t)
      <4>2. /\ Good(y) /\ Moved(t, y) /\ SameFlags(t, y) /\ y.h = t.h /\ y.free = t.free
            /\ y.net = t.net /\ y.p.st = "TIME_WAIT" /\ y.p.cb = t.p.cb /\ y.p.wdef = t.p.wdef
        BY <3>2, <4>1, <2>2, TimeWaitGood
      <4> HIDE DEF y
      <4>3. Processed(k, y)
        BY <4>2, <3>0, <2>7
      <4> QED
        BY <4>3 DEF y
    <3>3. Processed(k, t)
      <4>1. SameFlags(t, t) /\ Moved(t, t)
        BY <2>3, MovedSelf DEF SameFlags
      <4> QED
        BY <4>1, <3>0, <2>2, <2>3, <2>5, <2>7
    <3>4. CASE k.p.st = "FIN_WAIT_1"
      <4>1. r = IF t.gotfin THEN IF AllAcked(t, s) THEN ToTimeWait(t) ELSE Move(t, "CLOSING")
                ELSE IF AllAcked(t, s) THEN Move(t, "FIN_WAIT_2") ELSE t
        BY <3>4 DEF Process, t
      <4> HIDE DEF r
      <4>2. Processed(k, r)
        BY <4>1, <3>1, <3>2, <3>3, <2>2
      <4> QED
        BY <4>2 DEF r
    <3>5. CASE k.p.st = "FIN_WAIT_2"
      <4>1. r = IF t.gotfin THEN ToTimeWait(t) ELSE t
        BY <3>5 DEF Process, t
      <4> HIDE DEF r
      <4>2. t.p.una = t.p.lbb
        BY <3>5, <2>2, <2>3 DEF Good, ConnInv, PcbInv
      <4>3. Processed(k, r)
        BY <4>1, <4>2, <3>2, <3>3
      <4> QED
        BY <4>3 DEF r
    <3>6. CASE k.p.st = "CLOSING"
      <4>1. r = IF AllAcked(t, s) THEN ToTimeWait(t) ELSE t
        BY <3>6 DEF Process, t
      <4> HIDE DEF r
      <4>2. Processed(k, r)
        BY <4>1, <3>2, <3>3, <2>2
      <4> QED
        BY <4>2 DEF r
    <3>7. CASE k.p.st = "LAST_ACK"
      <4> DEFINE b == AllAcked(t, s)
      <4>1. r = [t EXCEPT !.closed = b]
        BY <3>7 DEF Process, t
      <4>2. b \in BOOLEAN
        BY DEF AllAcked
      <4> HIDE DEF r, b
      <4>3. /\ r \in Contexts /\ r.p = t.p /\ r.h = t.h /\ r.net = t.net /\ r.free = t.free
            /\ r.pend = t.pend /\ r.inp = t.inp /\ r.gotfin = t.gotfin /\ r.reset = t.reset
            /\ r.acked = t.acked /\ r.data = t.data /\ r.over = t.over
        BY <4>1, <4>2, <2>3 DEF Contexts
      <4>4. ~t.data /\ ~t.gotfin
        BY <2>3, <3>7
      <4>5. Good(r) /\ Moved(k, r) /\ Window(r) = Window(t)
        BY <4>3, <2>2 DEF Good, Moved, Bufs, Others, Window
      <4>6. Processed(k, r)
        BY <4>3, <4>4, <4>5, <3>0, <2>2, <2>4, <2>5 DEF Processed
      <4> QED
        BY <4>6 DEF r
    <3> QED
      BY <3>4, <3>5, <3>6, <3>7, <2>1, <2>9 DEF Finishing
  <2> QED
    BY <2>1, <2>8, <2>9
<1> QED
  BY <1>1, <1>2

\* tcp_process
LEMMA TcpProcessGood ==
  ASSUME NEW k, Good(k), Active(k.p), Fresh(k), k.p.cb => k.p.st = "ESTABLISHED",
         NEW s, s.ack \in Int, s.data \in BOOLEAN, s.fin \in BOOLEAN, NEW e,
         ~Trailing /\ s.data /\ s.seq = k.p.rcv => ~k.h.file /\ k.h.st # "served"
  PROVE  Processed(k, tcp_process(k, s, e))
<1>0. k \in Contexts /\ k.p.st # "free"
  BY DEF Good, Active
<1>1. CASE s.rst
  <2> DEFINE b == (s.seq = k.p.rcv)
             r == [k EXCEPT !.reset = b]
  <2>1. tcp_process(k, s, e) = r
    BY <1>1 DEF tcp_process
  <2>2. b \in BOOLEAN
    OBVIOUS
  <2> HIDE DEF b
  <2>3. /\ r \in Contexts /\ r.p = k.p /\ r.h = k.h /\ r.net = k.net /\ r.free = k.free
        /\ r.pend = k.pend /\ r.inp = k.inp /\ r.gotfin = k.gotfin /\ r.closed = k.closed
        /\ r.acked = k.acked /\ r.data = k.data /\ r.over = k.over
    BY <1>0, <2>2 DEF Contexts
  <2> HIDE DEF r
  <2>4. Moved(k, k)
    BY <1>0, MovedSelf
  <2>5. Good(r) /\ Moved(k, r) /\ Window(r) = 0
    BY <2>3, <2>4 DEF Good, Moved, Bufs, Others, Window, Fresh
  <2> QED
    BY <2>1, <2>3, <2>5, <1>0 DEF Processed, Fresh
<1>2. CASE ~s.rst /\ s.syn /\ k.p.st # "SYN_RCVD"
  <2>1. tcp_process(k, s, e) = k
    BY <1>2 DEF tcp_process
  <2> QED
    BY <2>1, <1>0, MovedSelf, NothingProcessed
<1>3. CASE ~s.rst /\ ~(s.syn /\ k.p.st # "SYN_RCVD")
  <2>1. tcp_process(k, s, e) = Process(k, s, e)
    BY <1>3 DEF tcp_process
  <2> QED
    BY <2>1, ProcessGood
<1> QED
  BY <1>1, <1>2, <1>3

(***************************************************************************)
(* tcp_input                                                               *)
(***************************************************************************)
\* TCP_EVENT_RECV is done: the window lacks the FIN's byte at most.
AfterRecv(k) ==
  /\ k \in Contexts /\ ~k.over /\ k.inp
  /\ k.closed => Doomed(k)
  /\ ~k.closed => /\ Good(k) /\ k.p.st # "free"
                  /\ k.p.wdef = IF k.gotfin THEN 1 ELSE 0
                  /\ k.p.cb /\ ~k.gotfin => k.p.st = "ESTABLISHED"

\* TCP_EVENT_CLOSED is done: the server has closed what the client has closed.
AfterClosed(k) ==
  /\ k \in Contexts /\ ~k.over
  /\ k.closed => Doomed(k)
  /\ ~k.closed => Good(k) /\ k.p.st # "free" /\ AtRest(k.p)

\* The window does not matter to the invariant of a pcb in use.
LEMMA WindowFree ==
  ASSUME NEW k \in Contexts, NEW z \in Nat
  PROVE  LET a == [k EXCEPT !.p.wdef = z]
         IN  /\ a \in Contexts /\ a.h = k.h /\ a.net = k.net /\ SameFlags(k, a) /\ a.p.wdef = z
             /\ a.p.cb = k.p.cb /\ a.p.st = k.p.st /\ a.p.backlogpend = k.p.backlogpend
             /\ a.free = k.free /\ a.pend = k.pend /\ Moved(k, a)
             /\ Good(k) /\ k.p.st # "free" => Good(a)
<1> DEFINE q == [k.p EXCEPT !.wdef = z]
           a == [k EXCEPT !.p = q]
<1>1. /\ q \in Pcbs /\ q.wdef = z /\ q.uns = k.p.uns /\ q.nxt = k.p.nxt /\ q.lbb = k.p.lbb
      /\ q.st = k.p.st /\ q.una = k.p.una /\ q.fin = k.p.fin /\ q.closepend = k.p.closepend
      /\ q.rxclosed = k.p.rxclosed /\ q.backlogpend = k.p.backlogpend /\ q.cb = k.p.cb
  BY ContextParts DEF Pcbs
<1> HIDE DEF q
<1>2. /\ a \in Contexts /\ a.p = q /\ a.h = k.h /\ a.net = k.net /\ a.free = k.free /\ a.pend = k.pend
      /\ SameFlags(k, a)
  BY <1>1 DEF Contexts, SameFlags
<1> HIDE DEF a
<1>3. ConnInv(k.p, k.h, k.net) /\ k.p.st # "free" => ConnInv(q, k.h, k.net)
  BY <1>1 DEF ConnInv, PcbInv, HttpInv, WireInv, Written
<1>4. Moved(k, a)
  <2>1. Stage(k.h) \in Nat /\ k.h.req \in Nat
    BY ContextParts, HttpParts DEF Stage
  <2> QED
    BY <2>1, <1>1, <1>2 DEF Moved, Forward, Bufs, Others
<1>5. Good(k) /\ k.p.st # "free" => Good(a)
  BY <1>2, <1>3 DEF Good
<1> QED
  BY <1>1, <1>2, <1>4, <1>5 DEF a, q

\* TCP_EVENT_CLOSED
LEMMA ClosedEventGood ==
  ASSUME NEW k, AfterRecv(k), NEW e, e.out \in Nat
  PROVE  AfterClosed(ClosedEvent(k, e)) /\ Moved(k, ClosedEvent(k, e))
<1>0. k \in Contexts /\ k.p \in Pcbs /\ k.p.wdef \in Nat
  BY ContextParts, PcbParts DEF AfterRecv
<1>1. CASE ~k.gotfin
  <2>1. ClosedEvent(k, e) = k
    BY <1>1 DEF ClosedEvent
  <2> QED
    BY <2>1, <1>0, <1>1, MovedSelf DEF AfterRecv, AfterClosed, AtRest
<1>2. CASE k.gotfin
  <2>1. PICK z \in Nat : z = IF k.p.wdef = 0 THEN 0 ELSE k.p.wdef - 1
    BY <1>0
  <2> DEFINE a == [k EXCEPT !.p.wdef = z]
             r == ClosedEvent(k, e)
  <2>2. r = IF a.p.cb THEN http_recv_null(a, e) ELSE a
    BY <1>2, <2>1 DEF ClosedEvent
  <2>3. /\ a \in Contexts /\ a.h = k.h /\ a.net = k.net /\ SameFlags(k, a) /\ a.p.wdef = z
        /\ a.p.cb = k.p.cb /\ a.p.st = k.p.st /\ a.p.backlogpend = k.p.backlogpend
        /\ Moved(k, a) /\ (Good(k) /\ k.p.st # "free" => Good(a))
    BY <1>0, WindowFree
  <2> HIDE DEF a, r
  <2>4. CASE k.closed
    <3>1. Doomed(k)
      BY <2>4 DEF AfterRecv
    <3>2. Doomed(a) /\ ~a.p.cb /\ ~a.over
      BY <3>1, <2>3 DEF Doomed, SameFlags, AfterRecv
    <3>3. a.closed
      BY <3>2 DEF Doomed
    <3> QED
      BY <3>2, <3>3, <2>2, <2>3 DEF AfterClosed, r
  <2>5. CASE ~k.closed
    <3>1. Good(a) /\ a.p.wdef = 0 /\ a.p.st # "free" /\ ~a.closed /\ ~a.over
      BY <2>1, <2>3, <2>5, <1>2 DEF AfterRecv, SameFlags
    <3>2. CASE a.p.cb
      <4>1. Usable(a)
        BY <3>1, <3>2 DEF Usable
      <4>2. r = http_close_conn(a, e, "failed")
        BY <2>2, <3>2 DEF http_recv_null
      <4>3. Outcome(a, r) /\ Moved(a, r) /\ ~r.p.cb
        BY <4>1, <4>2, CloseConn
      <4>4. r \in Contexts /\ ~r.over /\ (r.closed => Doomed(r))
            /\ (~r.closed => Good(r) /\ r.p.wdef = 0 /\ r.p.st # "free")
        BY <4>3, <3>1 DEF Outcome, Flow
      <4>5. Moved(k, r)
        BY <4>3, <4>4, <2>3, <1>0, MovedTrans
      <4> QED
        BY <4>3, <4>4, <4>5 DEF AfterClosed, AtRest, r
    <3>3. CASE ~a.p.cb
      BY <3>1, <3>3, <2>2, <2>3 DEF AfterClosed, AtRest, r
    <3> QED
      BY <3>2, <3>3
  <2> QED
    BY <2>4, <2>5
<1> QED
  BY <1>1, <1>2

\* The end of tcp_input.
LEMMA FinishGood ==
  ASSUME NEW d, AfterClosed(d), NEW e, e.out \in Nat
  PROVE  LET f == [d EXCEPT !.inp = FALSE]
             g == tcp_input_delayed_close(f)
             r == IF g.over THEN g ELSE tcp_output(g, e)
         IN  Good(r) /\ AtRest(r.p) /\ Moved(d, r)
<1> DEFINE f == [d EXCEPT !.inp = FALSE]
           g == tcp_input_delayed_close(f)
           r == IF g.over THEN g ELSE tcp_output(g, e)
<1>0. d \in Contexts
  BY DEF AfterClosed
<1>1. /\ f \in Contexts /\ f.p = d.p /\ f.h = d.h /\ f.net = d.net /\ f.free = d.free /\ f.pend = d.pend
      /\ f.closed = d.closed /\ f.over = d.over
  BY <1>0 DEF Contexts
<1> HIDE DEF f
<1>2. Moved(d, f)
  <2>1. Moved(d, d)
    BY <1>0, MovedSelf
  <2> QED
    BY <2>1, <1>1 DEF Moved, Bufs, Others
<1>3. CASE d.closed
  <2>1. Doomed(f)
    BY <1>1, <1>3 DEF AfterClosed, Doomed
  <2>2. Good(g) /\ g.p = NoPcb /\ g.over /\ Moved(f, g)
    BY <2>1, DelayedClose
  <2> HIDE DEF g
  <2>3. Moved(d, g)
    BY <2>2, <1>0, <1>1, <1>2, MovedTrans DEF Good
  <2> QED
    BY <2>2, <2>3, Unused DEF AtRest, g, f
<1>4. CASE ~d.closed
  <2>1. g = f
    BY <1>1, <1>4 DEF tcp_input_delayed_close
  <2>2. ~g.over /\ r = tcp_output(f, e)
    BY <2>1, <1>1, <1>4 DEF AfterClosed
  <2>3. Good(f) /\ f.p.st # "free" /\ AtRest(f.p)
    BY <1>1, <1>4 DEF AfterClosed, Good
  <2> HIDE DEF g, r
  <2>4. /\ Good(r) /\ Moved(f, r) /\ r.p.st = f.p.st /\ r.p.cb = f.p.cb /\ r.p.wdef = f.p.wdef
    BY <2>2, <2>3, OutputGood
  <2>5. Moved(d, r)
    BY <2>4, <1>0, <1>1, <1>2, MovedTrans DEF Good
  <2>6. AtRest(r.p)
    BY <2>3, <2>4 DEF AtRest
  <2> QED
    BY <2>4, <2>5, <2>6 DEF r, g, f
<1> QED
  BY <1>3, <1>4

\* Nothing is lost before http_recv takes the buffer.
LEMMA MovedThenTaken ==
  ASSUME NEW k \in Contexts, NEW a \in Contexts, NEW r \in Contexts, Moved(k, a), Taken(a, r)
  PROVE  Taken(k, r)
<1>1. k.h.req \in Nat /\ a.h.req \in Nat /\ r.h.req \in Nat
  BY ContextParts, HttpParts
<1>2. Stage(k.h) \in Nat /\ Stage(a.h) \in Nat /\ Stage(r.h) \in Nat
  BY DEF Stage
<1> QED
  BY <1>1, <1>2 DEF Moved, Forward, Taken, Advanced

\* TCP_EVENT_SENT
LEMMA SentEventGood ==
  ASSUME NEW k0, NEW k, Processed(k0, k), NEW e, e.out \in Nat, e.w \in Nat
  PROVE  LET r == SentEvent(k, e)
         IN  /\ ~k.over => Outcome(k, r) /\ Moved(k, r)
             /\ ~(k.acked /\ k.p.cb) => r = k
<1> DEFINE r == SentEvent(k, e)
<1>0. k \in Contexts
  BY DEF Processed, Good
<1>1. CASE k.acked /\ k.p.cb
  <2>1. r = http_sent(k, e)
    BY <1>1 DEF SentEvent
  <2>2. ~Trailing /\ k.p.wdef # 0 => k.net.peerfin
    BY <1>1 DEF Processed, Window
  <2>3. Usable(k)
    BY <1>1, <2>2 DEF Usable, Processed
  <2> QED
    BY <2>1, <2>3, <1>1, SentGood
<1>2. CASE ~(k.acked /\ k.p.cb)
  <2>1. r = k
    BY <1>2 DEF SentEvent
  <2>2. k.closed => Doomed(k)
    BY <1>0 DEF Processed, Doomed, Good, ConnInv, HttpInv, PcbInv, WireInv, Open
  <2>3. ~k.over => Outcome(k, k)
    BY <1>0, <2>2 DEF Processed, Outcome, Flow
  <2> QED
    BY <2>1, <2>3, <1>0, MovedSelf
<1> QED
  BY <1>1, <1>2

\* TCP_EVENT_RECV, for a connection that TCP_EVENT_SENT has not closed with a RST.
LEMMA RecvEventGood ==
  ASSUME NEW k0, NEW k, Processed(k0, k), ~k.over, NEW a, Outcome(k, a), Moved(k, a), ~a.closed,
         ~Trailing /\ k.data => a = k,
         NEW e, e.out \in Nat, e.w \in Nat, e.parse \in {"ok", "more", "bad"}
  PROVE  LET r == RecvEvent(a, e)
         IN  /\ r.over => Good(r) /\ r.p = NoPcb
             /\ ~r.over => AfterRecv(r)
             /\ IF k.data THEN Taken(k, r) ELSE Moved(k, r)
<1> DEFINE r == RecvEvent(a, e)
<1>0. k \in Contexts /\ a \in Contexts /\ Good(a) /\ a.p.wdef = k.p.wdef /\ a.p.st # "free"
      /\ a.inp /\ ~a.over /\ a.data = k.data /\ a.gotfin = k.gotfin /\ a.p.wdef = Window(k)
      /\ a.net.peerfin = k.net.peerfin
  BY DEF Processed, Good, Outcome, Flow
<1>1. a.p.cb => k.p.cb /\ a.p.st = k.p.st
  BY DEF Outcome
<1>2. a.p.cb /\ ~a.gotfin => a.p.st = "ESTABLISHED"
  BY <1>0, <1>1 DEF Processed
<1>3. CASE ~k.data
  <2>1. r = a
    BY <1>0, <1>3 DEF RecvEvent
  <2>2. a.p.wdef = IF a.gotfin THEN 1 ELSE 0
    BY <1>0, <1>3 DEF Window
  <2>3. AfterRecv(a)
    BY <1>0, <1>2, <2>2 DEF AfterRecv
  <2> QED
    BY <2>1, <2>3, <1>0, <1>3
<1>4. CASE k.data /\ a.p.rxclosed
  <2> DEFINE f == a.free + 1
             c == [a EXCEPT !.free = f]
             d == tcp_abandon(c, TRUE)
  <2>1. r = [d EXCEPT !.over = TRUE]
    BY <1>0, <1>4 DEF RecvEvent
  <2>2. f \in Int
    BY <1>0, ContextParts
  <2> HIDE DEF f
  <2>3. /\ c \in Contexts /\ c.p = a.p /\ c.h = a.h /\ c.net = a.net /\ c.free = f /\ c.pend = a.pend
    BY <1>0, <2>2 DEF Contexts
  <2> HIDE DEF c
  <2>4. Good(c)
    BY <1>0, <2>3 DEF Good
  <2>5. ~Trailing /\ c.h.st = "served" => c.net.peerfin
    BY <2>3, <1>4 DEF Processed
  <2>6. Good(d) /\ d.p = NoPcb /\ Moved(c, d)
    BY <2>4, <2>5, Abandoned
  <2> HIDE DEF d, r
  <2>7. r \in Contexts /\ r.p = d.p /\ r.h = d.h /\ r.net = d.net /\ r.free = d.free /\ r.pend = d.pend /\ r.over
    BY <2>1, <2>6 DEF Good, Contexts
  <2>8. Good(r) /\ r.p = NoPcb /\ Moved(c, r)
    BY <2>6, <2>7 DEF Good, Moved, Bufs, Others
  <2>9. Taken(a, c)
    <3>1. Stage(a.h) \in Nat /\ a.h.req \in Nat /\ a.free \in Int
      BY <1>0, ContextParts, HttpParts DEF Stage
    <3> QED
      BY <3>1, <2>3 DEF Taken, Bufs, Others, Advanced, f
  <2>10. Taken(k, r)
    BY <1>0, <2>3, <2>7, <2>8, <2>9, MovedThenTaken, TakenThenMoved
  <2> QED
    BY <2>7, <2>8, <2>10, <1>4 DEF r
<1>5. CASE k.data /\ ~a.p.rxclosed
  <2>1. r = http_recv(a, e)
    BY <1>0, <1>5 DEF RecvEvent
  <2>2. a.p.cb
    <3>1. k.h.st # "none"
      BY <1>5 DEF Processed
    <3>2. Stage(k.h) >= 1
      BY <3>1 DEF Stage
    <3>3. Stage(k.h) \in Nat /\ Stage(a.h) \in Nat /\ Stage(k.h) <= Stage(a.h)
      BY DEF Stage, Moved, Forward
    <3>4. Stage(a.h) # 0
      BY <3>2, <3>3
    <3>5. a.h.st # "none"
      BY <3>4 DEF Stage
    <3>6. a.p.st # "SYN_RCVD" /\ a.p.st \notin Finishing
      BY <3>5, <1>0, <1>5 DEF Good, ConnInv, HttpInv, PcbInv
    <3>7. a.p.st \in Open
      <4>1. a.p.st \in States
        BY <1>0, ContextParts, PcbParts
      <4> QED
        BY <4>1, <3>6, <1>0 DEF States, Open, Finishing
    <3> QED
      BY <3>7, <1>0, <1>5 DEF Good, ConnInv, PcbInv
  <2>3. a.p.wdef \in {2, 3} /\ (a.p.wdef = 3 => a.net.peerfin) /\ (a.p.wdef - 2 = IF a.gotfin THEN 1 ELSE 0)
    BY <1>0, <1>5 DEF Window, Processed
  <2>4. /\ r \in Contexts /\ Flow(a, r) /\ r.net.peerfin = a.net.peerfin
        /\ r.closed => Doomed(r)
        /\ ~r.closed => Good(r) /\ r.p.wdef = a.p.wdef - 2 /\ r.p.st # "free"
        /\ r.p.cb => r.p.st = a.p.st
        /\ Taken(a, r)
    BY <2>1, <2>2, <2>3, <1>0, RecvGood
  <2> HIDE DEF r
  <2>5. Taken(k, r)
    BY <2>4, <1>0, MovedThenTaken
  <2>6. ~r.over /\ r.inp /\ r.gotfin = a.gotfin
    BY <2>4, <1>0 DEF Flow
  <2>7. AfterRecv(r)
    BY <2>2, <2>3, <2>4, <2>6, <1>2 DEF AfterRecv
  <2> QED
    BY <2>5, <2>6, <2>7, <1>5 DEF r
<1> QED
  BY <1>3, <1>4, <1>5

\* The callbacks of tcp_input.
LEMMA CallbacksGood ==
  ASSUME NEW k0, NEW k, Processed(k0, k), ~k.over,
         NEW e, e.out \in Nat, e.w \in Nat, e.parse \in {"ok", "more", "bad"}
  PROVE  LET r == Callbacks(k, e)
         IN  /\ Good(r) /\ AtRest(r.p)
             /\ Moved(k, r) \/ (k.data /\ Taken(k, r))
             /\ ~Trailing /\ k.data => Taken(k, r)
<1> DEFINE a1 == SentEvent(k, e)
           a == tcp_input_delayed_close(a1)
           b == IF a.over THEN a ELSE RecvEvent(a, e)
           d == IF b.over THEN b ELSE ClosedEvent(b, e)
           f == [d EXCEPT !.inp = FALSE]
           g == IF d.over THEN d ELSE tcp_input_delayed_close(f)
           r == Callbacks(k, e)
<1>0. k \in Contexts
  BY DEF Processed, Good
<1>1. r = IF g.over THEN g ELSE tcp_output(g, e)
  BY DEF Callbacks
<1>2. Outcome(k, a1) /\ Moved(k, a1) /\ (~(k.acked /\ k.p.cb) => a1 = k)
  BY SentEventGood
<1>3. ~Trailing /\ k.data => a1 = k
  BY <1>2 DEF Processed
<1> HIDE DEF a1, r
<1>4. CASE a1.closed
  <2>1. Doomed(a1) /\ a1 \in Contexts
    BY <1>2, <1>4 DEF Outcome
  <2>2. Good(a) /\ a.p = NoPcb /\ a.over /\ Moved(a1, a)
    BY <2>1, DelayedClose
  <2> HIDE DEF a
  <2>3. r = a
    BY <2>2, <1>1
  <2>4. Moved(k, a)
    BY <2>1, <2>2, <1>0, <1>2, MovedTrans DEF Good
  <2>5. ~(~Trailing /\ k.data)
    BY <1>3, <1>4 DEF Processed
  <2> QED
    BY <2>2, <2>3, <2>4, <2>5, Unused DEF AtRest, r
<1>5. CASE ~a1.closed
  <2>1. a = a1
    BY <1>5 DEF tcp_input_delayed_close
  <2>2. ~a.over
    BY <2>1, <1>2 DEF Outcome, Flow
  <2> HIDE DEF a
  <2>3. b = RecvEvent(a, e)
    BY <2>2
  <2>4. /\ b.over => Good(b) /\ b.p = NoPcb
        /\ ~b.over => AfterRecv(b)
        /\ IF k.data THEN Taken(k, b) ELSE Moved(k, b)
    BY <2>1, <2>3, <1>2, <1>3, <1>5, RecvEventGood
  <2> HIDE DEF b
  <2>5. CASE b.over
    <3>1. r = b
      BY <2>5, <1>1
    <3> QED
      BY <3>1, <2>4, <2>5, Unused DEF AtRest, r
  <2>6. CASE ~b.over
    <3>1. d = ClosedEvent(b, e)
      BY <2>6
    <3>2. AfterClosed(d) /\ Moved(b, d) /\ b \in Contexts
      BY <3>1, <2>4, <2>6, ClosedEventGood DEF AfterRecv
    <3> HIDE DEF d
    <3>3. ~d.over /\ d \in Contexts
      BY <3>2 DEF AfterClosed
    <3>4. Good(r) /\ AtRest(r.p) /\ Moved(d, r)
      BY <3>2, <3>3, <1>1, FinishGood
    <3>5. Moved(b, r) /\ r \in Contexts
      BY <3>2, <3>3, <3>4, MovedTrans DEF Good
    <3>6. IF k.data THEN Taken(k, r) ELSE Moved(k, r)
      <4>1. CASE k.data
        BY <4>1, <3>2, <3>5, <2>4, <1>0, TakenThenMoved
      <4>2. CASE ~k.data
        BY <4>2, <3>2, <3>5, <2>4, <1>0, MovedTrans
      <4> QED
        BY <4>1, <4>2
    <3> QED
      BY <3>4, <3>6 DEF r
  <2> QED
    BY <2>5, <2>6
<1> QED
  BY <1>4, <1>5

\* One step of a connection, seen from the others.
Stepped(k, r) ==
  /\ Good(r) /\ AtRest(r.p) /\ Others(r) = Others(k) /\ Advanced(k.h, r.h)
  /\ r.free >= k.free - 1
  /\ ~Trailing => Bufs(r) = Bufs(k)

\* A call that loses nothing is a step of the connection.
LEMMA MovedStep ==
  ASSUME NEW k \in Contexts, NEW r, Good(r), AtRest(r.p), Moved(k, r)
  PROVE  Stepped(k, r) /\ r.free >= k.free
<1>1. k.h.req \in Nat /\ r.h.req \in Nat /\ k.free \in Int /\ r.free \in Int
  BY ContextParts, HttpParts DEF Good
<1>2. Stage(k.h) \in Nat /\ Stage(r.h) \in Nat
  BY DEF Stage
<1> QED
  BY <1>1, <1>2 DEF Moved, Forward, Advanced, Stepped, Bufs

\* A buffer given back to the pool or taken from it.
LEMMA OtherFree ==
  ASSUME NEW k \in Contexts, NEW z \in Int
  PROVE  LET r == [k EXCEPT !.free = z]
         IN  /\ r \in Contexts /\ r.p = k.p /\ r.h = k.h /\ r.net = k.net /\ r.pend = k.pend
             /\ r.free = z /\ SameFlags(k, r) /\ (Good(k) => Good(r)) /\ Others(r) = Others(k)
<1> DEFINE r == [k EXCEPT !.free = z]
<1>1. /\ r \in Contexts /\ r.p = k.p /\ r.h = k.h /\ r.net = k.net /\ r.pend = k.pend
      /\ r.free = z /\ SameFlags(k, r)
  BY DEF Contexts, SameFlags
<1> HIDE DEF r
<1>2. (Good(k) => Good(r)) /\ Others(r) = Others(k)
  BY <1>1 DEF Good, Others
<1> QED
  BY <1>1, <1>2 DEF r

\* tcp_input for an active pcb.
LEMMA InputGood ==
  ASSUME NEW k0, Good(k0), AtRest(k0.p), Active(k0.p),
         ~k0.closed, ~k0.gotfin, ~k0.reset, ~k0.acked, ~k0.data, ~k0.over,
         NEW s, s.ack \in Int, s.data \in BOOLEAN, s.fin \in BOOLEAN,
         ~Trailing /\ s.data /\ s.seq = k0.p.rcv => ~k0.h.file /\ k0.h.st # "served",
         NEW e, e.out \in Nat, e.w \in Nat, e.parse \in {"ok", "more", "bad"}
  PROVE  Stepped(k0, tcp_input(k0, s, e))
<1> DEFINE k1 == [k0 EXCEPT !.inp = TRUE, !.free = @ - 1]
           k == tcp_process(k1, s, e)
           t == IF k.over THEN k
                ELSE IF k.reset THEN RemoveWithError(k)
                ELSE Callbacks(k, e)
           r == tcp_input(k0, s, e)
<1>0. k0 \in Contexts /\ k0.free \in Int /\ k0.h.req \in Nat /\ k0.h \in HttpStates
  BY ContextParts, HttpParts DEF Good
<1>1. r = IF k.data THEN t ELSE [t EXCEPT !.free = @ + 1]
  BY DEF tcp_input
<1>2. /\ k1 \in Contexts /\ k1.p = k0.p /\ k1.h = k0.h /\ k1.net = k0.net /\ k1.pend = k0.pend
      /\ k1.free = k0.free - 1 /\ k1.inp /\ k1.closed = k0.closed /\ k1.gotfin = k0.gotfin
      /\ k1.reset = k0.reset /\ k1.acked = k0.acked /\ k1.data = k0.data /\ k1.over = k0.over
  <2>1. PICK z \in Int : z = k0.free - 1
    BY <1>0
  <2>2. k1 = [k0 EXCEPT !.inp = TRUE, !.free = z]
    BY <2>1
  <2> HIDE DEF k1
  <2> QED
    BY <2>1, <2>2, <1>0 DEF Contexts
<1> HIDE DEF k1, r
<1>3. Good(k1) /\ Fresh(k1) /\ Active(k1.p) /\ (k1.p.cb => k1.p.st = "ESTABLISHED")
  BY <1>2 DEF Good, Fresh, AtRest
<1>4. Processed(k1, k)
  BY <1>2, <1>3, TcpProcessGood
<1> HIDE DEF k
<1>5. k \in Contexts /\ Good(k) /\ Moved(k1, k)
  BY <1>4 DEF Processed, Good
<1>6. /\ Good(t) /\ AtRest(t.p)
      /\ Moved(k, t) \/ (k.data /\ Taken(k, t))
      /\ ~Trailing /\ k.data => Taken(k, t)
  <2>1. CASE k.over
    BY <2>1, <1>4, <1>5, MovedSelf, Unused DEF Processed, AtRest
  <2>2. CASE ~k.over /\ k.reset
    <3>1. t = RemoveWithError(k) /\ ~k.data
      BY <2>2, <1>4 DEF Processed
    <3> HIDE DEF t
    <3> QED
      BY <3>1, <1>5, Removed, RemovedGood
  <2>3. CASE ~k.over /\ ~k.reset
    <3>1. t = Callbacks(k, e)
      BY <2>3
    <3> HIDE DEF t
    <3> QED
      BY <3>1, <2>3, <1>4, CallbacksGood
  <2> QED
    BY <2>1, <2>2, <2>3
<1> HIDE DEF t
<1>7. t \in Contexts /\ t.free \in Int /\ t.h.req \in Nat
  BY <1>6, ContextParts, HttpParts DEF Good
<1>8. Moved(k1, t) \/ (k.data /\ Taken(k1, t))
  <2>1. CASE Moved(k, t)
    BY <2>1, <1>2, <1>5, <1>7, MovedTrans
  <2>2. CASE k.data /\ Taken(k, t)
    BY <2>2, <1>2, <1>5, <1>7, MovedThenTaken
  <2> QED
    BY <2>1, <2>2, <1>6
<1>9. ~Trailing /\ k.data => Taken(k1, t)
  BY <1>2, <1>5, <1>6, <1>7, MovedThenTaken
<1>10. Others(k1) = Others(k0) /\ Bufs(k1) = Bufs(k0) - 1
  BY <1>0, <1>2 DEF Others, Bufs
<1>11. Others(t) = Others(k0) /\ Advanced(k0.h, t.h) /\ t.free >= k0.free - 1
  <2>1. CASE Moved(k1, t)
    <3>1. Stepped(k1, t) /\ t.free >= k1.free
      BY <2>1, <1>2, <1>6, MovedStep
    <3> QED
      BY <3>1, <1>2, <1>10 DEF Stepped
  <2>2. CASE Taken(k1, t)
    BY <2>2, <1>0, <1>2, <1>7, <1>10 DEF Taken, Advanced, Bufs
  <2> QED
    BY <2>1, <2>2, <1>8
<1>12. Bufs(k0) \in Int /\ Bufs(t) \in Int
  BY <1>0, <1>7 DEF Bufs
<1>13. CASE k.data
  <2>1. r = t
    BY <1>1, <1>13
  <2>2. ~Trailing => Bufs(t) = Bufs(k0)
    BY <1>9, <1>10, <1>12, <1>13 DEF Taken
  <2> QED
    BY <2>1, <2>2, <1>6, <1>11 DEF Stepped, r
<1>14. CASE ~k.data
  <2>1. PICK z \in Int : z = t.free + 1
    BY <1>7
  <2>2. r = [t EXCEPT !.free = z]
    BY <2>1, <1>1, <1>14
  <2>3. /\ Good(r) /\ r.p = t.p /\ r.h = t.h /\ r.free = z /\ Others(r) = Others(t)
    BY <2>2, <1>6, <1>7, OtherFree
  <2>4. Bufs(r) = Bufs(t) + 1 /\ Bufs(t) = Bufs(k1)
    BY <2>1, <2>3, <1>7, <1>8, <1>14 DEF Bufs, Moved
  <2> QED
    BY <2>1, <2>3, <2>4, <1>0, <1>6, <1>7, <1>10, <1>11, <1>12 DEF Stepped, r
<1> QED
  BY <1>13, <1>14

\* tcp_slowtmr's retransmission and poll timers.
LEMMA TickGood ==
  ASSUME NEW k, Good(k), AtRest(k.p), Active(k.p), ~k.closed,
         NEW rto \in BOOLEAN, NEW poll \in BOOLEAN, NEW e, e.out \in Nat, e.w \in Nat
  PROVE  Stepped(k, SlowTick(k, rto, poll, e)) /\ SlowTick(k, rto, poll, e).free >= k.free
<1> DEFINE a == IF rto THEN tcp_rexmit_rto(k, e) ELSE k
           b == IF a.p.cb THEN http_poll(a, e) ELSE a
           r == SlowTick(k, rto, poll, e)
<1>0. k \in Contexts /\ k.p.st # "free"
  BY DEF Good, Active
<1>1. r = IF ~poll THEN a ELSE IF b.p.st = "free" THEN b ELSE tcp_output(b, e)
  BY DEF SlowTick
<1>2. Good(a) /\ Moved(k, a) /\ AtRest(a.p) /\ a.p.st # "free" /\ ~a.closed
  <2>1. CASE rto
    <3> DEFINE x == [k EXCEPT !.p.uns = k.p.una, !.p.nrtx = Min({@ + 1, MaxRtx})]
    <3>1. a = tcp_output(x, e)
      BY <2>1 DEF tcp_rexmit_rto
    <3>2. /\ Good(x) /\ Moved(k, x) /\ SameFlags(k, x) /\ x.p.st = k.p.st /\ x.p.cb = k.p.cb
          /\ x.p.wdef = k.p.wdef
      BY <1>0, RexmitGood
    <3> HIDE DEF x, a
    <3>3. /\ Good(a) /\ Moved(x, a) /\ SameFlags(x, a) /\ a.p.st = x.p.st /\ a.p.cb = x.p.cb
          /\ a.p.wdef = x.p.wdef
      BY <3>1, <3>2, <1>0, OutputGood
    <3>4. Moved(k, a)
      BY <3>2, <3>3, <1>0, MovedTrans DEF Good
    <3> QED
      BY <3>2, <3>3, <3>4, <1>0 DEF AtRest, SameFlags
  <2>2. CASE ~rto
    BY <2>2, <1>0, MovedSelf
  <2> QED
    BY <2>1, <2>2
<1> HIDE DEF a, r
<1>3. CASE ~poll
  BY <1>0, <1>1, <1>2, <1>3, MovedStep DEF r
<1>4. CASE poll
  <2>1. Good(b) /\ Moved(a, b) /\ AtRest(b.p) /\ b.p.st # "free"
    <3>1. CASE a.p.cb
      <4>1. b = http_poll(a, e)
        BY <3>1
      <4>2. Usable(a)
        BY <1>2, <3>1 DEF Usable, AtRest
      <4> HIDE DEF b
      <4>3. Outcome(a, b) /\ Moved(a, b)
        BY <4>1, <4>2, PollGood
      <4> QED
        BY <4>3, <1>2, <3>1 DEF Outcome, AtRest
    <3>2. CASE ~a.p.cb
      BY <3>2, <1>2, MovedSelf DEF Good
    <3> QED
      BY <3>1, <3>2
  <2> HIDE DEF b
  <2>2. r = tcp_output(b, e)
    BY <2>1, <1>1, <1>4
  <2>3. Good(r) /\ Moved(b, r) /\ r.p.st = b.p.st /\ r.p.cb = b.p.cb /\ r.p.wdef = b.p.wdef
    BY <2>1, <2>2, OutputGood
  <2>4. Moved(a, r) /\ AtRest(r.p)
    BY <2>1, <2>3, <1>2, MovedTrans DEF AtRest, Good
  <2>5. Moved(k, r)
    BY <2>3, <2>4, <1>0, <1>2, MovedTrans DEF Good
  <2> QED
    BY <2>3, <2>4, <2>5, <1>0, MovedStep DEF r
<1> QED
  BY <1>3, <1>4

\* 2 MSL in TIME_WAIT are over.
LEMMA TimeWaitFreed ==
  ASSUME NEW k, Good(k), k.p.st = "TIME_WAIT"
  PROVE  Stepped(k, tcp_free(k)) /\ tcp_free(k).free >= k.free
<1>1. k \in Contexts /\ ~k.p.cb /\ ~k.p.backlogpend
  BY DEF Good, ConnInv, PcbInv, Open
<1>2. k.h.st # "live" /\ k.h = [NoHttpState EXCEPT !.st = k.h.st] /\ EndInv(k.h, k.net)
  BY <1>1 DEF Good, ConnInv, HttpInv, WireInv
<1> DEFINE r == tcp_free(k)
<1>3. Good(r) /\ r.p = NoPcb /\ Moved(k, r)
  BY <1>1, <1>2, FreedGood
<1> HIDE DEF r
<1>4. AtRest(r.p)
  BY <1>3, Unused DEF AtRest
<1> QED
  BY <1>1, <1>3, <1>4, MovedStep DEF r

(***************************************************************************)
(* The connections                                                         *)
(***************************************************************************)
\* The context a call starts with has the connection and its invariant.
LEMMA ContextOf ==
  ASSUME TypeInv, ConnsInv, NEW c \in Conns
  PROVE  LET k == Context(c)
         IN  /\ Good(k) /\ AtRest(k.p) /\ k.p = pcb[c] /\ k.h = hs[c] /\ k.net = net[c]
             /\ k.free = free /\ k.pend = pending
             /\ ~k.inp /\ ~k.closed /\ ~k.gotfin /\ ~k.reset /\ ~k.acked /\ ~k.data /\ ~k.over
<1> DEFINE k == Context(c)
<1>1. pcb[c] \in Pcbs /\ hs[c] \in HttpStates /\ net[c] \in Nets /\ free \in Int /\ pending \in Int
  BY Const DEF TypeInv
<1>2. /\ k \in Contexts /\ k.p = pcb[c] /\ k.h = hs[c] /\ k.net = net[c]
      /\ k.free = free /\ k.pend = pending
      /\ ~k.inp /\ ~k.closed /\ ~k.gotfin /\ ~k.reset /\ ~k.acked /\ ~k.data /\ ~k.over
  BY <1>1 DEF Context, Contexts
<1> HIDE DEF k
<1>3. Good(k) /\ AtRest(k.p)
  BY <1>2 DEF ConnsInv, Good
<1> QED
  BY <1>2, <1>3 DEF k

\* The outcomes of allocations and of the transmit path.
LEMMA EnvParts ==
  ASSUME NEW x, NEW e \in Env(x)
  PROVE  e.out \in Nat /\ e.w \in Nat /\ e.parse \in x
BY Const DEF Env

\* tcp_listen_input with a pcb for the connection.
LEMMA AnswerGood ==
  ASSUME TypeInv, ConnsInv, NEW c \in Conns, pcb[c].st = "free", hs[c].st = "none",
         NEW e, e.out \in Nat
  PROVE  Stepped(Context(c), Answer(c, e)) /\ Answer(c, e).free = free /\ Answer(c, e).h = hs[c]
<1> DEFINE n == NewPcb
           k == [Context(c) EXCEPT !.p = NewPcb, !.pend = @ + 1, !.net = NoNet]
           r == Answer(c, e)
           k0 == Context(c)
<1>0. /\ Good(k0) /\ k0 \in Contexts /\ AtRest(k0.p) /\ k0.p = pcb[c] /\ k0.h = hs[c] /\ k0.net = net[c]
      /\ k0.free = free /\ k0.pend = pending
  BY ContextOf DEF Good
<1>1. pcb[c] = NoPcb /\ hs[c] \in HttpStates /\ hs[c] = [NoHttpState EXCEPT !.st = "none"]
      /\ pending \in Int /\ free \in Int
  BY Const DEF ConnsInv, ConnInv, PcbInv, HttpInv, TypeInv
<1>2. hs[c].req = 0 /\ ~hs[c].file /\ hs[c].left = 0
  BY <1>1, EndedIs
<1>3. /\ n \in Pcbs /\ n.st = "SYN_RCVD" /\ n.una = 0 /\ n.uns = 0 /\ n.nxt = 0 /\ n.lbb = 1
      /\ ~n.fin /\ ~n.closepend /\ ~n.rxclosed /\ n.backlogpend /\ ~n.cb /\ n.wdef = 0
  BY Unused DEF NewPcb, Pcbs, States
<1>4. NoNet \in Nets /\ NoNet.fin = 0 /\ NoNet.rst = FALSE /\ NoNet.peerfin = FALSE
  BY DEF NoNet, Nets
<1>5. PICK z \in Int : z = k0.pend + 1
  BY <1>0, <1>1
<1>6. k = [k0 EXCEPT !.p = n, !.pend = z, !.net = NoNet]
  BY <1>5
<1>7. r = IF e.mem THEN tcp_output(k, e) ELSE tcp_abandon(k, FALSE)
  BY DEF Answer
<1> HIDE DEF n, k, r, k0
<1>8. k \in Contexts /\ k.p = n /\ k.h = hs[c] /\ k.net = NoNet /\ k.free = free /\ k.pend = pending + 1
  BY <1>0, <1>3, <1>4, <1>5, <1>6 DEF Contexts
<1>9. PcbInv(n) /\ HttpInv(n, hs[c]) /\ WireInv(n, hs[c], NoNet)
  <2>1. PcbInv(n)
    BY <1>3 DEF PcbInv, Open, Finishing
  <2>2. HttpInv(n, hs[c])
    BY <1>1, <1>2, <1>3, Const DEF HttpInv
  <2>3. WireInv(n, hs[c], NoNet)
    BY <1>3, <1>4 DEF WireInv, EndInv
  <2> QED
    BY <2>1, <2>2, <2>3
<1>10. Good(k) /\ AtRest(k.p) /\ k.p.st # "free"
  BY <1>3, <1>8, <1>9 DEF Good, ConnInv, AtRest
<1>11. Moved(k0, k)
  <2>1. Stage(hs[c]) \in Nat
    BY DEF Stage
  <2> QED
    BY <2>1, <1>0, <1>1, <1>2, <1>3, <1>8, Unused DEF Moved, Forward, Bufs, Others
<1>12. Good(r) /\ Moved(k, r) /\ AtRest(r.p) /\ r.h = hs[c]
  <2>1. CASE e.mem
    BY <2>1, <1>7, <1>8, <1>10, OutputGood DEF AtRest
  <2>2. CASE ~e.mem
    BY <2>2, <1>3, <1>7, <1>8, <1>10, Abandoned, Unused DEF AtRest
  <2> QED
    BY <2>1, <2>2
<1>13. Moved(k0, r)
  BY <1>0, <1>8, <1>11, <1>12, MovedTrans DEF Good
<1>14. r.free = free
  BY <1>0, <1>1, <1>2, <1>12, <1>13, ContextParts DEF Moved, Bufs, Good
<1> QED
  BY <1>0, <1>12, <1>13, <1>14, MovedStep DEF r, k0

\* A request queue that changes changes the number of queued buffers by as much.
LEMMA QueuedStep ==
  ASSUME NEW f \in [Conns -> HttpStates], NEW g \in [Conns -> HttpStates], NEW c \in Conns,
         f[c].req <= ReqQueueLen, g[c].req <= ReqQueueLen,
         \A d \in Conns \ {c} : g[d] = f[d]
  PROVE  /\ Cardinality(Queued(f)) \in Nat
         /\ Cardinality(Queued(g)) = Cardinality(Queued(f)) - f[c].req + g[c].req
<1> DEFINE Q == 1 .. ReqQueueLen
           rest == {b \in (Conns \ {c}) \X Q : b[2] <= f[b[1]].req}
           mine(n) == {c} \X (1 .. n)
<1>1. f[c].req \in Nat /\ g[c].req \in Nat
  BY HttpParts
<1>2. IsFiniteSet(Q) /\ IsFiniteSet(Conns \ {c})
  BY Const, FS_Interval, FS_RemoveElement
<1>3. IsFiniteSet((Conns \ {c}) \X Q)
  BY <1>2, FS_Product
<1>4. IsFiniteSet(rest) /\ Cardinality(rest) \in Nat
  <2>1. rest \in SUBSET ((Conns \ {c}) \X Q)
    OBVIOUS
  <2> HIDE DEF rest
  <2> QED
    BY <1>3, <2>1, FS_Subset, FS_CardinalityType
<1>5. ASSUME NEW n \in Nat
      PROVE  IsFiniteSet(mine(n)) /\ Cardinality(mine(n)) = n
  <2>1. IsFiniteSet(1 .. n) /\ Cardinality(1 .. n) = n
    BY FS_Interval
  <2>2. IsFiniteSet({c}) /\ Cardinality({c}) = 1
    BY FS_Singleton
  <2>3. IsFiniteSet({c} \X (1 .. n)) /\ Cardinality({c} \X (1 .. n)) = Cardinality({c}) * Cardinality(1 .. n)
    BY <2>1, <2>2, FS_Product
  <2> QED
    BY <2>1, <2>2, <2>3
<1>6. ASSUME NEW h \in [Conns -> HttpStates], h[c].req <= ReqQueueLen,
             \A d \in Conns \ {c} : h[d] = f[d]
      PROVE  Cardinality(Queued(h)) = Cardinality(rest) + h[c].req
  <2>0. h[c].req \in Nat
    BY HttpParts
  <2>1. Queued(h) = rest \cup mine(h[c].req)
    <3>1. ASSUME NEW b \in Queued(h) PROVE b \in rest \cup mine(h[c].req)
      <4>1. PICK d \in Conns, i \in Q : b = <<d, i>>
        BY DEF Queued
      <4>2. i <= h[d].req /\ i \in Int
        BY <3>1, <4>1 DEF Queued
      <4>3. CASE d = c
        BY <4>1, <4>2, <4>3, <2>0
      <4>4. CASE d # c
        BY <4>1, <4>2, <4>4, <1>6
      <4> QED
        BY <4>3, <4>4
    <3>2. ASSUME NEW b \in rest PROVE b \in Queued(h)
      BY <1>6 DEF Queued
    <3>3. ASSUME NEW b \in mine(h[c].req) PROVE b \in Queued(h)
      <4>1. PICK i \in 1 .. h[c].req : b = <<c, i>>
        OBVIOUS
      <4>2. i \in Q /\ i <= h[c].req
        BY <1>6, <2>0, Const
      <4> QED
        BY <4>1, <4>2 DEF Queued
    <3> HIDE DEF rest, mine
    <3> QED
      BY <3>1, <3>2, <3>3
  <2>2. rest \cap mine(h[c].req) = {}
    OBVIOUS
  <2> HIDE DEF rest, mine
  <2>3. Cardinality(Queued(h)) = Cardinality(rest) + Cardinality(mine(h[c].req)) - Cardinality({})
    BY <2>0, <2>1, <2>2, <1>4, <1>5, FS_Union
  <2> QED
    BY <2>0, <2>3, <1>4, <1>5, FS_EmptySet
<1>7. Cardinality(Queued(f)) = Cardinality(rest) + f[c].req
  BY <1>6
<1>8. Cardinality(Queued(g)) = Cardinality(rest) + g[c].req
  BY <1>6
<1> QED
  BY <1>1, <1>4, <1>7, <1>8

\* Half open connections of a table of pcbs.
Half(p) == {c \in Conns : p[c].backlogpend}

\* One pcb that changes changes the number of half open ones by itself only.
LEMMA HalfStep ==
  ASSUME NEW p, NEW q, NEW c \in Conns, Half(q) \ {c} = Half(p) \ {c}
  PROVE  /\ Cardinality(Half(p)) \in Nat
         /\ Cardinality(Half(q)) = Cardinality(Half(p)) - (IF p[c].backlogpend THEN 1 ELSE 0)
                                     + (IF q[c].backlogpend THEN 1 ELSE 0)
<1>1. IsFiniteSet(Half(p)) /\ Cardinality(Half(p)) \in Nat
  <2>1. Half(p) \in SUBSET Conns
    BY DEF Half
  <2> QED
    BY <2>1, Const, FS_Subset, FS_CardinalityType
<1>2. CASE p[c].backlogpend /\ ~q[c].backlogpend
  <2>1. c \in Half(p) /\ c \notin Half(q)
    BY <1>2 DEF Half
  <2>2. Half(q) = Half(p) \ {c}
    BY <2>1
  <2>3. Cardinality(Half(q)) = Cardinality(Half(p)) - 1
    BY <2>1, <2>2, <1>1, FS_RemoveElement
  <2> QED
    BY <2>3, <1>1, <1>2
<1>3. CASE ~p[c].backlogpend /\ q[c].backlogpend
  <2>1. c \in Half(q) /\ c \notin Half(p)
    BY <1>3 DEF Half
  <2>2. Half(q) = Half(p) \cup {c}
    BY <2>1
  <2>3. Cardinality(Half(q)) = Cardinality(Half(p)) + 1
    BY <2>1, <2>2, <1>1, FS_AddElement
  <2> QED
    BY <2>3, <1>1, <1>3
<1>4. CASE p[c].backlogpend <=> q[c].backlogpend
  <2>0. c \in Half(p) <=> c \in Half(q)
    BY <1>4 DEF Half
  <2>1. Half(q) = Half(p)
    BY <2>0
  <2> QED
    BY <2>1, <1>1, <1>4
<1> QED
  BY <1>2, <1>3, <1>4

\* A call for one connection keeps the invariant.
LEMMA AppliedKeeps ==
  ASSUME IInv, NEW c \in Conns, NEW k, Stepped(Context(c), k), Apply(c, k), k.free >= 0,
         pcb[c].st # "free" \/ pending < Backlog
  PROVE  IInv'
<1> USE DEF Apply
<1>0. TypeInv /\ ConnsInv /\ PendingExact /\ (~Trailing => PoolConserved)
  BY DEF IInv
<1>1. /\ Good(Context(c)) /\ Context(c).p = pcb[c] /\ Context(c).h = hs[c] /\ Context(c).net = net[c]
      /\ Context(c).free = free /\ Context(c).pend = pending
  BY <1>0, ContextOf
<1>2. /\ k \in Contexts /\ k.p \in Pcbs /\ k.h \in HttpStates /\ k.net \in Nets /\ k.free \in Int
      /\ k.pend \in Int /\ ConnInv(k.p, k.h, k.net) /\ AtRest(k.p)
  BY ContextParts DEF Stepped, Good
<1>3. pcb \in [Conns -> Pcbs] /\ hs \in [Conns -> HttpStates] /\ net \in [Conns -> Nets]
      /\ pending \in Nat /\ pending <= Backlog /\ free \in Nat
  BY <1>0, Const DEF TypeInv
<1>4. /\ pcb' \in [Conns -> Pcbs] /\ hs' \in [Conns -> HttpStates] /\ net' \in [Conns -> Nets]
      /\ got' = got /\ free' \in Nat
      /\ pcb'[c] = k.p /\ hs'[c] = k.h /\ net'[c] = k.net
      /\ \A d \in Conns \ {c} : pcb'[d] = pcb[d] /\ hs'[d] = hs[d] /\ net'[d] = net[d]
  BY <1>2, <1>3
<1>5. ConnsInv'
  <2> SUFFICES ASSUME NEW d \in Conns PROVE ConnInv(pcb'[d], hs'[d], net'[d]) /\ AtRest(pcb'[d])
    BY DEF ConnsInv
  <2>1. CASE d = c
    BY <2>1, <1>2, <1>4
  <2>2. CASE d # c
    BY <2>2, <1>0, <1>4 DEF ConnsInv
  <2> QED
    BY <2>1, <2>2
<1>6. k.pend - (IF k.p.backlogpend THEN 1 ELSE 0) = pending - (IF pcb[c].backlogpend THEN 1 ELSE 0)
  BY <1>1 DEF Stepped, Others
<1>7. pending' = Cardinality(Half(pcb'))
  <2>1. pending = Cardinality(Half(pcb))
    BY <1>0 DEF PendingExact, Half
  <2>2. Half(pcb') \ {c} = Half(pcb) \ {c}
    BY <1>4 DEF Half
  <2>3. /\ Cardinality(Half(pcb)) \in Nat
        /\ Cardinality(Half(pcb')) = Cardinality(Half(pcb)) - (IF pcb[c].backlogpend THEN 1 ELSE 0)
                                     + (IF pcb'[c].backlogpend THEN 1 ELSE 0)
    BY <2>2, HalfStep
  <2> QED
    BY <2>1, <2>3, <1>2, <1>4, <1>6
<1>8. PendingExact'
  <2>1. \A d \in Conns : pcb'[d].backlogpend <=> pcb'[d].st = "SYN_RCVD"
    BY <1>5 DEF ConnsInv, ConnInv, PcbInv
  <2> QED
    BY <2>1, <1>7 DEF PendingExact, Half
<1>9. pending' \in 0 .. Backlog
  <2>1. pending' \in Nat
    <3>2. Half(pcb') \in SUBSET Conns
      BY DEF Half
    <3> QED
      BY <3>2, <1>7, Const, FS_Subset, FS_CardinalityType
  <2>2. k.p.backlogpend /\ pcb[c].st # "free" => pcb[c].backlogpend
    <3> SUFFICES ASSUME k.p.backlogpend, pcb[c].st # "free" PROVE pcb[c].backlogpend
      OBVIOUS
    <3>1. k.p.st = "SYN_RCVD" /\ k.h.st = "none"
      BY <1>2 DEF ConnInv, PcbInv, HttpInv
    <3>2. Stage(hs[c]) <= 0
      BY <3>1, <1>1 DEF Stepped, Advanced, Stage
    <3>3. hs[c].st = "none"
      BY <3>2 DEF Stage
    <3>4. pcb[c].st = "SYN_RCVD"
      BY <3>3, <1>0 DEF ConnsInv, ConnInv, HttpInv
    <3> QED
      BY <3>4, <1>0 DEF PendingExact
  <2>3. pending' <= pending \/ (pending' <= pending + 1 /\ pending < Backlog)
    BY <2>2, <1>2, <1>3, <1>6
  <2> QED
    BY <2>1, <2>3, <1>3, Const
<1>10. ~Trailing => PoolConserved'
  <2> SUFFICES ASSUME ~Trailing PROVE PoolConserved'
    OBVIOUS
  <2>1. k.free + k.h.req = free + hs[c].req
    BY <1>1 DEF Stepped, Bufs
  <2>2. hs[c].req <= ReqQueueLen /\ k.h.req <= ReqQueueLen
    BY <1>0, <1>2 DEF ConnsInv, ConnInv, HttpInv
  <2>3. hs'[c] = k.h /\ free' = k.free /\ \A d \in Conns \ {c} : hs'[d] = hs[d]
    BY <1>4
  <2>4. /\ Cardinality(Queued(hs)) \in Nat
        /\ Cardinality(Queued(hs')) = Cardinality(Queued(hs)) - hs[c].req + k.h.req
    BY <2>2, <2>3, <1>3, <1>4, QueuedStep
  <2>5. free + Cardinality(Queued(hs)) = PoolSize
    BY <1>0 DEF PoolConserved
  <2>6. hs[c].req \in Nat /\ k.h.req \in Nat
    BY <1>2, <1>3, HttpParts
  <2>7. free' + Cardinality(Queued(hs')) = PoolSize
    BY <2>1, <2>3, <2>4, <2>5, <2>6, <1>2, <1>3, Const
  <2> QED
    BY <2>7 DEF PoolConserved, Queued
<1>11. TypeInv'
  BY <1>3, <1>4, <1>9, <1>0 DEF TypeInv
<1> QED
  BY <1>5, <1>8, <1>10, <1>11 DEF IInv

\* tcp_alloc without a free pcb: the pending FINs of all connections, the victim
\* and the new connection.
LEMMA FullKeeps ==
  ASSUME IInv, NEW c \in Conns, ListenInputFull(c)
  PROVE  IInv' /\ hs' = hs /\ free' = free
<1>0. TypeInv /\ ConnsInv /\ PendingExact /\ (~Trailing => PoolConserved)
  BY DEF IInv
<1>1. pcb[c].st = "free" /\ hs[c].st = "none" /\ pending < Backlog
  BY DEF ListenInputFull, SynArrives
<1>2. PICK e \in Control :
          LET r == [d \in Conns |-> RetryClose(Context(d), e)]
              p == [d \in Conns |-> r[d].p]
              n == [d \in Conns |-> r[d].net]
          IN  \/ /\ Victims(p) = {}
                 /\ pcb' = p /\ net' = n
                 /\ UNCHANGED <<hs, got, free, pending>>
              \/ \E v \in Victims(p) :
                    LET dead == tcp_abandon([r[v] EXCEPT !.p = p[v]], FALSE)
                        k == Answer(c, e)
                    IN  /\ pcb' = [p EXCEPT ![v] = dead.p, ![c] = k.p]
                        /\ net' = [n EXCEPT ![c] = k.net]
                        /\ hs' = [hs EXCEPT ![v] = dead.h]
                        /\ free' = dead.free
                        /\ pending' = k.pend
                        /\ UNCHANGED got
  BY DEF ListenInputFull
<1> DEFINE r == [d \in Conns |-> RetryClose(Context(d), e)]
           p == [d \in Conns |-> r[d].p]
           n == [d \in Conns |-> r[d].net]
<1>3. e.out \in Nat
  BY EnvParts DEF Control, Quiet
<1>4. pcb \in [Conns -> Pcbs] /\ hs \in [Conns -> HttpStates] /\ net \in [Conns -> Nets]
      /\ pending \in Nat /\ pending <= Backlog /\ free \in Nat /\ got \in [Conns -> Nat]
  BY <1>0, Const DEF TypeInv
<1>5. ASSUME NEW d \in Conns
      PROVE  /\ Good(r[d]) /\ r[d] \in Contexts /\ r[d].h = hs[d] /\ r[d].free = free
             /\ p[d] = r[d].p /\ n[d] = r[d].net
             /\ p[d] \in Pcbs /\ n[d] \in Nets /\ ConnInv(p[d], hs[d], n[d]) /\ AtRest(p[d])
             /\ p[d].backlogpend = pcb[d].backlogpend
             /\ ~pcb[d].closepend => p[d] = pcb[d] /\ n[d] = net[d]
  <2> DEFINE x == Context(d)
             y == RetryClose(x, e)
  <2>1. /\ Good(x) /\ AtRest(x.p) /\ x.p = pcb[d] /\ x.h = hs[d] /\ x.net = net[d]
        /\ x.free = free /\ x.pend = pending
    BY <1>0, ContextOf
  <2> HIDE DEF x
  <2>2. /\ Good(y) /\ y.h = x.h /\ y.free = x.free /\ y.p.wdef = x.p.wdef /\ y.p.cb = x.p.cb
        /\ y.p.backlogpend = x.p.backlogpend /\ (~x.p.closepend => y = x)
    BY <2>1, <1>3, RetryGood
  <2>3. r[d] = y
    BY DEF x
  <2>4. p[d] = r[d].p /\ n[d] = r[d].net
    OBVIOUS
  <2> HIDE DEF y, r, p, n
  <2>5. AtRest(y.p)
    <3>1. x.p.cb => ~x.p.closepend
      BY <2>1 DEF Good, ConnInv, PcbInv
    <3> QED
      BY <3>1, <2>1, <2>2 DEF AtRest
  <2>6. y \in Contexts /\ y.p \in Pcbs /\ y.net \in Nets /\ ConnInv(y.p, y.h, y.net)
    BY <2>2, ContextParts DEF Good
  <2> QED
    BY <2>1, <2>2, <2>3, <2>4, <2>5, <2>6
<1>6. p \in [Conns -> Pcbs] /\ n \in [Conns -> Nets]
  <2>1. \A d \in Conns : r[d].p \in Pcbs /\ r[d].net \in Nets
    BY <1>5, ContextParts
  <2> HIDE DEF r
  <2> QED
    BY <2>1
<1>7. Half(p) = Half(pcb)
  <2>1. \A d \in Conns : p[d].backlogpend = pcb[d].backlogpend
    BY <1>5
  <2> HIDE DEF p
  <2> QED
    BY <2>1 DEF Half
<1>8. \/ /\ pcb' = p /\ net' = n /\ UNCHANGED <<hs, got, free, pending>>
      \/ \E v \in Victims(p) :
            LET dead == tcp_abandon([r[v] EXCEPT !.p = p[v]], FALSE)
                k == Answer(c, e)
            IN  /\ pcb' = [p EXCEPT ![v] = dead.p, ![c] = k.p]
                /\ net' = [n EXCEPT ![c] = k.net]
                /\ hs' = [hs EXCEPT ![v] = dead.h]
                /\ free' = dead.free
                /\ pending' = k.pend
                /\ UNCHANGED got
  BY <1>2
<1> HIDE DEF r, p, n
<1>9. CASE pcb' = p /\ net' = n /\ UNCHANGED <<hs, got, free, pending>>
  <2>1. TypeInv'
    BY <1>0, <1>6, <1>9 DEF TypeInv
  <2>2. ConnsInv'
    BY <1>5, <1>9 DEF ConnsInv
  <2>3. PendingExact'
    <3>1. pending = Cardinality(Half(pcb))
      BY <1>0 DEF PendingExact, Half
    <3>2. pending' = Cardinality(Half(pcb'))
      BY <3>1, <1>7, <1>9
    <3>3. \A d \in Conns : pcb'[d].backlogpend <=> pcb'[d].st = "SYN_RCVD"
      BY <2>2 DEF ConnsInv, ConnInv, PcbInv
    <3> QED
      BY <3>2, <3>3 DEF PendingExact, Half
  <2>4. ~Trailing => PoolConserved'
    BY <1>0, <1>9 DEF PoolConserved, Queued
  <2> QED
    BY <2>1, <2>2, <2>3, <2>4, <1>9 DEF IInv
<1>10. ASSUME NEW v \in Victims(p),
              LET dead == tcp_abandon([r[v] EXCEPT !.p = p[v]], FALSE)
                  k == Answer(c, e)
              IN  /\ pcb' = [p EXCEPT ![v] = dead.p, ![c] = k.p]
                  /\ net' = [n EXCEPT ![c] = k.net]
                  /\ hs' = [hs EXCEPT ![v] = dead.h]
                  /\ free' = dead.free
                  /\ pending' = k.pend
                  /\ UNCHANGED got
       PROVE  IInv' /\ hs' = hs /\ free' = free
  <2> DEFINE a == [r[v] EXCEPT !.p = p[v]]
             dead == tcp_abandon(a, FALSE)
             k == Answer(c, e)
  <2>1. v \in Conns /\ p[v].st \in {"TIME_WAIT", "LAST_ACK", "CLOSING"}
    BY DEF Victims
  <2>2. /\ Good(r[v]) /\ r[v] \in Contexts /\ r[v].h = hs[v] /\ r[v].free = free /\ p[v] = r[v].p
        /\ n[v] = r[v].net /\ ConnInv(p[v], hs[v], n[v])
        /\ p[v].backlogpend = pcb[v].backlogpend
    BY <1>5, <2>1
  <2>3. a = r[v]
    BY <2>2 DEF Contexts
  <2>4. ~p[v].cb /\ ~p[v].backlogpend
    BY <2>1, <2>2 DEF ConnInv, PcbInv, Open
  <2>5. pcb[c] = NoPcb
    BY <1>0, <1>1 DEF ConnsInv, ConnInv, PcbInv
  <2>6. v # c
    <3>1. p[c] = pcb[c]
      BY <1>5, <2>5, Unused
    <3> QED
      BY <3>1, <2>1, <1>1
  <2> HIDE DEF a
  <2>7. /\ Good(dead) /\ dead.p = NoPcb /\ Moved(r[v], dead)
        /\ dead.h = hs[v]
    BY <2>2, <2>3, <2>4, Abandoned
  <2>8. dead.free = free
    <3>1. hs[v].req \in Nat /\ dead.free \in Int
      BY <1>4, <2>1, <2>7, HttpParts, ContextParts DEF Good
    <3>2. dead.free + hs[v].req = free + hs[v].req
      <4>1. Bufs(dead) = Bufs(r[v]) /\ dead.h.req = hs[v].req /\ r[v].h.req = hs[v].req
        BY <2>2, <2>7 DEF Moved
      <4> QED
        BY <4>1, <2>2 DEF Bufs
    <3> HIDE DEF dead
    <3> QED
      BY <3>1, <3>2, <1>4
  <2>9. Stepped(Context(c), k) /\ k.free = free /\ k.h = hs[c]
    BY <1>0, <1>1, <1>3, AnswerGood
  <2>10. /\ Context(c).p = pcb[c] /\ Context(c).pend = pending
    BY <1>0, ContextOf
  <2>11. pcb' = [p EXCEPT ![v] = dead.p, ![c] = k.p] /\ net' = [n EXCEPT ![c] = k.net]
         /\ hs' = [hs EXCEPT ![v] = dead.h] /\ free' = dead.free /\ pending' = k.pend /\ got' = got
    BY <1>10 DEF a
  <2> HIDE DEF dead, k
  <2>12. hs' = hs /\ free' = free
    BY <2>7, <2>8, <2>11, <1>4
  <2>13. /\ k \in Contexts /\ k.p \in Pcbs /\ k.net \in Nets /\ k.pend \in Int
         /\ ConnInv(k.p, hs[c], k.net) /\ AtRest(k.p)
    BY <2>9, ContextParts DEF Stepped, Good
  <2>14. ConnInv(NoPcb, hs[v], n[v])
    <3>1. EndInv(hs[v], n[v]) /\ hs[v].st # "live" /\ hs[v] = [NoHttpState EXCEPT !.st = hs[v].st]
      BY <2>2, <2>4 DEF ConnInv, WireInv, HttpInv
    <3>2. hs[v].req = 0 /\ ~hs[v].file /\ hs[v].left = 0
      BY <3>1, <1>4, <2>1, EndedIs
    <3>3. PcbInv(NoPcb)
      BY Unused DEF PcbInv, Open, Finishing
    <3>4. HttpInv(NoPcb, hs[v])
      BY <3>1, <3>2, Unused, Const DEF HttpInv
    <3>5. WireInv(NoPcb, hs[v], n[v])
      BY <3>1, Unused DEF WireInv
    <3> QED
      BY <3>3, <3>4, <3>5 DEF ConnInv
  <2>15. /\ pcb' \in [Conns -> Pcbs] /\ net' \in [Conns -> Nets]
         /\ pcb'[c] = k.p /\ net'[c] = k.net /\ pcb'[v] = NoPcb /\ net'[v] = n[v]
         /\ \A d \in Conns \ {c, v} : pcb'[d] = p[d] /\ net'[d] = n[d]
    BY <1>6, <2>1, <2>6, <2>7, <2>11, <2>13, Unused
  <2>16. ConnsInv'
    <3> SUFFICES ASSUME NEW d \in Conns PROVE ConnInv(pcb'[d], hs'[d], net'[d]) /\ AtRest(pcb'[d])
      BY DEF ConnsInv
    <3>1. CASE d = c
      BY <3>1, <2>12, <2>13, <2>15
    <3>2. CASE d = v
      BY <3>2, <2>12, <2>14, <2>15, Unused DEF AtRest
    <3>3. CASE d \notin {c, v}
      BY <3>3, <2>12, <2>15, <1>5
    <3> QED
      BY <3>1, <3>2, <3>3
  <2>17. pending' = Cardinality(Half(pcb')) /\ pending' \in 0 .. Backlog
    <3>1. pending = Cardinality(Half(pcb))
      BY <1>0 DEF PendingExact, Half
    <3>2. Half(pcb') \ {c} = Half(p) \ {c}
      <4>1. ASSUME NEW d \in Conns \ {c} PROVE d \in Half(pcb') <=> d \in Half(p)
        <5>1. CASE d = v
          BY <5>1, <2>4, <2>15, Unused DEF Half
        <5>2. CASE d # v
          BY <5>2, <2>15 DEF Half
        <5> QED
          BY <5>1, <5>2
      <4>2. Half(pcb') \subseteq Conns /\ Half(p) \subseteq Conns
        BY DEF Half
      <4> QED
        BY <4>1, <4>2
    <3>3. /\ Cardinality(Half(pcb)) \in Nat
          /\ Cardinality(Half(pcb')) = Cardinality(Half(pcb)) - (IF pcb[c].backlogpend THEN 1 ELSE 0)
                                       + (IF pcb'[c].backlogpend THEN 1 ELSE 0)
      BY <3>2, <1>7, HalfStep
    <3>4. ~pcb[c].backlogpend
      BY <2>5, Unused
    <3>5. k.pend - (IF k.p.backlogpend THEN 1 ELSE 0) = pending
      BY <3>4, <2>9, <2>10, <1>4 DEF Stepped, Others
    <3> QED
      BY <3>1, <3>3, <3>4, <3>5, <2>11, <2>13, <2>15, <1>1, <1>4, Const
  <2>18. PendingExact'
    <3>1. \A d \in Conns : pcb'[d].backlogpend <=> pcb'[d].st = "SYN_RCVD"
      BY <2>16 DEF ConnsInv, ConnInv, PcbInv
    <3> QED
      BY <3>1, <2>17 DEF PendingExact, Half
  <2>19. TypeInv'
    BY <1>4, <2>11, <2>12, <2>15, <2>17 DEF TypeInv
  <2>20. ~Trailing => PoolConserved'
    BY <1>0, <2>12 DEF PoolConserved, Queued
  <2> QED
    BY <2>12, <2>16, <2>18, <2>19, <2>20 DEF IInv
<1> QED
  BY <1>8, <1>9, <1>10

\* The step c takes with the context k.
StepOf(c, k) == /\ Stepped(Context(c), k) /\ Apply(c, k) /\ k.free >= 0
                /\ pcb[c].st # "free" \/ pending < Backlog

\* tcp_input is a step of the connection the segment is for.
LEMMA SegmentStep ==
  ASSUME IInv, NEW c \in Conns, Segment(c)
  PROVE  \E k : StepOf(c, k)
<1>0. TypeInv /\ ConnsInv
  BY DEF IInv
<1>1. free > 0 /\ Active(pcb[c]) /\ free \in Nat /\ pcb[c] \in Pcbs /\ got[c] \in Nat
  BY <1>0 DEF Segment, TypeInv
<1>2. PICK s \in {t \in Segments(c) : Sendable(c, t)} :
        \E e \in EnvOf(s) : Apply(c, tcp_input(Context(c), s, e))
  BY DEF Segment
<1>3. PICK e \in EnvOf(s) : Apply(c, tcp_input(Context(c), s, e))
  BY <1>2
<1> DEFINE k0 == Context(c)
           k == tcp_input(Context(c), s, e)
<1>4. /\ Good(k0) /\ AtRest(k0.p) /\ k0.p = pcb[c] /\ k0.h = hs[c] /\ k0.net = net[c] /\ k0.free = free
      /\ ~k0.closed /\ ~k0.gotfin /\ ~k0.reset /\ ~k0.acked /\ ~k0.data /\ ~k0.over
  BY <1>0, ContextOf
<1>5. s.ack \in Int /\ s.data \in BOOLEAN /\ s.fin \in BOOLEAN
  <2>1. s \in Segments(c)
    BY <1>2
  <2>2. pcb[c].una \in Nat
    BY <1>1, PcbParts
  <2>3. s.ack \in {0} \cup pcb[c].una .. got[c] /\ s.data \in BOOLEAN /\ s.fin \in BOOLEAN
    BY <2>1 DEF Segments
  <2> QED
    BY <2>2, <2>3, <1>1
<1>6. ~Trailing /\ s.data /\ s.seq = k0.p.rcv => ~k0.h.file /\ k0.h.st # "served"
  <2>1. s.data /\ s.seq >= pcb[c].rcv /\ (hs[c].file \/ hs[c].st = "served") => Trailing
    BY <1>2 DEF Sendable
  <2>2. pcb[c].rcv \in Nat
    BY <1>1, PcbParts
  <2> QED
    BY <2>1, <2>2, <1>4
<1>7. e.out \in Nat /\ e.w \in Nat /\ e.parse \in {"ok", "more", "bad"}
  <2>1. CASE s.data
    <3>1. e \in Env({"ok", "more", "bad"})
      BY <2>1, <1>3 DEF EnvOf
    <3> QED
      BY <3>1, EnvParts
  <2>2. CASE ~s.data
    <3>1. e \in Env({"ok"})
      BY <2>2, <1>3 DEF EnvOf, Quiet
    <3>2. e.out \in Nat /\ e.w \in Nat /\ e.parse \in {"ok"}
      BY <3>1, EnvParts
    <3> QED
      BY <3>2
  <2> QED
    BY <2>1, <2>2
<1> HIDE DEF k0
<1>8. Active(k0.p)
  BY <1>1, <1>4
<1>9. Stepped(k0, tcp_input(k0, s, e))
  BY <1>4, <1>5, <1>6, <1>7, <1>8, InputGood
<1>10. Stepped(Context(c), k)
  BY <1>9 DEF k0
<1> HIDE DEF k
<1>11. k.free >= 0
  <2>1. k.free \in Int
    BY <1>10, ContextParts DEF Stepped, Good
  <2>2. k.free >= free - 1
    BY <1>10, <1>4 DEF Stepped, k0
  <2> QED
    BY <2>1, <2>2, <1>1
<1>12. StepOf(c, k)
  BY <1>1, <1>3, <1>10, <1>11 DEF StepOf, k, Active
<1> QED
  BY <1>12

\* tcp_listen_input with a free pcb is a step of the new connection.
LEMMA ListenStep ==
  ASSUME IInv, NEW c \in Conns, ListenInput(c)
  PROVE  \E k : StepOf(c, k)
<1>0. TypeInv /\ ConnsInv /\ free \in Nat
  BY DEF IInv, TypeInv
<1>1. PICK e \in Control : Apply(c, Answer(c, e))
  BY DEF ListenInput
<1>2. pcb[c].st = "free" /\ hs[c].st = "none" /\ pending < Backlog
  BY DEF ListenInput, SynArrives
<1>3. e.out \in Nat
  BY EnvParts DEF Control, Quiet
<1>4. Stepped(Context(c), Answer(c, e)) /\ Answer(c, e).free = free
  BY <1>0, <1>2, <1>3, AnswerGood
<1>5. StepOf(c, Answer(c, e))
  BY <1>0, <1>1, <1>2, <1>4 DEF StepOf
<1> QED
  BY <1>5

\* The timers and the end of TIME_WAIT.
LEMMA TimerStep ==
  ASSUME IInv, NEW c \in Conns,
         \/ \E mem \in BOOLEAN : FastTmr(c, mem)
         \/ SlowTmrRemove(c)
         \/ \E rto, poll \in BOOLEAN : SlowTmr(c, rto, poll)
         \/ TimeWaitOver(c)
  PROVE  \E k : StepOf(c, k)
<1> DEFINE x == Context(c)
<1>0. TypeInv /\ ConnsInv /\ free \in Nat
  BY DEF IInv, TypeInv
<1>1. /\ Good(x) /\ x \in Contexts /\ AtRest(x.p) /\ x.p = pcb[c] /\ x.free = free /\ ~x.closed
  BY <1>0, ContextOf DEF Good
<1>2. ASSUME NEW k, Good(k), AtRest(k.p), Moved(x, k), Apply(c, k), pcb[c].st # "free"
      PROVE  StepOf(c, k)
  <2> HIDE DEF x
  <2>1. Stepped(x, k) /\ k.free >= x.free
    BY <1>1, <1>2, MovedStep
  <2>2. k.free \in Int
    BY <1>2, ContextParts DEF Good
  <2> QED
    BY <1>0, <1>1, <1>2, <2>1, <2>2 DEF StepOf, x
<1>3. CASE \E mem \in BOOLEAN : FastTmr(c, mem)
  <2>1. PICK e \in Control : Apply(c, RetryClose(x, e))
    BY <1>3 DEF FastTmr
  <2>2. Active(pcb[c])
    BY <1>3 DEF FastTmr
  <2>3. e.out \in Nat
    BY EnvParts DEF Control, Quiet
  <2> DEFINE k == RetryClose(x, e)
  <2>4. /\ Good(k) /\ Moved(x, k) /\ k.p.wdef = x.p.wdef /\ k.p.cb = x.p.cb
        /\ (~x.p.closepend => k = x)
    BY <1>1, <2>3, RetryGood
  <2>5. AtRest(k.p)
    <3>1. x.p.cb => ~x.p.closepend
      BY <1>1 DEF Good, ConnInv, PcbInv
    <3> HIDE DEF k, x
    <3> QED
      BY <3>1, <2>4, <1>1 DEF AtRest
  <2>6. StepOf(c, k)
    BY <2>1, <2>2, <2>4, <2>5, <1>2 DEF Active
  <2> QED
    BY <2>6
<1>4. CASE SlowTmrRemove(c)
  <2> DEFINE k == RemoveWithError(x)
  <2>1. Apply(c, k) /\ Active(pcb[c])
    BY <1>4 DEF SlowTmrRemove
  <2>2. Good(k) /\ AtRest(k.p) /\ Moved(x, k)
    BY <1>1, Removed, RemovedGood
  <2>3. StepOf(c, k)
    BY <2>1, <2>2, <1>2 DEF Active
  <2> QED
    BY <2>3
<1>5. CASE \E rto, poll \in BOOLEAN : SlowTmr(c, rto, poll)
  <2>1. PICK rto \in BOOLEAN, poll \in BOOLEAN : SlowTmr(c, rto, poll)
    BY <1>5
  <2>2. PICK e \in Quiet : Apply(c, SlowTick(x, rto, poll, e))
    BY <2>1 DEF SlowTmr
  <2>3. Active(pcb[c])
    BY <2>1 DEF SlowTmr
  <2>4. e.out \in Nat /\ e.w \in Nat
    BY EnvParts DEF Quiet
  <2> DEFINE k == SlowTick(x, rto, poll, e)
  <2>5. Stepped(x, k) /\ k.free >= x.free
    <3> HIDE DEF x
    <3> QED
      BY <2>3, <2>4, <1>1, TickGood
  <2>6. k.free \in Int
    BY <2>5, ContextParts DEF Stepped, Good
  <2> HIDE DEF k
  <2>7. StepOf(c, k)
    BY <2>2, <2>3, <2>5, <2>6, <1>0, <1>1 DEF StepOf, Active, k
  <2> QED
    BY <2>7
<1>6. CASE TimeWaitOver(c)
  <2> DEFINE k == tcp_free(x)
  <2>1. Apply(c, k) /\ pcb[c].st = "TIME_WAIT"
    BY <1>6 DEF TimeWaitOver
  <2>2. Stepped(x, k) /\ k.free >= x.free
    <3> HIDE DEF x
    <3> QED
      BY <2>1, <1>1, TimeWaitFreed
  <2>3. k.free \in Int
    BY <2>2, ContextParts DEF Stepped, Good
  <2> HIDE DEF k
  <2>4. StepOf(c, k)
    BY <2>1, <2>2, <2>3, <1>0, <1>1 DEF StepOf, k
  <2> QED
    BY <2>4
<1> QED
  BY <1>3, <1>4, <1>5, <1>6

\* At power-up no pcb is in use and every buffer is in the pool.
LEMMA InitGood == Init => IInv
<1> SUFFICES ASSUME Init PROVE IInv
  OBVIOUS
<1>1. NoPcb \in Pcbs /\ NoHttpState \in HttpStates /\ NoNet \in Nets
  BY Unused, Const DEF NoHttpState, HttpStates, NoNet, Nets
<1>2. TypeInv
  BY <1>1, Const DEF Init, TypeInv
<1>3. ConnsInv
  <2>1. ConnInv(NoPcb, NoHttpState, NoNet) /\ AtRest(NoPcb)
    <3>1. PcbInv(NoPcb)
      BY Unused DEF PcbInv, Open, Finishing
    <3>2. HttpInv(NoPcb, NoHttpState)
      BY Unused, Const DEF HttpInv, NoHttpState
    <3>3. WireInv(NoPcb, NoHttpState, NoNet)
      BY Unused DEF WireInv, EndInv, NoHttpState, NoNet
    <3> QED
      BY <3>1, <3>2, <3>3, Unused DEF ConnInv, AtRest
  <2> QED
    BY <2>1 DEF Init, ConnsInv
<1>4. PendingExact
  <2>1. {c \in Conns : pcb[c].backlogpend} = {}
    BY Unused DEF Init
  <2>2. \A c \in Conns : pcb[c].backlogpend <=> pcb[c].st = "SYN_RCVD"
    BY Unused DEF Init
  <2> QED
    BY <2>1, <2>2, FS_EmptySet DEF Init, PendingExact
<1>5. PoolConserved
  <2>1. Queued(hs) = {}
    <3> SUFFICES ASSUME NEW b \in Queued(hs) PROVE FALSE
      OBVIOUS
    <3>1. PICK c \in Conns, i \in 1 .. ReqQueueLen : b = <<c, i>>
      BY DEF Queued
    <3>2. i <= hs[c].req /\ i \in Int /\ 1 <= i
      BY <3>1, Const DEF Queued
    <3>3. hs[c].req = 0
      BY DEF Init, NoHttpState
    <3> QED
      BY <3>2, <3>3
  <2> QED
    BY <2>1, FS_EmptySet, Const DEF Init, PoolConserved
<1> QED
  BY <1>2, <1>3, <1>4, <1>5 DEF IInv

\* What a step of the server is: the client's end of the wire, a SYN that found
\* no pcb, or a call for one connection.
LEMMA NextIs ==
  ASSUME IInv, NEW c \in Conns,
         \/ Segment(c)
         \/ ListenInput(c)
         \/ ListenInputFull(c)
         \/ \E mem \in BOOLEAN : FastTmr(c, mem)
         \/ SlowTmrRemove(c)
         \/ \E rto, poll \in BOOLEAN : SlowTmr(c, rto, poll)
         \/ TimeWaitOver(c)
         \/ ClientReceives(c)
  PROVE  ClientReceives(c) \/ ListenInputFull(c) \/ \E k : StepOf(c, k)
<1>1. CASE Segment(c)
  BY <1>1, SegmentStep
<1>2. CASE ListenInput(c)
  BY <1>2, ListenStep
<1>3. CASE \/ \E mem \in BOOLEAN : FastTmr(c, mem)
           \/ SlowTmrRemove(c)
           \/ \E rto, poll \in BOOLEAN : SlowTmr(c, rto, poll)
           \/ TimeWaitOver(c)
  BY <1>3, TimerStep
<1> QED
  BY <1>1, <1>2, <1>3

\* What the client has received matters to no part of the invariant.
LEMMA GotAside ==
  ASSUME IInv, UNCHANGED <<pcb, hs, net, free, pending>>, got' \in [Conns -> Nat]
  PROVE  IInv'
BY DEF IInv, TypeInv, ConnsInv, PendingExact, PoolConserved, Queued

\* Every step keeps the invariant.
LEMMA StepKeeps == IInv /\ [Next]_vars => IInv'
<1> SUFFICES ASSUME IInv, [Next]_vars PROVE IInv'
  OBVIOUS
<1>1. got \in [Conns -> Nat]
  BY DEF IInv, TypeInv
<1>2. CASE UNCHANGED vars
  <2>1. UNCHANGED <<pcb, hs, net, free, pending>> /\ got' \in [Conns -> Nat]
    BY <1>1, <1>2 DEF vars
  <2> QED
    BY <2>1, GotAside
<1>3. CASE Next
  <2>1. PICK c \in Conns : ClientReceives(c) \/ ListenInputFull(c) \/ \E k : StepOf(c, k)
    BY <1>3, NextIs DEF Next
  <2>2. CASE ClientReceives(c)
    <3>1. UNCHANGED <<pcb, hs, net, free, pending>> /\ got' \in [Conns -> Nat]
      BY <1>1, <2>2 DEF ClientReceives
    <3> QED
      BY <3>1, GotAside
  <2>3. CASE ListenInputFull(c)
    BY <2>3, FullKeeps
  <2>4. CASE \E k : StepOf(c, k)
    <3>1. PICK k : StepOf(c, k)
      BY <2>4
    <3> QED
      BY <3>1, AppliedKeeps DEF StepOf
  <2> QED
    BY <2>1, <2>2, <2>3, <2>4
<1> QED
  BY <1>2, <1>3

\* The invariant holds in every behaviour of the server.
LEMMA Invariant == Spec => []IInv
BY InitGood, StepKeeps, PTL DEF Spec

-----------------------------------------------------------------------------
(***************************************************************************)
(* What the invariant says                                                 *)
(***************************************************************************)
\* What one connection counts has the bounds of TypeOK.
LEMMA Bounds ==
  ASSUME NEW p \in Pcbs, NEW h \in HttpStates, NEW n, ConnInv(p, h, n), AtRest(p)
  PROVE  p.wdef = 0 /\ p.lbb <= FileLen + 2 /\ h.req <= ReqQueueLen /\ h.left <= FileLen
<1>1. /\ p.una \in Nat /\ p.uns \in Nat /\ p.nxt \in Nat /\ p.lbb \in Nat /\ p.fin \in BOOLEAN
      /\ p.cb \in BOOLEAN /\ p.st \in States
  BY PcbParts
<1>2. /\ h.st \in {"none", "live", "served", "failed"} /\ h.req \in Nat /\ h.file \in BOOLEAN
      /\ h.left \in Nat
  BY HttpParts
<1>3. PcbInv(p) /\ HttpInv(p, h)
  BY DEF ConnInv
<1>4. h.st # "live" => h.left = 0 /\ ~h.file
  BY <1>3 DEF HttpInv, NoHttpState
<1>5. h.st = "live" => p.lbb >= 1 /\ ~p.fin
  BY <1>1, <1>3 DEF PcbInv, HttpInv, Open, Finishing
<1>6. p.lbb <= FileLen + 2
  <2>1. CASE p.st = "free"
    BY <2>1, <1>3, Unused, Const DEF PcbInv
  <2>2. CASE p.st = "SYN_RCVD"
    BY <2>2, <1>3, Const DEF PcbInv
  <2>3. CASE p.st \notin {"free", "SYN_RCVD"}
    <3>1. h.st \in {"live", "served", "failed"}
      BY <2>3, <1>2, <1>3 DEF HttpInv
    <3>2. CASE h.st = "live"
      BY <3>2, <1>1, <1>2, <1>3, <1>5, Const DEF HttpInv, Written
    <3>3. CASE h.st \in {"served", "failed"}
      BY <3>3, <2>3, <1>1, <1>2, <1>3, Const DEF HttpInv, Written
    <3> QED
      BY <3>1, <3>2, <3>3
  <2> QED
    BY <2>1, <2>2, <2>3
<1>7. h.left <= FileLen
  BY <1>1, <1>2, <1>3, <1>4, <1>5, Const DEF HttpInv, Written
<1> QED
  BY <1>3, <1>6, <1>7 DEF HttpInv, AtRest

\* The queues hold finitely many buffers.
LEMMA QueuedNat == Cardinality(Queued(hs)) \in Nat
<1>1. IsFiniteSet(1 .. ReqQueueLen)
  BY Const, FS_Interval
<1>2. IsFiniteSet(Conns \X (1 .. ReqQueueLen))
  BY <1>1, Const, FS_Product
<1>3. Queued(hs) \in SUBSET (Conns \X (1 .. ReqQueueLen))
  BY DEF Queued
<1> QED
  BY <1>2, <1>3, FS_Subset, FS_CardinalityType

\* The types, with their bounds.
LEMMA TypesGood == ASSUME IInv, PoolConserved PROVE TypeOK
<1>1. TypeInv /\ ConnsInv
  BY DEF IInv
<1>2. ASSUME NEW c \in Conns
      PROVE  /\ pcb[c].wdef = 0 /\ pcb[c].lbb <= FileLen + 2
             /\ hs[c].req <= ReqQueueLen /\ hs[c].left <= FileLen
  <2>1. pcb[c] \in Pcbs /\ hs[c] \in HttpStates
    BY <1>1 DEF TypeInv
  <2> QED
    BY <2>1, <1>1, Bounds DEF ConnsInv
<1>3. pcb \in [Conns -> [st : States, rcv : Nat, wdef : 0 .. 3, una : Nat, uns : Nat,
                         nxt : Nat, lbb : 0 .. FileLen + 2, fin : BOOLEAN,
                         closepend : BOOLEAN, rxclosed : BOOLEAN, backlogpend : BOOLEAN,
                         nrtx : 0 .. MaxRtx, cb : BOOLEAN]]
  <2>1. ASSUME NEW p \in Pcbs, p.wdef = 0, p.lbb <= FileLen + 2
        PROVE  p \in [st : States, rcv : Nat, wdef : 0 .. 3, una : Nat, uns : Nat,
                      nxt : Nat, lbb : 0 .. FileLen + 2, fin : BOOLEAN,
                      closepend : BOOLEAN, rxclosed : BOOLEAN, backlogpend : BOOLEAN,
                      nrtx : 0 .. MaxRtx, cb : BOOLEAN]
    <3>1. p.wdef \in 0 .. 3
      BY <2>1
    <3>2. p.lbb \in 0 .. FileLen + 2
      BY <2>1, PcbParts, Const
    <3> QED
      BY <3>1, <3>2 DEF Pcbs
  <2> QED
    BY <2>1, <1>1, <1>2 DEF TypeInv
<1>4. hs \in [Conns -> [st : {"none", "live", "served", "failed"}, req : 0 .. ReqQueueLen,
                        file : BOOLEAN, left : 0 .. FileLen, retries : 0 .. MaxRetries - 1]]
  <2>1. ASSUME NEW h \in HttpStates, h.req <= ReqQueueLen, h.left <= FileLen
        PROVE  h \in [st : {"none", "live", "served", "failed"}, req : 0 .. ReqQueueLen,
                      file : BOOLEAN, left : 0 .. FileLen, retries : 0 .. MaxRetries - 1]
    <3>1. h.req \in 0 .. ReqQueueLen /\ h.left \in 0 .. FileLen
      BY <2>1, HttpParts, Const
    <3> QED
      BY <3>1 DEF HttpStates
  <2> QED
    BY <2>1, <1>1, <1>2 DEF TypeInv
<1>5. free \in 0 .. PoolSize
  BY <1>1, QueuedNat, Const DEF TypeInv, PoolConserved
<1> QED
  BY <1>1, <1>3, <1>4, <1>5 DEF TypeInv, TypeOK, Nets

\* The http_states and the pcbs.
LEMMA MatchGood == IInv => StateMatchesPcb
<1> SUFFICES ASSUME IInv, NEW c \in Conns
             PROVE  /\ hs[c].st = "live" <=> pcb[c].cb
                    /\ pcb[c].cb => pcb[c].st = "ESTABLISHED" /\ ~pcb[c].rxclosed /\ pcb[c].wdef = 0
  BY DEF StateMatchesPcb
<1>1. PcbInv(pcb[c]) /\ HttpInv(pcb[c], hs[c]) /\ AtRest(pcb[c])
  BY DEF IInv, ConnsInv, ConnInv
<1> QED
  BY <1>1 DEF PcbInv, HttpInv, AtRest

\* The close that waits for memory.
LEMMA CloseGood == IInv => CloseNotForgotten
BY DEF IInv, ConnsInv, ConnInv, PcbInv, Open, CloseNotForgotten

\* The response.
LEMMA ResponseGood == IInv => NothingSkipped /\ WholeFile /\ (~Trailing => ServedNotReset)
<1> SUFFICES ASSUME IInv PROVE NothingSkipped /\ WholeFile /\ (~Trailing => ServedNotReset)
  OBVIOUS
<1>1. \A c \in Conns : /\ PcbInv(pcb[c]) /\ HttpInv(pcb[c], hs[c]) /\ EndInv(hs[c], net[c])
                       /\ pcb[c] \in Pcbs /\ hs[c] \in HttpStates
  BY DEF IInv, TypeInv, ConnsInv, ConnInv, WireInv
<1>2. ASSUME NEW c \in Conns, hs[c].file
      PROVE  pcb[c].lbb - 1 + hs[c].left = FileLen /\ pcb[c].lbb - pcb[c].una <= SndBuf
  <2>1. hs[c].st = "live"
    BY <1>1, <1>2 DEF HttpInv, NoHttpState
  <2>2. ~pcb[c].fin
    BY <1>1, <2>1 DEF PcbInv, HttpInv
  <2> QED
    BY <1>1, <1>2, <2>2, PcbParts, HttpParts DEF HttpInv, Written
<1>3. WholeFile /\ (~Trailing => ServedNotReset)
  BY <1>1 DEF EndInv, WholeFile, ServedNotReset
<1> QED
  BY <1>2, <1>3 DEF NothingSkipped

\* A close that found no memory for its FIN is kept for tcp_fasttmr until the
\* FIN is queued, whatever the clients send: CloseNotForgotten of every
\* connection, in every state tcp_input, the timers and tcp_alloc reach.
THEOREM CloseKept == Spec => []CloseNotForgotten
BY Invariant, CloseGood, PTL

\* Whatever the clients send, data after the request included: an http_state
\* lives exactly as long as the callbacks on its pcb, accepts_pending is exact,
\* and the file goes out in order, whole before the FIN.
THEOREM ServerExact ==
  Spec => [](StateMatchesPcb /\ PendingExact /\ NothingSkipped /\ WholeFile)
<1>1. IInv => StateMatchesPcb /\ PendingExact /\ NothingSkipped /\ WholeFile
  BY MatchGood, ResponseGood DEF IInv
<1> QED
  BY <1>1, Invariant, PTL

\* With clients that wait for the answer to a complete request no receive buffer
\* is lost or freed twice either, whichever way connections begin and end.
THEOREM ResourcesKept == ASSUME ~Trailing PROVE Spec => []ResourcesSafe
<1>1. IInv => ResourcesSafe
  BY MatchGood, TypesGood DEF IInv, ResourcesSafe
<1> QED
  BY <1>1, Invariant, PTL

\* Such a client sees the whole file, then the FIN, and no RST unless it closed
\* its own side before.
THEOREM ResponseKept == ASSUME ~Trailing PROVE Spec => []ResponseWhole
<1>1. IInv => ResponseWhole
  BY ResponseGood DEF ResponseWhole
<1> QED
  BY <1>1, Invariant, PTL

-----------------------------------------------------------------------------
(***************************************************************************)
(* The server implements HttpLedger                                        *)
(***************************************************************************)
\* The phase of a connection and its stage are the same.
LEMMA PhaseStage ==
  ASSUME NEW h \in HttpStates
  PROVE  /\ Phase(h) \in DOMAIN Ledger!Rank /\ Ledger!Rank[Phase(h)] = Stage(h)
         /\ Phase(h) = "reading" <=> h.st = "live" /\ ~h.file
<1>1. h.st \in {"none", "live", "served", "failed"} /\ h.file \in BOOLEAN
  BY HttpParts
<1>2. CASE h.st = "none"
  BY <1>2 DEF Phase, Stage, Ledger!Rank
<1>3. CASE h.st = "live"
  BY <1>1, <1>3 DEF Phase, Stage, Ledger!Rank
<1>4. CASE h.st \in {"served", "failed"}
  BY <1>4 DEF Phase, Stage, Ledger!Rank
<1> QED
  BY <1>1, <1>2, <1>3, <1>4

\* A call for one connection is one step of the ledger.
LEMMA AdvanceStep ==
  ASSUME ~Trailing, IInv, IInv', NEW c \in Conns, NEW k, StepOf(c, k)
  PROVE  Ledger!Advance(c)
<1>1. /\ Good(Context(c)) /\ Context(c).p = pcb[c] /\ Context(c).h = hs[c]
      /\ Context(c).free = free
  BY ContextOf DEF IInv
<1>2. hs \in [Conns -> HttpStates] /\ hs' \in [Conns -> HttpStates] /\ free \in Nat
  BY DEF IInv, TypeInv
<1>3. hs' = [hs EXCEPT ![c] = k.h] /\ free' = k.free
  BY DEF StepOf, Apply
<1>4. k.h \in HttpStates /\ hs[c] \in HttpStates /\ HttpInv(k.p, k.h) /\ k.free \in Int
  BY <1>2, ContextParts DEF StepOf, Stepped, Good, ConnInv
<1>5. k.h.req \in Nat /\ hs[c].req \in Nat /\ k.h.req <= ReqQueueLen
  BY <1>4, HttpParts DEF HttpInv
<1>6. Advanced(hs[c], k.h) /\ k.free + k.h.req = free + hs[c].req /\ k.free >= 0
  BY <1>1 DEF StepOf, Stepped, Bufs
<1> DEFINE phase == [d \in Conns |-> Phase(hs[d])]
           held == [d \in Conns |-> hs[d].req]
           ph == Phase(k.h)
           n == k.h.req
<1>7. ph \in DOMAIN Ledger!Rank /\ n \in 0 .. ReqQueueLen
  BY <1>4, <1>5, Const, PhaseStage
<1>8. Ledger!Rank[phase[c]] <= Ledger!Rank[ph]
  BY <1>4, <1>6, PhaseStage DEF Advanced
<1>9. n # 0 => ph = "reading" /\ n <= held[c] + 1
  <2>1. k.h.req # 0 => k.h.st = "live" /\ ~k.h.file
    BY <1>4 DEF HttpInv, NoHttpState
  <2> QED
    BY <2>1, <1>4, <1>6, PhaseStage DEF Advanced
<1>10. ph = phase[c] => n >= held[c]
  <2>1. Phase(k.h) = Phase(hs[c]) => Stage(k.h) = Stage(hs[c])
    BY <1>4, PhaseStage
  <2> QED
    BY <2>1, <1>6 DEF Advanced
<1>11. [d \in Conns |-> Phase(hs'[d])] = [phase EXCEPT ![c] = ph]
  BY <1>2, <1>3
<1>12. [d \in Conns |-> hs'[d].req] = [held EXCEPT ![c] = n]
  BY <1>2, <1>3
<1>13. free + held[c] >= n /\ free' = free + held[c] - n
  BY <1>2, <1>3, <1>4, <1>5, <1>6
<1> HIDE DEF phase, held, ph, n
<1>14. \E p \in DOMAIN Ledger!Rank, m \in 0 .. ReqQueueLen :
         /\ Ledger!Rank[phase[c]] <= Ledger!Rank[p]
         /\ m # 0 => p = "reading" /\ m <= held[c] + 1
         /\ p = phase[c] => m >= held[c]
         /\ [d \in Conns |-> Phase(hs'[d])] = [phase EXCEPT ![c] = p]
         /\ [d \in Conns |-> hs'[d].req] = [held EXCEPT ![c] = m]
         /\ free + held[c] >= m
         /\ free' = free + held[c] - m
  BY <1>7, <1>8, <1>9, <1>10, <1>11, <1>12, <1>13
<1> QED
  BY <1>14 DEF phase, held, Ledger!Advance

\* Every step of the server is a step of the ledger or leaves it alone.
LEMMA LedgerStep ==
  ASSUME ~Trailing
  PROVE  IInv /\ IInv' /\ [Next]_vars
         => [Ledger!Next]_<<[c \in Conns |-> Phase(hs[c])], [c \in Conns |-> hs[c].req], free>>
<1> SUFFICES ASSUME IInv, IInv', [Next]_vars
             PROVE  \/ Ledger!Next
                    \/ UNCHANGED <<[c \in Conns |-> Phase(hs[c])], [c \in Conns |-> hs[c].req], free>>
  OBVIOUS
<1>1. CASE UNCHANGED vars
  BY <1>1 DEF vars
<1>2. CASE Next
  <2>1. PICK c \in Conns : ClientReceives(c) \/ ListenInputFull(c) \/ \E k : StepOf(c, k)
    BY <1>2, NextIs DEF Next
  <2>2. CASE ClientReceives(c)
    BY <2>2 DEF ClientReceives
  <2>3. CASE ListenInputFull(c)
    <3>1. hs' = hs /\ free' = free
      BY <2>3, FullKeeps
    <3> QED
      BY <3>1
  <2>4. CASE \E k : StepOf(c, k)
    BY <2>4, AdvanceStep DEF Ledger!Next
  <2> QED
    BY <2>1, <2>2, <2>3, <2>4
<1> QED
  BY <1>1, <1>2

\* Connections only go forward, and move buffers between their own request
\* queue and the pool only: the server with TCP below it implements HttpLedger.
THEOREM ServerImplementsLedger == ASSUME ~Trailing PROVE Spec => ImplementsLedger
<1>1. Init => Ledger!Init
  BY DEF Init, Ledger!Init, Phase, NoHttpState
<1>2. Spec => []IInv
  BY Invariant
<1>3. IInv /\ IInv' /\ [Next]_vars
      => [Ledger!Next]_<<[c \in Conns |-> Phase(hs[c])], [c \in Conns |-> hs[c].req], free>>
  BY LedgerStep
<1> QED
  BY <1>1, <1>2, <1>3, PTL DEF Spec, ImplementsLedger, Ledger!Spec
=============================================================================

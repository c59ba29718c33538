------------------------------- MODULE TcpPcb -------------------------------
(***************************************************************************)
(* The connection side of lwIP's TCP (src/lwip-2.1.2/src/core/tcp.c and    *)
(* tcp_out.c) as this build configures it: closing, aborting, writing and  *)
(* sending, as operators on one connection's context.                      *)
(*                                                                         *)
(* Sequence numbers count units from the initial one: unit 0 is the SYN,   *)
(* a data unit is one segment's payload, the last unit is the FIN.  A pcb  *)
(* keeps una = lastack, uns = the first unit of the unsent queue, nxt =    *)
(* snd_nxt, lbb = the end of what is queued, rcv = rcv_nxt, and wdef, how  *)
(* far rcv_wnd is below TCP_WND_MAX: 2 for a data unit, 1 for a FIN, which *)
(* takes a single byte of the window.                                      *)
(*                                                                         *)
(* A context k holds what a call made for one connection can change: the   *)
(* pcb k.p, the http_state k.h, the free receive buffers k.free, the       *)
(* listener's accepts_pending k.pend, what has been put on the wire k.net  *)
(* (units sent, the unit that is the FIN, whether a RST was sent), and the *)
(* locals of tcp_input: k.inp for tcp_input_pcb = pcb, k.closed, k.gotfin  *)
(* and k.reset for the recv_flags, k.acked for recv_acked > 0, k.data for  *)
(* recv_data # NULL, k.over for goto aborted.  The                         *)
(* record e holds the outcomes of the allocations and of the transmit      *)
(* path: e.mem, e.w (units tcp_write finds memory for), e.out (units that  *)
(* tcp_output gets out).                                                   *)
(***************************************************************************)
EXTENDS Integers, FiniteSetsExt

CONSTANTS SndBuf,    \* TCP_SND_BUF in units: two segments
          MaxRtx     \* TCP_MAXRTX

ASSUME TcpAssumption == SndBuf \in Nat \ {0} /\ MaxRtx \in Nat \ {0}

NoPcb == [st |-> "free", rcv |-> 0, wdef |-> 0, una |-> 0, uns |-> 0, nxt |-> 0,
          lbb |-> 0, fin |-> FALSE, closepend |-> FALSE, rxclosed |-> FALSE,
          backlogpend |-> FALSE, nrtx |-> 0, cb |-> FALSE]

\* hs->file stands for hs->handle as well: both are set and cleared together.
\* st is "none" before http_accept, "live" while the structure is allocated;
\* afterwards it records which way it was freed.
NoHttpState == [st |-> "none", req |-> 0, file |-> FALSE, left |-> 0, retries |-> 0]

Active(p) == p.st \notin {"free", "TIME_WAIT"}

(***************************************************************************)
(* The error upcall.                                                       *)
(***************************************************************************)
\* http_state_eof and HTTP_FREE: the request queue goes back to the pool.
http_state_free(k, how) ==
    [k EXCEPT !.h = [NoHttpState EXCEPT !.st = how], !.free = @ + k.h.req]

\* TCP_EVENT_ERR: errf is http_err as long as the callbacks are registered.
http_err(k) == IF k.p.cb THEN http_state_free(k, "failed") ELSE k

(***************************************************************************)
(* Releasing a pcb.                                                        *)
(***************************************************************************)
tcp_backlog_accepted(k) ==
    IF k.p.backlogpend
    THEN [k EXCEPT !.p.backlogpend = FALSE, !.pend = @ - 1]
    ELSE k

\* Drops both send queues; snd_nxt keeps its value.
tcp_pcb_purge(k) ==
    IF Active(k.p)
    THEN LET a == tcp_backlog_accepted(k)
         IN  [a EXCEPT !.p.uns = a.p.una, !.p.lbb = a.p.una]
    ELSE k

tcp_free(k) == [k EXCEPT !.p = NoPcb]

\* Mutant: the application is not told.
RemoveWithErrorSilent(k) == tcp_free(tcp_pcb_purge(k))

\* tcp_pcb_remove and tcp_free, with the error callback read beforehand.
RemoveWithError(k) == tcp_free(tcp_pcb_purge(http_err(k)))

\* A pcb in TIME_WAIT is freed in silence, any other one with a RST on demand.
tcp_abandon(k, reset) ==
    IF k.p.st = "TIME_WAIT"
    THEN tcp_free(k)
    ELSE [RemoveWithError(k) EXCEPT !.net.rst = @ \/ reset]

(***************************************************************************)
(* Sending.                                                                *)
(***************************************************************************)
\* Returns at once while tcp_input works on the pcb: tcp_input sends at its end.
tcp_output(k, e) ==
    IF k.inp
    THEN k
    ELSE LET u == Min({k.p.lbb, k.p.uns + e.out})
         IN  [k EXCEPT !.p.uns = u, !.p.nxt = Max({@, u}),
                       !.net.sent = Max({@, u}),
                       !.net.fin = IF k.p.fin THEN k.p.lbb - 1 ELSE 0]

\* Units in the send buffer: the SYN and the FIN take no buffer space.
Buffered(p) == p.lbb - Max({p.una, 1})

\* http_write: no more than fits the buffer, and no more than there is memory for.
http_write(k, e) ==
    LET n == Min({k.h.left, SndBuf - Buffered(k.p), e.w})
    IN  [k EXCEPT !.p.lbb = @ + n, !.h.left = @ - n]

\* The FIN goes on the last unsent data segment, or needs a segment of its own.
FinFits(p, e) == (p.uns < p.lbb /\ p.lbb > 1) \/ e.mem

tcp_close_shutdown_fin(k, e) ==
    IF k.p.st \notin {"SYN_RCVD", "ESTABLISHED", "CLOSE_WAIT"}
    THEN k
    ELSE IF FinFits(k.p, e)
    THEN LET a == IF k.p.st = "SYN_RCVD" THEN tcp_backlog_accepted(k) ELSE k
         IN  tcp_output([a EXCEPT !.p.lbb = @ + 1, !.p.fin = TRUE,
                                  !.p.st = IF @ = "CLOSE_WAIT" THEN "LAST_ACK"
                                                               ELSE "FIN_WAIT_1"], e)
    ELSE [k EXCEPT !.p.closepend = TRUE]

\* Data the application has not taken turns the close into a RST; the pcb is
\* then freed here, or by tcp_input if the close comes from one of its callbacks.
tcp_close(k, e) ==
    LET a == [k EXCEPT !.p.rxclosed = TRUE]
        b == [tcp_pcb_purge(a) EXCEPT !.net.rst = TRUE]
    IN  IF k.p.st \in {"ESTABLISHED", "CLOSE_WAIT"} /\ k.p.wdef # 0
        THEN IF k.inp THEN [b EXCEPT !.closed = TRUE] ELSE tcp_free(b)
        ELSE tcp_close_shutdown_fin(a, e)

\* Mutant: the flag is dropped whatever comes of the FIN.
RetryCloseOnce(k, e) ==
    IF k.p.closepend
    THEN [tcp_close_shutdown_fin(k, e) EXCEPT !.p.closepend = FALSE]
    ELSE k

\* Pending FINs are tried again from tcp_fasttmr and from tcp_alloc.
RetryClose(k, e) ==
    IF k.p.closepend
    THEN tcp_close_shutdown_fin([k EXCEPT !.p.closepend = FALSE], e)
    ELSE k

\* tcp_recved gives the window back for one data unit.
tcp_recved(k) == [k EXCEPT !.p.wdef = IF @ >= 2 THEN @ - 2 ELSE 0]

\* tcp_rexmit_rto_prepare and _commit: everything unacknowledged is unsent again.
tcp_rexmit_rto(k, e) ==
    tcp_output([k EXCEPT !.p.uns = k.p.una, !.p.nrtx = Min({@ + 1, MaxRtx})], e)
=============================================================================

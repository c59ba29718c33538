-------------------------------- MODULE Httpd -------------------------------
(***************************************************************************)
(* The HTTP server (src/lwip-2.1.2/src/apps/http/httpd.c) as this build    *)
(* configures it: no POST, SSI or CGI, no keep-alive, the state from the   *)
(* heap, files served straight from flash.  Each callback is an operator   *)
(* on the context of TcpPcb.  The text of a request is abstracted to what  *)
(* http_parse_request makes of it, e.parse: complete ("ok"), not complete  *)
(* yet ("more") or not acceptable ("bad").  A data unit is one pool pbuf.  *)
(***************************************************************************)
EXTENDS TcpPcb

CONSTANTS FileLen,       \* units of the file that is served
          ReqQueueLen,   \* LWIP_HTTPD_REQ_QUEUELEN
          MaxRetries     \* HTTPD_MAX_RETRIES

ASSUME HttpdAssumption ==
    FileLen \in Nat \ {0} /\ ReqQueueLen \in Nat /\ MaxRetries \in Nat \ {0}

\* The callbacks are cleared and the state freed before tcp_close.  In this
\* version tcp_close never fails, so nothing is left for http_poll to retry.
http_close_conn(k, e, how) ==
    tcp_close([http_state_free(k, how) EXCEPT !.p.cb = FALSE], e)

\* http_accept: without memory for the state the caller aborts the connection.
http_accept(k) ==
    [k EXCEPT !.h = [NoHttpState EXCEPT !.st = "live"], !.p.cb = TRUE]

\* Mutant: a write that finds no memory is taken for the end of the file.
http_sendGivesUp(k, e) ==
    LET a == http_write(k, e)
    IN  IF ~k.h.file THEN http_close_conn(k, e, "failed")
        ELSE IF a.p.lbb = k.p.lbb \/ a.h.left = 0 THEN http_close_conn(a, e, "served")
        ELSE a

http_send(k, e) ==
    LET a == http_write(k, e)
    IN  IF ~k.h.file THEN http_close_conn(k, e, "failed")
        ELSE IF a.h.left = 0 THEN http_close_conn(a, e, "served")
        ELSE a

http_sent(k, e) == http_send([k EXCEPT !.h.retries = 0], e)

\* http_find_file and http_init_file: some file is always found (404.html).
http_init_file(k) ==
    [k EXCEPT !.h.file = TRUE, !.h.left = FileLen, !.h.retries = 0]

\* The request queue holds a reference to each of its pbufs; once the request
\* is parsed or refused they all go back to the pool.
FreeRequest(k) == [k EXCEPT !.h.req = 0, !.free = @ + k.h.req]

\* Mutant: one pbuf more than the limit.
ParseResultLate(k, e) ==
    IF e.parse = "more" /\ k.h.req > ReqQueueLen + 1 THEN "bad" ELSE e.parse

\* http_parse_request keeps the pbuf on the queue while the request is not
\* complete, as long as the queue is not longer than its limit.
ParseResult(k, e) ==
    IF e.parse = "more" /\ k.h.req > ReqQueueLen THEN "bad" ELSE e.parse

\* http_recv with data: the new pbuf belongs to the server.
http_recv(k, e) ==
    LET a == tcp_recved(k)
        b == [a EXCEPT !.h.req = @ + 1]
        parsed == ParseResult(b, e)
    IN  IF k.h.file THEN [a EXCEPT !.free = @ + 1]
        ELSE IF parsed = "more" THEN b
        ELSE IF parsed = "ok" THEN http_send(http_init_file(FreeRequest(b)), e)
        ELSE http_close_conn(FreeRequest(b), e, "failed")

\* http_recv with p = NULL: the client has closed its side.
http_recv_null(k, e) == http_close_conn(k, e, "failed")

\* Mutant: only connections that send are counted.
http_pollSendersOnly(k, e) ==
    LET a == [k EXCEPT !.h.retries = @ + 1]
    IN  IF ~k.h.file THEN k
        ELSE IF a.h.retries = MaxRetries THEN http_close_conn(a, e, "failed")
        ELSE http_send(a, e)

http_poll(k, e) ==
    LET a == [k EXCEPT !.h.retries = @ + 1]
    IN  IF a.h.retries = MaxRetries THEN http_close_conn(a, e, "failed")
        ELSE IF k.h.file THEN http_send(a, e)
        ELSE a
=============================================================================

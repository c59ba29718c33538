---------------------------- MODULE MCHttpServer ----------------------------
(* HttpServer for TLC: two clients that compete for one pcb.                  *)
EXTENDS HttpServer

CONSTANTS c1, c2

TwoConns == {c1, c2}
=============================================================================

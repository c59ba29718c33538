------------------------------ MODULE MCTcpSend -----------------------------
(***************************************************************************)
(* Instances of TcpSend for TLC.                                           *)
(***************************************************************************)
EXTENDS TcpSend

\* Any window, and windows of whole segments.
AnyWindow == 0 .. SndBuf
WholeSegments == {0, MSS, SndBuf}

\* Writes of any size, and of whole segments.
AnySize == 1 .. SndBuf
FullSize == {MSS, SndBuf}
=============================================================================

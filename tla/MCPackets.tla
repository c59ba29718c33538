----------------------------- MODULE MCPackets ------------------------------
(* Packets for TLC: frames too short for any header and frames that carry two *)
(* units of data behind the three headers.                                    *)
EXTENDS Packets

Frames == {1, 5}
=============================================================================

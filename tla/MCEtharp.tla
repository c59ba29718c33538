------------------------------ MODULE MCEtharp ------------------------------
(* Etharp for TLC: three hosts, of which two fit into the table, and two      *)
(* hardware addresses a host may announce.                                    *)
EXTENDS Etharp

CONSTANTS a1, a2, a3, m1, m2

MCIps == {a1, a2, a3}

MCMacs == {m1, m2}
=============================================================================

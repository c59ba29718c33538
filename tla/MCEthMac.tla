------------------------------ MODULE MCEthMac ------------------------------
(* EthMac for TLC: the benign environment, and one in which an interrupt may *)
(* fall between the load and the store of RemainCout--.                      *)
EXTENDS EthMac

Benign    == {}
SplitOnly == {"split_decrement"}
=============================================================================

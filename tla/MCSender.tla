--------------------------------- MODULE MCSender ---------------------------------
(* CUdpMulticastSender for TLC: two groups, one for each of two interfaces. *)
EXTENDS CUdpMulticastSender

CONSTANTS g1, g2, eth, lo

MCRequests == {[group |-> g1, iface |-> eth], [group |-> g2, iface |-> lo]}
=============================================================================

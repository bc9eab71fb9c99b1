------------------------------- MODULE MCReceiver -------------------------------
(* Small sets of datagrams and requests for TLC. *)
EXTENDS CUdpMulticastReceiver

CONSTANTS S1, S2, G1, G2

Dgram(s, p, g, n) == [source |-> s, port |-> p, group |-> g, size |-> n]
Request(s, p, g)  == [source |-> s, port |-> p, group |-> g]

(* Two senders, of which one uses two ports. *)
ReceiveDatagrams == {Dgram(S1, 1, G1, 1), Dgram(S1, 2, G1, 1), Dgram(S2, 1, G1, 1)}

(* All senders, one sender on the port of its first datagram, one sender   *)
(* and one port.                                                           *)
ReceiveRequests == {Request(Any, 0, G1), Request(S1, -1, G1), Request(S1, 2, G1)}

(* Two groups for open(), and nothing to receive. *)
OpenDatagrams == {}
OpenRequests  == {Request(Any, 0, G1), Request(S1, 0, G2)}

(* Everything at once, with an empty datagram and one of another group. *)
FindingDatagrams == {Dgram(S1, 1, G1, 1), Dgram(S1, 1, G1, 0), Dgram(S1, 1, G2, 1)}
FindingRequests  == {Request(Any, 0, G1), Request(S1, 0, G1)}
=============================================================================

------------------------------ MODULE Subscription ------------------------------
(***************************************************************************)
(* What open() and receive() of a multicast receiver promise together, as  *)
(* a reader of CUdpMulticastReceiver.h understands it: after open() the    *)
(* user has a queue of the datagrams that pass the filter, receive() takes *)
(* them in the order of their arrival, none twice and none left out, and   *)
(* with port -1 the first datagram fixes the port for all later ones.      *)
(* There is no descriptor here, no failure, and no loop that skips.        *)
(***************************************************************************)
EXTENDS Selection

CONSTANTS
    Objects,    \* the receivers
    Datagrams,  \* records with the fields source and port, among others
    Filters,    \* records [source, port]: what open() may be asked for
    Any,        \* the source address 0.0.0.0
    None        \* no datagram was returned yet

VARIABLES
    filter,   \* filter[o]: the source address and port number o listens to
    pending,  \* pending[o]: the datagrams that wait for o and pass its filter
    last,     \* last[o]: the datagram that receive() returned last
    broken    \* a close error was met: nothing is promised from here on

subscriptionVars == <<filter, pending, last, broken>>

(* Port 0 is every port, and so is -1 as long as nothing was received. *)
Passes(flt, d) == flt.source \in {Any, d.source} /\ flt.port \in {-1, 0, d.port}

Passing(flt) == {d \in Datagrams : Passes(flt, d)}

Subscribe(o) ==
    /\ \E flt \in Filters : filter' = [filter EXCEPT ![o] = flt]
    /\ pending' = [pending EXCEPT ![o] = <<>>]
    /\ last' = [last EXCEPT ![o] = None]

Leave(o) ==
    /\ pending' = [pending EXCEPT ![o] = <<>>]
    /\ UNCHANGED <<filter, last>>

(* A datagram reaches some of the receivers it is meant for. *)
Arrive ==
    /\ \E d \in Datagrams, S \in SUBSET Objects :
          /\ \A o \in S : Passes(filter[o], d)
          /\ pending' = [o \in Objects |-> IF o \in S THEN Append(pending[o], d)
                                                      ELSE pending[o]]
    /\ UNCHANGED <<filter, last>>

Take(o) ==
    /\ pending[o] # <<>>
    /\ last' = [last EXCEPT ![o] = Head(pending[o])]
    /\ filter' = [filter EXCEPT ![o].port = IF @ = -1 THEN Head(pending[o]).port ELSE @]
    /\ pending' = [pending EXCEPT ![o] = Select(Tail(@), Passing(filter'[o]))]

Init ==
    /\ filter = [o \in Objects |-> [source |-> Any, port |-> 0]]
    /\ pending = [o \in Objects |-> <<>>]
    /\ last = [o \in Objects |-> None]
    /\ broken = FALSE

Next ==
    \/ broken'
    \/ /\ UNCHANGED broken
       /\ \/ \E o \in Objects : Subscribe(o) \/ Leave(o) \/ Take(o)
          \/ Arrive

Spec == Init /\ [][Next]_subscriptionVars
=============================================================================

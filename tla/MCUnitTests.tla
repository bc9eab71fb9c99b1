------------------------------ MODULE MCUnitTests ------------------------------
(* The constants of UnitTests: the objects, the interfaces and the requests *)
(* that the tests use.                                                     *)
EXTENDS UnitTests

TestSockets   == {"a", "b", "c"}
TestReceivers == {"r", "q"}
TestSenders   == {"s"}
TestObjects   == TestSockets \cup TestReceivers \cup TestSenders

(* The loopback interface, with an address of another family, and one of a *)
(* private network.                                                        *)
TestInterfaces ==
    {[family |-> "inet",  addr |-> Loopback, bits |-> 4],
     [family |-> "other", addr |-> Loopback, bits |-> 4],
     [family |-> "inet",  addr |-> Private,  bits |-> 4]}

TestRanges   == <<Network(48, 2), Network(32, 4), Network(52, 2)>>
TestSubjects == {Network(a, 0) : a \in {Any, Loopback, Private, Nowhere}}
                \cup {Network(Any, AllBits), Network(16, 4)}

TestJoins == [source : {Loopback, Private}, port : {0, 1273, 7001}, group : {Group, "1.1.1.1"}]
TestSends == [group : {Group}, iface : {Loopback, Private, Nowhere}, port : {0, 7001}]
=============================================================================

------------------------------ MODULE MCInterfaces ------------------------------
(* CInterfaces for TLC: addresses of four bits. *)
EXTENDS CInterfaces

Entry(f, a, b)   == [family |-> f, addr |-> a, bits |-> b]
Network(a, b)    == [addr |-> a, bits |-> b]

(* The ranges 12-13, 8-9 and 4-7, like 192.168/16, 172.16/12 and 10/8. *)
MCRanges == <<Network(12, 1), Network(8, 1), Network(4, 2)>>

(* One interface in each range, one in none, and one of another family. *)
MCInterfaces ==
    {Entry("inet", 13, 1), Entry("inet", 9, 1), Entry("inet", 5, 2), Entry("inet", 2, 1),
     Entry("other", 7, 2)}

(* A host in a known network, one in an unknown network, all addresses. *)
MCSubjects == {Network(4, 0), Network(10, 0), Network(0, 4)}
=============================================================================

------------------------------- MODULE Selection -------------------------------
(***************************************************************************)
(* What a filter leaves of a queue.  It is SelectSeq, for a set in place   *)
(* of a test and with the recursion in a function of how far one has come, *)
(* which the lemmas of CUdpMulticastReceiverProofs take apart.             *)
(***************************************************************************)
EXTENDS Integers, Sequences

(* Of the first n elements of s, those in S, in their order. *)
Chosen(s, S) ==
    LET chosen[n \in Nat] ==
            IF n = 0 THEN <<>>
            ELSE IF s[n] \in S THEN Append(chosen[n - 1], s[n])
            ELSE chosen[n - 1]
    IN  chosen

Select(s, S) == Chosen(s, S)[Len(s)]
=============================================================================

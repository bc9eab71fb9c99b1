---------------------------------- MODULE CTime ----------------------------------
(***************************************************************************)
(* CTime: a count of seconds and of nanoseconds, the latter never negative *)
(* and less than a second also when the time is negative.  A CTime object  *)
(* goes through any sequence of operations; their while loops are steps,   *)
(* so that what holds in the loops is an invariant.                        *)
(*                                                                         *)
(* Both members are public; the model changes them through the operations  *)
(* only.  tv_sec is an integer: the 64 bits of time_t are not exhausted.   *)
(***************************************************************************)
EXTENDS Integers

CONSTANTS
    nsecInSec,  \* nanoseconds in a second
    Seconds,    \* the seconds of operands
    Nanosecs,   \* what a constructor is given as nanoseconds
    Counts,     \* factors
    MaxSec      \* bound: a result beyond it is not used any further

ASSUME TimeAssumption ==
    /\ nsecInSec \in Nat \ {0}
    /\ Seconds \subseteq Int
    /\ Nanosecs \subseteq Int
    /\ Counts \subseteq Int
    /\ MaxSec \in Nat

VARIABLES
    time,   \* the object
    pc,     \* "idle", or the loop that runs: "enforce", "borrow" or "carry"
    ns      \* reference: the time that the operations should give, in nanoseconds

vars == <<time, pc, ns>>

Time(sec, nsec) == [tv_sec |-> sec, tv_nsec |-> nsec]

InNsec(t) == t.tv_sec * nsecInSec + t.tv_nsec

(* The operands of operators: results of earlier operations. *)
Operands == {Time(sec, nsec) : sec \in Seconds, nsec \in 0 .. nsecInSec - 1}

InUse == pc = "idle" /\ time.tv_sec \in -MaxSec .. MaxSec

-----------------------------------------------------------------------------
(* operator> and operator<. *)
GreaterByMembers(t, other) == t.tv_sec > other.tv_sec \/ t.tv_nsec > other.tv_nsec

Greater(t, other) ==
    \/ t.tv_sec > other.tv_sec
    \/ t.tv_sec = other.tv_sec /\ t.tv_nsec > other.tv_nsec

Less(t, other) ==
    \/ t.tv_sec < other.tv_sec
    \/ t.tv_sec = other.tv_sec /\ t.tv_nsec < other.tv_nsec

-----------------------------------------------------------------------------
(* CTime(sec, nsec), up to enforceNsecRange(). *)
Construct(sec, nsec) ==
    /\ pc = "idle"
    /\ time' = Time(sec, nsec)
    /\ ns' = sec * nsecInSec + nsec
    /\ pc' = "enforce"

(* operator=. *)
Assign(other) ==
    /\ pc = "idle"
    /\ time' = Time(other.tv_sec, other.tv_nsec)
    /\ ns' = InNsec(other)
    /\ UNCHANGED pc

(* operator- and operator-=, up to the loop. *)
Subtract(other) ==
    /\ InUse
    /\ time' = Time(time.tv_sec - other.tv_sec, time.tv_nsec - other.tv_nsec)
    /\ ns' = ns - InNsec(other)
    /\ pc' = "borrow"

(* operator+ and operator+=, up to the loop. *)
Add(other) ==
    /\ InUse
    /\ time' = Time(time.tv_sec + other.tv_sec, time.tv_nsec + other.tv_nsec)
    /\ ns' = ns + InNsec(other)
    /\ pc' = "carry"

(* operator* dividing without rounding up. *)
MultiplyTruncating(count) ==
    LET sec      == time.tv_sec * count
        nanosecs == time.tv_nsec * count
        over     == nanosecs \div nsecInSec
        under    == (-nanosecs) \div nsecInSec
    IN  /\ InUse
        /\ \/ nanosecs \in 0 .. nsecInSec - 1 /\ time' = Time(sec, nanosecs)
           \/ nanosecs >= nsecInSec /\ time' = Time(sec + over, nanosecs - over * nsecInSec)
           \/ nanosecs < 0 /\ time' = Time(sec - under, nanosecs + under * nsecInSec)
        /\ ns' = ns * count
        /\ UNCHANGED pc

(* operator*: the overflow of the nanoseconds is taken to the seconds,     *)
(* rounded up when it is negative.                                         *)
Multiply(count) ==
    LET sec      == time.tv_sec * count
        nanosecs == time.tv_nsec * count
        over     == nanosecs \div nsecInSec
        under    == (-nanosecs + nsecInSec - 1) \div nsecInSec
    IN  /\ InUse
        /\ \/ nanosecs \in 0 .. nsecInSec - 1 /\ time' = Time(sec, nanosecs)
           \/ nanosecs >= nsecInSec /\ time' = Time(sec + over, nanosecs - over * nsecInSec)
           \/ nanosecs < 0 /\ time' = Time(sec - under, nanosecs + under * nsecInSec)
        /\ ns' = ns * count
        /\ UNCHANGED pc

-----------------------------------------------------------------------------
(* while(tv_nsec < 0), the first loop of enforceNsecRange() and the one of *)
(* the subtractions.                                                       *)
Borrow ==
    /\ pc \in {"enforce", "borrow"}
    /\ time.tv_nsec < 0
    /\ time' = Time(time.tv_sec - 1, time.tv_nsec + nsecInSec)
    /\ UNCHANGED <<pc, ns>>

Borrowed ==
    /\ pc \in {"enforce", "borrow"}
    /\ time.tv_nsec >= 0
    /\ pc' = IF pc = "enforce" THEN "carry" ELSE "idle"
    /\ UNCHANGED <<time, ns>>

(* while(tv_nsec >= nsecInSec), the second loop and the one of the sums. *)
CarryTwice ==
    /\ pc = "carry"
    /\ time.tv_nsec >= nsecInSec
    /\ time' = Time(time.tv_sec + 2, time.tv_nsec - nsecInSec)
    /\ UNCHANGED <<pc, ns>>

Carry ==
    /\ pc = "carry"
    /\ time.tv_nsec >= nsecInSec
    /\ time' = Time(time.tv_sec + 1, time.tv_nsec - nsecInSec)
    /\ UNCHANGED <<pc, ns>>

Carried ==
    /\ pc = "carry"
    /\ time.tv_nsec < nsecInSec
    /\ pc' = "idle"
    /\ UNCHANGED <<time, ns>>

-----------------------------------------------------------------------------
(* CTime(). *)
Init ==
    /\ time = Time(0, 0)
    /\ pc = "idle"
    /\ ns = 0

(* An object may be its own operand. *)
Next ==
    \/ \E sec \in Seconds, nsec \in Nanosecs : Construct(sec, nsec)
    \/ \E other \in Operands \cup {time} : Assign(other) \/ Subtract(other) \/ Add(other)
    \/ \E count \in Counts : Multiply(count)
    \/ Borrow
    \/ Borrowed
    \/ Carry
    \/ Carried

Spec == Init /\ [][Next]_vars

-----------------------------------------------------------------------------
(* Between operations the nanoseconds are in range: this is what the       *)
(* comparisons and pselect() rely on.                                      *)
TypeOK ==
    /\ time \in [tv_sec : Int, tv_nsec : Int]
    /\ pc \in {"idle", "enforce", "borrow", "carry"}
    /\ ns \in Int
    /\ pc = "idle" => time.tv_nsec \in 0 .. nsecInSec - 1

(* No sequence of operations loses or gains a nanosecond, with negative    *)
(* times, negative factors and in the middle of every loop.                *)
Exact == InNsec(time) = ns

(* The comparisons order times as their nanoseconds are ordered, also for  *)
(* negative times, whose nanoseconds count forward.                        *)
OrderAgrees ==
    pc = "idle" =>
        \A other \in Operands :
            /\ Greater(time, other) <=> ns > InNsec(other)
            /\ Less(time, other) <=> ns < InNsec(other)
            /\ time = other <=> ns = InNsec(other)
=============================================================================

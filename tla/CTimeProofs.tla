------------------------------- MODULE CTimeProofs -------------------------------
(***************************************************************************)
(* CTime for every length of a second and all operands: the nanoseconds    *)
(* stay in range, no operation loses any, and the comparisons are those of *)
(* the times in nanoseconds.                                               *)
(***************************************************************************)
EXTENDS CTime, TLAPS

(* What the loops keep: borrowing never starts from a second or more, and  *)
(* carrying never from less than nothing.                                  *)
LoopInv ==
    /\ TypeOK
    /\ pc = "borrow" => time.tv_nsec < nsecInSec
    /\ pc = "carry" => time.tv_nsec >= 0

-----------------------------------------------------------------------------
(* Division as operator* uses it: by a positive number, rounding down.     *)
LEMMA DivisionBounds ==
    ASSUME NEW a \in Int, NEW n \in Nat \ {0}
    PROVE  /\ a \div n \in Int
           /\ (a \div n) * n <= a
           /\ a < (a \div n) * n + n
  <1>1. /\ a \div n \in Int
        /\ a = n * (a \div n) + (a % n)
        /\ a % n \in 0 .. n - 1
    BY SMTT(30)
  <1>. QED BY <1>1, SMT

(* The second and the nanosecond of a time in range are those of no other, *)
(* and times are ordered by the second first.                              *)
LEMMA SecondsFirst ==
    ASSUME NEW s \in Int, NEW t \in Int, s < t,
           NEW m \in 0 .. nsecInSec - 1, NEW n \in 0 .. nsecInSec - 1
    PROVE  s * nsecInSec + m < t * nsecInSec + n
  <1>1. nsecInSec \in Nat \ {0}
    BY TimeAssumption
  <1>2. s + 1 <= t
    OBVIOUS
  <1>3. (s + 1) * nsecInSec <= t * nsecInSec
    BY <1>1, <1>2, SMT
  <1>4. (s + 1) * nsecInSec = s * nsecInSec + nsecInSec
    BY <1>1, SMT
  <1>. QED BY <1>1, <1>3, <1>4, SMT

(* One step of a loop moves a whole second between the members. *)
LEMMA MoveSecond ==
    ASSUME NEW sec \in Int, NEW nsec \in Int
    PROVE  /\ (sec - 1) * nsecInSec + (nsec + nsecInSec) = sec * nsecInSec + nsec
           /\ (sec + 1) * nsecInSec + (nsec - nsecInSec) = sec * nsecInSec + nsec
  BY TimeAssumption, SMT

(* The seconds that operator* moves. *)
LEMMA MoveSeconds ==
    ASSUME NEW sec \in Int, NEW nsec \in Int, NEW count \in Int, NEW k \in Int
    PROVE  /\ (sec * count + k) * nsecInSec + (nsec * count - k * nsecInSec)
                = (sec * nsecInSec + nsec) * count
           /\ (sec * count - k) * nsecInSec + (nsec * count + k * nsecInSec)
                = (sec * nsecInSec + nsec) * count
  <1>. nsecInSec \in Int
    BY TimeAssumption
  <1>. QED BY SMT

-----------------------------------------------------------------------------
LEMMA OperandsInRange ==
    ASSUME TypeOK, pc = "idle", NEW other \in Operands \cup {time}
    PROVE  /\ other \in [tv_sec : Int, tv_nsec : Int]
           /\ other.tv_nsec \in 0 .. nsecInSec - 1
  BY TimeAssumption DEF TypeOK, Operands, Time

LEMMA MultiplyInRange ==
    ASSUME LoopInv, NEW count \in Counts, Multiply(count)
    PROVE  LoopInv'
  <1>. DEFINE sec      == time.tv_sec * count
              nanosecs == time.tv_nsec * count
              over     == nanosecs \div nsecInSec
              under    == (-nanosecs + nsecInSec - 1) \div nsecInSec
  <1>1. /\ nsecInSec \in Nat \ {0}
        /\ count \in Int
        /\ time.tv_sec \in Int
        /\ time.tv_nsec \in Int
        /\ ns \in Int
    BY TimeAssumption DEF LoopInv, TypeOK
  <1>2. sec \in Int /\ nanosecs \in Int /\ ns * count \in Int
    BY <1>1, SMT
  <1>3. /\ over \in Int
        /\ nanosecs - over * nsecInSec \in 0 .. nsecInSec - 1
    <2>. HIDE DEF nanosecs
    <2>1. /\ over \in Int
          /\ over * nsecInSec <= nanosecs
          /\ nanosecs < over * nsecInSec + nsecInSec
      BY <1>1, <1>2, DivisionBounds
    <2>2. over * nsecInSec \in Int
      BY <1>1, <2>1, SMT
    <2>. HIDE DEF over
    <2>. QED BY <1>1, <1>2, <2>1, <2>2, SMT
  <1>4. /\ under \in Int
        /\ nanosecs + under * nsecInSec \in 0 .. nsecInSec - 1
    <2>. HIDE DEF nanosecs
    <2>1. -nanosecs + nsecInSec - 1 \in Int
      BY <1>1, <1>2, SMT
    <2>2. /\ under \in Int
          /\ under * nsecInSec <= -nanosecs + nsecInSec - 1
          /\ -nanosecs + nsecInSec - 1 < under * nsecInSec + nsecInSec
      BY <1>1, <2>1, DivisionBounds
    <2>3. under * nsecInSec \in Int
      BY <1>1, <2>2, SMT
    <2>. HIDE DEF under
    <2>. QED BY <1>1, <1>2, <2>2, <2>3, SMT
  <1>5. pc = "idle" /\ pc' = "idle" /\ ns' = ns * count
    BY DEF Multiply, InUse
  <1>6. \/ nanosecs \in 0 .. nsecInSec - 1 /\ time' = Time(sec, nanosecs)
        \/ time' = Time(sec + over, nanosecs - over * nsecInSec)
        \/ time' = Time(sec - under, nanosecs + under * nsecInSec)
    BY DEF Multiply
  <1>. HIDE DEF sec, nanosecs, over, under
  <1>7. /\ time' \in [tv_sec : Int, tv_nsec : Int]
        /\ time'.tv_nsec \in 0 .. nsecInSec - 1
    BY <1>1, <1>2, <1>3, <1>4, <1>6 DEF Time
  <1>. QED BY <1>1, <1>2, <1>5, <1>7 DEF LoopInv, TypeOK

LEMMA StepKeepsLoopInv ==
    ASSUME LoopInv, [Next]_vars
    PROVE  LoopInv'
  <1>. USE TimeAssumption DEF LoopInv, TypeOK
  <1>1. ASSUME NEW sec \in Seconds, NEW nsec \in Nanosecs, Construct(sec, nsec)
        PROVE  LoopInv'
    <2>1. sec \in Int /\ nsec \in Int /\ sec * nsecInSec + nsec \in Int
      BY SMT
    <2>. QED BY <1>1, <2>1 DEF Construct, Time
  <1>2. ASSUME NEW other \in Operands \cup {time}, Subtract(other)
        PROVE  LoopInv'
    <2>1. /\ other \in [tv_sec : Int, tv_nsec : Int]
          /\ other.tv_nsec \in 0 .. nsecInSec - 1
      BY <1>2, OperandsInRange DEF Subtract, InUse
    <2>2. other.tv_sec * nsecInSec \in Int
      BY <2>1, SMT
    <2>. QED BY <1>2, <2>1, <2>2 DEF Subtract, InUse, Time, InNsec
  <1>3. ASSUME NEW other \in Operands \cup {time}, Add(other)
        PROVE  LoopInv'
    <2>1. /\ other \in [tv_sec : Int, tv_nsec : Int]
          /\ other.tv_nsec \in 0 .. nsecInSec - 1
      BY <1>3, OperandsInRange DEF Add, InUse
    <2>2. other.tv_sec * nsecInSec \in Int
      BY <2>1, SMT
    <2>. QED BY <1>3, <2>1, <2>2 DEF Add, InUse, Time, InNsec
  <1>4. ASSUME NEW count \in Counts, Multiply(count)
        PROVE  LoopInv'
    BY <1>4, MultiplyInRange
  <1>5. ASSUME NEW other \in Operands \cup {time}, Assign(other)
        PROVE  LoopInv'
    <2>1. /\ other \in [tv_sec : Int, tv_nsec : Int]
          /\ other.tv_nsec \in 0 .. nsecInSec - 1
      BY <1>5, OperandsInRange DEF Assign
    <2>2. other.tv_sec * nsecInSec \in Int
      BY <2>1, SMT
    <2>. QED BY <1>5, <2>1, <2>2 DEF Assign, Time, InNsec
  <1>6. CASE Borrow
    BY <1>6 DEF Borrow, Time
  <1>7. CASE Borrowed
    BY <1>7 DEF Borrowed
  <1>8. CASE Carry
    BY <1>8 DEF Carry, Time
  <1>9. CASE Carried
    BY <1>9 DEF Carried
  <1>10. CASE UNCHANGED vars
    BY <1>10 DEF vars
  <1>. QED BY <1>1, <1>2, <1>3, <1>4, <1>5, <1>6, <1>7, <1>8, <1>9,
           <1>10 DEF Next

LEMMA InitLoopInv ==
    ASSUME Init
    PROVE  LoopInv
  BY TimeAssumption DEF Init, Time, LoopInv, TypeOK

LEMMA LoopsKept == Spec => []LoopInv
  BY InitLoopInv, StepKeepsLoopInv, PTL DEF Spec

(* The members have their types, and between operations the nanoseconds    *)
(* are in range.                                                           *)
THEOREM TypeCorrect == Spec => []TypeOK
  <1>1. LoopInv => TypeOK
    BY DEF LoopInv
  <1>. QED BY <1>1, LoopsKept, PTL

-----------------------------------------------------------------------------
LEMMA MultiplyExact ==
    ASSUME TypeOK, Exact, NEW count \in Counts, Multiply(count)
    PROVE  Exact'
  <1>. DEFINE over  == (time.tv_nsec * count) \div nsecInSec
              under == (-(time.tv_nsec * count) + nsecInSec - 1) \div nsecInSec
  <1>1. /\ nsecInSec \in Nat \ {0}
        /\ count \in Int
        /\ time.tv_sec \in Int
        /\ time.tv_nsec \in Int
        /\ time.tv_nsec * count \in Int
    BY TimeAssumption, SMT DEF TypeOK
  <1>2. over \in Int /\ under \in Int
    <2>1. -(time.tv_nsec * count) + nsecInSec - 1 \in Int
      BY <1>1, SMT
    <2>. QED BY <1>1, <2>1, DivisionBounds
  <1>3. /\ ns' = ns * count
        /\ \/ time' = Time(time.tv_sec * count, time.tv_nsec * count)
           \/ time' = Time(time.tv_sec * count + over,
                           time.tv_nsec * count - over * nsecInSec)
           \/ time' = Time(time.tv_sec * count - under,
                           time.tv_nsec * count + under * nsecInSec)
    BY DEF Multiply
  <1>4. (time.tv_sec * nsecInSec + time.tv_nsec) * count = ns * count
    BY DEF Exact, InNsec
  <1>. HIDE DEF over, under
  <1>5. CASE time' = Time(time.tv_sec * count, time.tv_nsec * count)
    <2>1. (time.tv_sec * count) * nsecInSec + time.tv_nsec * count
            = (time.tv_sec * nsecInSec + time.tv_nsec) * count
      BY <1>1, SMT
    <2>. QED BY <1>3, <1>4, <1>5, <2>1 DEF Exact, InNsec, Time
  <1>6. CASE time' = Time(time.tv_sec * count + over,
                          time.tv_nsec * count - over * nsecInSec)
    BY <1>1, <1>2, <1>3, <1>4, <1>6, MoveSeconds DEF Exact, InNsec, Time
  <1>7. CASE time' = Time(time.tv_sec * count - under,
                          time.tv_nsec * count + under * nsecInSec)
    BY <1>1, <1>2, <1>3, <1>4, <1>7, MoveSeconds DEF Exact, InNsec, Time
  <1>. QED BY <1>3, <1>5, <1>6, <1>7

LEMMA StepKeepsExact ==
    ASSUME TypeOK, Exact, [Next]_vars
    PROVE  Exact'
  <1>. USE TimeAssumption DEF TypeOK, Exact
  <1>1. ASSUME NEW sec \in Seconds, NEW nsec \in Nanosecs, Construct(sec, nsec)
        PROVE  Exact'
    BY <1>1 DEF Construct, Time, InNsec
  <1>2. ASSUME NEW other \in Operands \cup {time}, Subtract(other)
        PROVE  Exact'
    <2>1. other \in [tv_sec : Int, tv_nsec : Int]
      BY <1>2, OperandsInRange DEF Subtract, InUse
    <2>2. (time.tv_sec - other.tv_sec) * nsecInSec
            = time.tv_sec * nsecInSec - other.tv_sec * nsecInSec
      BY <2>1, SMT
    <2>3. /\ time.tv_sec * nsecInSec \in Int
          /\ other.tv_sec * nsecInSec \in Int
      BY <2>1, SMT
    <2>. QED BY <1>2, <2>1, <2>2, <2>3 DEF Subtract, Time, InNsec
  <1>3. ASSUME NEW other \in Operands \cup {time}, Add(other)
        PROVE  Exact'
    <2>1. other \in [tv_sec : Int, tv_nsec : Int]
      BY <1>3, OperandsInRange DEF Add, InUse
    <2>2. (time.tv_sec + other.tv_sec) * nsecInSec
            = time.tv_sec * nsecInSec + other.tv_sec * nsecInSec
      BY <2>1, SMT
    <2>3. /\ time.tv_sec * nsecInSec \in Int
          /\ other.tv_sec * nsecInSec \in Int
      BY <2>1, SMT
    <2>. QED BY <1>3, <2>1, <2>2, <2>3 DEF Add, Time, InNsec
  <1>4. ASSUME NEW count \in Counts, Multiply(count)
        PROVE  Exact'
    BY <1>4, MultiplyExact
  <1>5. ASSUME NEW other \in Operands \cup {time}, Assign(other)
        PROVE  Exact'
    BY <1>5 DEF Assign, Time, InNsec
  <1>6. CASE Borrow
    BY <1>6, MoveSecond DEF Borrow, Time, InNsec
  <1>7. CASE Borrowed
    BY <1>7 DEF Borrowed, InNsec
  <1>8. CASE Carry
    BY <1>8, MoveSecond DEF Carry, Time, InNsec
  <1>9. CASE Carried
    BY <1>9 DEF Carried, InNsec
  <1>10. CASE UNCHANGED vars
    BY <1>10 DEF vars, InNsec
  <1>. QED BY <1>1, <1>2, <1>3, <1>4, <1>5, <1>6, <1>7, <1>8, <1>9,
           <1>10 DEF Next

(* No sequence of operations loses or gains a nanosecond. *)
THEOREM AlwaysExact == Spec => []Exact
  <1>1. Init => Exact
    BY TimeAssumption DEF Init, Exact, InNsec, Time
  <1>2. TypeOK /\ Exact /\ [Next]_vars => Exact'
    BY StepKeepsExact
  <1>. QED BY <1>1, <1>2, TypeCorrect, PTL DEF Spec

-----------------------------------------------------------------------------
(* The comparisons of times are those of their nanoseconds. *)
THEOREM ComparesExactly == Spec => []OrderAgrees
  <1>1. ASSUME TypeOK, Exact
        PROVE  OrderAgrees
    <2>. SUFFICES ASSUME pc = "idle", NEW other \in Operands
                  PROVE  /\ Greater(time, other) <=> ns > InNsec(other)
                         /\ Less(time, other) <=> ns < InNsec(other)
                         /\ time = other <=> ns = InNsec(other)
      BY DEF OrderAgrees
    <2>1. /\ time.tv_sec \in Int /\ other.tv_sec \in Int
          /\ time.tv_nsec \in 0 .. nsecInSec - 1
          /\ other.tv_nsec \in 0 .. nsecInSec - 1
          /\ nsecInSec \in Nat \ {0}
          /\ time \in [tv_sec : Int, tv_nsec : Int]
          /\ other \in [tv_sec : Int, tv_nsec : Int]
      BY <1>1, TimeAssumption, OperandsInRange DEF TypeOK
    <2>2. /\ ns = time.tv_sec * nsecInSec + time.tv_nsec
          /\ InNsec(other) = other.tv_sec * nsecInSec + other.tv_nsec
          /\ time.tv_sec * nsecInSec \in Int
          /\ other.tv_sec * nsecInSec \in Int
      BY <1>1, <2>1, SMT DEF Exact, InNsec
    <2>3. time = other <=> /\ time.tv_sec = other.tv_sec
                           /\ time.tv_nsec = other.tv_nsec
      BY <2>1
    <2>4. CASE time.tv_sec = other.tv_sec
      BY <2>1, <2>2, <2>3, <2>4 DEF Greater, Less
    <2>5. CASE time.tv_sec < other.tv_sec
      <3>1. ns < InNsec(other)
        BY <2>1, <2>2, <2>5, SecondsFirst
      <3>. QED BY <2>1, <2>2, <2>3, <2>5, <3>1 DEF Greater, Less
    <2>6. CASE time.tv_sec > other.tv_sec
      <3>1. ns > InNsec(other)
        BY <2>1, <2>2, <2>6, SecondsFirst
      <3>. QED BY <2>1, <2>2, <2>3, <2>6, <3>1 DEF Greater, Less
    <2>. QED BY <2>1, <2>4, <2>5, <2>6
  <1>. QED BY <1>1, TypeCorrect, AlwaysExact, PTL
=============================================================================

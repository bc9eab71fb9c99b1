---------------------------- MODULE CFdWaiterProofs ----------------------------
(***************************************************************************)
(* The safety of waitUntil(): it is not early, it says false only for a    *)
(* registered object that is ready, it misses none that was ready all the  *)
(* time, and its sets hold no number that stands for nothing.  For every   *)
(* number of objects and descriptors, and every moment.                    *)
(***************************************************************************)
EXTENDS CFdWaiter, DescriptorTableProofs

(***************************************************************************)
(* nfds is above every number in the sets: a set of numbers with a bound   *)
(* has a largest one.                                                      *)
(***************************************************************************)
LEMMA MaxIsBound ==
    ASSUME NEW n \in Nat, NEW S \in SUBSET (0 .. n), S # {}
    PROVE  Max(S) \in S /\ \A x \in S : x <= Max(S)
<1> DEFINE T == {n - x : x \in S}
<1>1. T \in SUBSET Nat /\ T # {}
    OBVIOUS
<1>2. PICK t \in T : \A y \in T : t <= y
    BY <1>1, LeastNumber
<1>3. \A x \in S : n - t >= x
    BY <1>2
<1>4. n - t \in S
    BY <1>2
<1>5. \E m \in S : \A y \in S : m >= y
    BY <1>3, <1>4
<1>6. Max(S) \in S /\ \A y \in S : Max(S) >= y
    BY <1>5 DEF Max
<1> QED
    BY <1>6

(* The larger of two numbers. *)
LEMMA MaxOfTwo ==
    ASSUME NEW a \in Int, NEW b \in Int
    PROVE  Max({a, b}) = IF a >= b THEN a ELSE b
<1>1. \E m \in {a, b} : \A y \in {a, b} : m >= y
    OBVIOUS
<1>2. Max({a, b}) \in {a, b} /\ \A y \in {a, b} : Max({a, b}) >= y
    BY <1>1 DEF Max
<1> QED
    BY <1>2

(* pselect() looks at all of the sets. *)
LEMMA WatchedIsAll ==
    ASSUME TypeOK
    PROVE  Watched = sets
<1> DEFINE S == {0} \cup {s[1] + 1 : s \in sets}
<1>1. \A s \in sets : s[1] \in 0 .. MaxFd
    BY DEF TypeOK, Fds
<1>2. MaxFd + 1 \in Nat /\ S \in SUBSET (0 .. (MaxFd + 1)) /\ S # {}
    BY <1>1, TableAssumption
<1>3. Max(S) \in S /\ \A x \in S : x <= Max(S)
    BY <1>2, MaxIsBound
<1>4. \A s \in sets : s[1] + 1 \in S
    OBVIOUS
<1>5. Max(S) \in Int
    BY <1>2, <1>3
<1> HIDE DEF S
<1>6. \A s \in sets : s[1] < Max(S)
    BY <1>1, <1>3, <1>4, <1>5
<1> QED
    BY <1>6 DEF Watched, nfds, S

-----------------------------------------------------------------------------
(***************************************************************************)
(* The inductive invariant.  The remaining time that the loop works with   *)
(* is never less than the real one: a signal or the clock can make it      *)
(* old, not small.                                                         *)
(***************************************************************************)
LeftShrinks == pc # "idle" => left <= timeout

(* pselect() is called with time left. *)
EnoughTime == pc = "pselect" => timeout > ZeroTime

(* Between calls nothing is remembered of readiness. *)
IdleForgets == pc = "idle" => steady = {}

(* What pselect() gets are the numbers of the open registered objects, and *)
(* they are not changed while it sleeps.                                   *)
SetsAreCurrent ==
    pc \in {"pselect", "asleep"} =>
        sets = {<<fd[w[1]], w[2]>> : w \in {v \in watch : isOpen(v[1])}}

(* What was ready all the time is ready. *)
SteadyReady == steady \subseteq OwnReady

(* After a sleep that ended without a descriptor, none was ready all the time. *)
NothingMissed == pc \in {"loop", "pselect"} /\ polled => steady = {}

IInv == /\ TypeOK
        /\ LeftShrinks
        /\ EnoughTime
        /\ IdleForgets
        /\ SetsAreCurrent
        /\ SteadyReady
        /\ NothingMissed

-----------------------------------------------------------------------------
(* What every step does to the table: a step of the contract, or nothing. *)
LEMMA TableStep == [Next]_vars => [TableNext]_tableVars
<1> SUFFICES ASSUME [Next]_vars
             PROVE  [TableNext]_tableVars
    OBVIOUS
<1>1. CASE Owners
    BY <1>1 DEF Owners, TableNext
<1>2. CASE Readiness
    BY <1>2 DEF Readiness
<1>3. CASE UNCHANGED vars
    BY <1>3 DEF vars, tableVars
<1>4. CASE \/ \E o \in Objects, dir \in Dirs : Add(o, dir) \/ Del(o, dir)
           \/ \E moment \in Past .. MaxWait : WaitUntil(moment)
           \/ MomentPassed \/ Select \/ PselectFails \/ PselectSleeps
           \/ DescriptorReady \/ TimeOver \/ Interrupted \/ ClockThrows \/ Tick
    BY <1>4 DEF Add, Del, WaitUntil, MomentPassed, Select, PselectFails, PselectSleeps,
                DescriptorReady, TimeOver, Interrupted, NothingReady,
                ClockThrows, Return, Tick
<1> QED
    BY <1>1, <1>2, <1>3, <1>4 DEF Next

(* The waiter's environment keeps the ownership contract, which is why     *)
(* the numbers in the sets are those of the objects' own sockets.          *)
THEOREM KeepsContract == Spec => TableSpec
<1>1. Init => TableInit
    BY DEF Init
<1> QED
    BY <1>1, TableStep, PTL DEF Spec, TableSpec

THEOREM HandlesHonest == Spec => []HonestHandles
BY KeepsContract, TableHandlesHonest

(* The times of a waiter that does not wait. *)
LEMMA RestingTimes ==
    Past \in Past .. MaxWait /\ 0 \in Past .. MaxWait /\ 0 \in 0 .. MaxWait
BY WaiterAssumption DEF Past

LEMMA InitHolds == Init => IInv
<1> SUFFICES ASSUME Init PROVE IInv
    OBVIOUS
<1>1. TableTypeOK
    BY TableAssumption DEF Init, TableInit, TableTypeOK
<1>2. TypeOK
    BY <1>1, RestingTimes DEF Init, TypeOK, Results
<1> QED
    BY <1>2 DEF Init, IInv, LeftShrinks, EnoughTime, IdleForgets, SetsAreCurrent,
                SteadyReady, NothingMissed

(* A call that ends leaves nothing behind. *)
LEMMA ReturnKeeps ==
    ASSUME IInv, NEW r \in Results, Return(r), UNCHANGED <<tableVars, watch, ready, sets>>
    PROVE  IInv'
<1>1. TableTypeOK'
    BY DEF IInv, TypeOK, TableTypeOK, tableVars
<1>2. TypeOK'
    BY <1>1, RestingTimes DEF IInv, TypeOK, Return
<1> QED
    BY <1>2 DEF IInv, Return, LeftShrinks, EnoughTime, IdleForgets, SetsAreCurrent,
                SteadyReady, NothingMissed

(* The numbers of registered objects do not change while a call runs. *)
LEMMA OwnersKeepSets ==
    ASSUME IInv, Owners
    PROVE  SetsAreCurrent'
<1>1. CASE pc = "idle"
    BY <1>1 DEF Owners, callVars, SetsAreCurrent
<1>2. CASE pc # "idle"
    <2>1. \A w \in watch : fd'[w[1]] = fd[w[1]]
        <3>1. CASE ForeignOpen \/ ForeignClose
            BY <3>1 DEF ForeignOpen, ForeignClose
        <3>2. ASSUME NEW o \in Objects, ~Registered(o),
                     Acquire(o) \/ CloseOk(o) \/ CloseThrows(o) \/ Destructor(o)
              PROVE  \A w \in watch : fd'[w[1]] = fd[w[1]]
            <4>1. \A w \in watch : w[1] \in Objects /\ w[1] # o
                BY <3>2 DEF Registered, IInv, TypeOK
            <4>2. \A p \in Objects : p # o => fd'[p] = fd[p]
                BY <3>2 DEF Acquire, SocketOk, SocketFails, CloseOk, CloseThrows,
                            Destructor, IInv, TypeOK, TableTypeOK
            <4> QED
                BY <4>1, <4>2
        <3> QED
            BY <1>2, <3>1, <3>2 DEF Owners
    <2>2. UNCHANGED <<watch, sets, pc>>
        BY DEF Owners, callVars
    <2> QED
        BY <2>1, <2>2 DEF IInv, SetsAreCurrent, isOpen
<1> QED
    BY <1>1, <1>2

LEMMA IInvStep == IInv /\ [Next]_vars => IInv'
<1> SUFFICES ASSUME IInv, [Next]_vars
             PROVE  IInv'
    OBVIOUS
<1>a. TypeOK /\ TableTypeOK'
    BY TableStep, TableTypeStep DEF IInv, TypeOK
<1>1. ASSUME NEW o \in Objects, NEW dir \in Dirs, Add(o, dir) \/ Del(o, dir)
      PROVE  IInv'
    <2>1. steady = {} /\ pc = "idle"
        BY <1>1 DEF Add, Del, IInv, IdleForgets
    <2>2. TypeOK'
        BY <1>1, <1>a, <2>1 DEF Add, Del, TypeOK, callVars
    <2> QED
        BY <1>1, <2>1, <2>2
           DEF Add, Del, callVars, IInv, LeftShrinks, EnoughTime, IdleForgets,
               SetsAreCurrent, SteadyReady, NothingMissed
<1>2. ASSUME NEW moment \in Past .. MaxWait, WaitUntil(moment)
      PROVE  IInv'
    <2>1. OwnReady \subseteq watch /\ OwnReady' = OwnReady
        BY <1>2 DEF WaitUntil, OwnReady, tableVars
    <2>2. TypeOK'
        BY <1>2, <1>a, <2>1 DEF WaitUntil, TypeOK, Results
    <2> QED
        BY <1>2, <2>1, <2>2, WaiterAssumption
           DEF WaitUntil, IInv, LeftShrinks, EnoughTime, IdleForgets, SetsAreCurrent,
               SteadyReady, NothingMissed, Past
<1>3. CASE MomentPassed
    BY <1>3, ReturnKeeps DEF MomentPassed, Results
<1>4. CASE Select
    <2>1. \A v \in watch : isOpen(v[1]) => <<fd[v[1]], v[2]>> \in Fds \X Dirs
        BY <1>a DEF TypeOK, TableTypeOK, isOpen, NoFd
    <2>2. TypeOK'
        BY <1>4, <1>a, <2>1 DEF Select, TypeOK
    <2>3. SetsAreCurrent'
        BY <1>4 DEF Select, SetsAreCurrent, isOpen, tableVars
    <2>4. SteadyReady'
        BY <1>4 DEF Select, IInv, SteadyReady, OwnReady, tableVars
    <2> QED
        BY <1>4, <2>2, <2>3, <2>4
           DEF Select, IInv, LeftShrinks, EnoughTime, IdleForgets, NothingMissed
<1>5. CASE PselectFails
    BY <1>5, ReturnKeeps DEF PselectFails, Results
<1>6. CASE PselectSleeps
    <2>1. sleep' \in 0 .. MaxWait
        BY <1>6, <1>a, WaiterAssumption
           DEF PselectSleeps, IInv, EnoughTime, TypeOK, ZeroTime, Past
    <2>2. TypeOK'
        BY <1>6, <1>a, <2>1 DEF PselectSleeps, TypeOK
    <2>3. SetsAreCurrent' /\ SteadyReady'
        BY <1>6 DEF PselectSleeps, IInv, SetsAreCurrent, SteadyReady, OwnReady, isOpen,
                    tableVars
    <2> QED
        BY <1>6, <2>2, <2>3
           DEF PselectSleeps, IInv, LeftShrinks, EnoughTime, IdleForgets, NothingMissed
<1>7. CASE DescriptorReady
    BY <1>7, ReturnKeeps DEF DescriptorReady, Results
<1>8. CASE NothingReady
    <2>1. TypeOK'
        BY <1>8, <1>a DEF NothingReady, TypeOK
    <2>2. SteadyReady'
        BY <1>8 DEF NothingReady, IInv, SteadyReady, OwnReady, tableVars
    <2>3. steady = {}
        <3>1. SUFFICES ASSUME NEW w \in steady
                       PROVE  FALSE
            OBVIOUS
        <3>2. w \in watch /\ <<fd[w[1]], w[2]>> \in ready
            BY DEF IInv, SteadyReady, OwnReady
        <3>3. isOpen(w[1])
            BY <1>a, <3>2, TableAssumption DEF TypeOK, Fds, isOpen
        <3>4. <<fd[w[1]], w[2]>> \in sets
            BY <1>8, <3>2, <3>3 DEF NothingReady, IInv, SetsAreCurrent
        <3> QED
            BY <1>8, <1>a, <3>2, <3>4, WatchedIsAll DEF NothingReady
    <2> QED
        BY <1>8, <1>a, <2>1, <2>2, <2>3
           DEF NothingReady, IInv, LeftShrinks, EnoughTime, IdleForgets, SetsAreCurrent,
               NothingMissed, TypeOK, Past
<1>9. CASE Tick
    <2>1. left' \in Past .. MaxWait /\ left' <= left
        BY <1>9, <1>a, MaxOfTwo, WaiterAssumption DEF Tick, TypeOK, Past
    <2>2. sleep' \in 0 .. MaxWait
        BY <1>9, <1>a, MaxOfTwo, WaiterAssumption DEF Tick, TypeOK
    <2>3. TypeOK'
        BY <1>9, <1>a, <2>1, <2>2 DEF Tick, callVars, TypeOK
    <2>4. LeftShrinks'
        BY <1>9, <1>a, <2>1, WaiterAssumption
           DEF Tick, callVars, IInv, LeftShrinks, TypeOK, Past
    <2>5. SetsAreCurrent' /\ SteadyReady'
        BY <1>9 DEF Tick, callVars, IInv, SetsAreCurrent, SteadyReady, OwnReady, isOpen,
                    tableVars
    <2> QED
        BY <1>9, <2>3, <2>4, <2>5
           DEF Tick, callVars, IInv, EnoughTime, IdleForgets, NothingMissed
<1>10. CASE Readiness
    <2>1. steady' \subseteq steady /\ steady' \subseteq OwnReady'
        BY <1>10 DEF Readiness, SteadyFollows
    <2>2. ready' \in SUBSET (Fds \X Dirs)
        BY <1>10, <1>a DEF Readiness, TypeOK
    <2>3. TypeOK'
        BY <1>10, <1>a, <2>1, <2>2 DEF Readiness, callVars, TypeOK
    <2>4. SetsAreCurrent'
        BY <1>10 DEF Readiness, callVars, IInv, SetsAreCurrent, isOpen, tableVars
    <2> QED
        BY <1>10, <2>1, <2>3, <2>4
           DEF Readiness, callVars, IInv, LeftShrinks, EnoughTime, IdleForgets,
               SteadyReady, NothingMissed
<1>11. CASE Owners
    <2>1. steady' \subseteq steady /\ steady' \subseteq OwnReady'
        BY <1>11 DEF Owners, SteadyFollows
    <2>2. TypeOK'
        BY <1>11, <1>a, <2>1 DEF Owners, ReadyFollows, callVars, TypeOK
    <2> QED
        BY <1>11, <2>1, <2>2, OwnersKeepSets
           DEF Owners, callVars, IInv, LeftShrinks, EnoughTime, IdleForgets,
               SteadyReady, NothingMissed
<1>12. CASE ClockThrows
    BY <1>12, ReturnKeeps DEF ClockThrows, Results
<1>13. CASE UNCHANGED vars
    <2>1. TypeOK'
        BY <1>13, <1>a DEF vars, callVars, TypeOK
    <2> QED
        BY <1>13, <2>1
           DEF vars, callVars, tableVars, IInv, LeftShrinks, EnoughTime, IdleForgets,
               SetsAreCurrent, SteadyReady, OwnReady, NothingMissed, isOpen
<1> QED
    BY <1>1, <1>2, <1>3, <1>4, <1>5, <1>6, <1>7, <1>8, <1>9, <1>10, <1>11, <1>12,
       <1>13
       DEF Next, TimeOver, Interrupted

THEOREM AlwaysIInv == Spec => []IInv
BY InitHolds, IInvStep, PTL DEF Spec

(* Type correctness of CFdWaiter. *)
THEOREM TypeCorrect == Spec => []TypeOK
<1>1. IInv => TypeOK
    BY DEF IInv
<1> QED
    BY <1>1, AlwaysIInv, PTL

-----------------------------------------------------------------------------
(* The three ways in which a call ends. *)
LEMMA ReturnsWhere ==
    ASSUME [Next]_vars
    PROVE  /\ Returns("passed") => MomentPassed
           /\ Returns("ready") => DescriptorReady
           /\ result' = "EBADF" => result = "EBADF" \/ PselectFails
<1>1. ASSUME \/ \E o \in Objects, dir \in Dirs : Add(o, dir) \/ Del(o, dir)
             \/ Tick \/ Readiness \/ Owners \/ UNCHANGED vars
      PROVE  UNCHANGED <<pc, result>>
    BY <1>1 DEF Add, Del, Tick, Readiness, Owners, vars, callVars
<1>2. ASSUME \/ \E moment \in Past .. MaxWait : WaitUntil(moment)
             \/ Select \/ PselectSleeps \/ TimeOver \/ Interrupted
      PROVE  pc' # "idle" /\ result' \in {result, "none"}
    BY <1>2 DEF WaitUntil, Select, PselectSleeps, TimeOver, Interrupted, NothingReady
<1>3. /\ MomentPassed => result' = "passed"
      /\ PselectFails => result' \in {"EBADF", "ENOMEM"}
      /\ DescriptorReady => result' = "ready"
      /\ ClockThrows => result' = "noClock"
    BY DEF MomentPassed, PselectFails, DescriptorReady, ClockThrows, Return
<1> QED
    BY <1>1, <1>2, <1>3 DEF Next, Returns

(* waitUntil() answers true no more than ZeroTime before the moment,       *)
(* however often a signal woke it.                                         *)
THEOREM NeverEarly == Spec => NotEarly
<1> DEFINE A == Returns("passed") => left <= ZeroTime
<1>1. IInv /\ [Next]_vars => [A]_vars
    <2> SUFFICES ASSUME IInv, [Next]_vars, Returns("passed")
                 PROVE  left <= ZeroTime
        OBVIOUS
    <2>1. MomentPassed
        BY ReturnsWhere
    <2> QED
        BY <2>1, WaiterAssumption
           DEF MomentPassed, IInv, LeftShrinks, TypeOK, Past, ZeroTime
<1>2. Spec => [][A]_vars
    BY <1>1, AlwaysIInv, PTL DEF Spec
<1> QED
    BY <1>2 DEF NotEarly

(* A number in the sets is that of a registered object, and stands for the *)
(* socket this object opened: not for one it gave up, nor for somebody's.  *)
LEMMA SetsAreOwn ==
    ASSUME IInv, HonestHandles, ~staleKept, pc \in {"pselect", "asleep"}, NEW s \in Watched
    PROVE  \E w \in watch : /\ isOpen(w[1])
                            /\ s = <<fd[w[1]], w[2]>>
                            /\ files[fd[w[1]]] = w[1]
                            /\ IsLive(fd[w[1]])
<1>1. PICK w \in watch : isOpen(w[1]) /\ s = <<fd[w[1]], w[2]>>
    BY DEF Watched, IInv, SetsAreCurrent
<1>2. w[1] \in Objects
    BY DEF IInv, TypeOK
<1>3. files[fd[w[1]]] = w[1]
    BY <1>1, <1>2 DEF HonestHandles
<1>4. fd[w[1]] \in Fds
    BY <1>1, <1>2 DEF IInv, TypeOK, TableTypeOK, isOpen, NoFd
<1> QED
    BY <1>1, <1>2, <1>3, <1>4, TableAssumption DEF IsLive

(* false means that a registered object can be read or written. *)
THEOREM FalseIsReady == Spec => FalseMeansReady
<1> DEFINE A == Returns("ready") => staleKept \/
                    \E w \in OwnReady : isOpen(w[1]) /\ files[fd[w[1]]] = w[1]
<1>1. IInv /\ HonestHandles /\ [Next]_vars => [A]_vars
    <2> SUFFICES ASSUME IInv, HonestHandles, [Next]_vars, Returns("ready"), ~staleKept
                 PROVE  \E w \in OwnReady : isOpen(w[1]) /\ files[fd[w[1]]] = w[1]
        OBVIOUS
    <2>1. DescriptorReady
        BY ReturnsWhere
    <2>2. PICK s \in Watched : s \in ready
        BY <2>1 DEF DescriptorReady
    <2>3. PICK w \in watch : isOpen(w[1]) /\ s = <<fd[w[1]], w[2]>> /\ files[fd[w[1]]] = w[1]
        BY <2>1, SetsAreOwn DEF DescriptorReady
    <2> QED
        BY <2>2, <2>3 DEF OwnReady
<1>2. Spec => [][A]_vars
    BY <1>1, AlwaysIInv, HandlesHonest, PTL DEF Spec
<1> QED
    BY <1>2 DEF FalseMeansReady

(* A descriptor that was ready throughout a call that slept is not missed. *)
THEOREM SteadyNotMissed == Spec => SteadyIsSeen
<1> DEFINE A == Returns("passed") /\ polled => steady = {} \/ staleKept
<1>1. IInv /\ [Next]_vars => [A]_vars
    <2> SUFFICES ASSUME IInv, [Next]_vars, Returns("passed"), polled
                 PROVE  steady = {}
        OBVIOUS
    <2>1. MomentPassed
        BY ReturnsWhere
    <2> QED
        BY <2>1 DEF MomentPassed, IInv, NothingMissed
<1>2. Spec => [][A]_vars
    BY <1>1, AlwaysIInv, PTL DEF Spec
<1> QED
    BY <1>2 DEF SteadyIsSeen

(* The sets hold no number that stands for nothing: pselect() never        *)
(* answers EBADF, unless a close error left a number behind.               *)
LEMMA NoBadStep ==
    IInv /\ HonestHandles /\ NeverBadDescriptor /\ [Next]_vars => NeverBadDescriptor'
<1> SUFFICES ASSUME IInv, HonestHandles, NeverBadDescriptor, [Next]_vars, result' = "EBADF"
             PROVE  staleKept'
    BY DEF NeverBadDescriptor
<1>1. staleKept => staleKept'
    BY TableStep
       DEF TableNext, tableVars, Acquire, SocketOk, SocketFails, CloseOk, CloseThrows,
           Destructor, ForeignOpen, ForeignClose
<1>2. CASE result = "EBADF"
    BY <1>1, <1>2 DEF NeverBadDescriptor
<1>3. CASE PselectFails
    <2>1. pc = "pselect" /\ \E s \in Watched : ~IsLive(s[1])
        BY <1>3 DEF PselectFails, Return
    <2>2. staleKept
        BY <2>1, SetsAreOwn
    <2> QED
        BY <1>1, <2>2
<1> QED
    BY <1>2, <1>3, ReturnsWhere

THEOREM NeverBad == Spec => []NeverBadDescriptor
<1>1. Init => NeverBadDescriptor
    BY DEF Init, NeverBadDescriptor
<1> QED
    BY <1>1, NoBadStep, AlwaysIInv, HandlesHonest, PTL DEF Spec
=============================================================================

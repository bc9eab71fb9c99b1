-------------------------------- MODULE CFdWaiter --------------------------------
(***************************************************************************)
(* CFdWaiter: waitUntil() with the select() in it, against a monotonic     *)
(* clock, signals, readiness that comes and goes, and the descriptor table *)
(* in which the registered objects have their numbers.                     *)
(*                                                                         *)
(* Time is counted backwards, in nanoseconds: left is moment - now, so     *)
(* that no clock needs a bound.  Below Past there is nothing to tell apart.*)
(*                                                                         *)
(* One thread has the waiter and the objects registered with it: they are  *)
(* opened, closed, registered and removed only while it does not wait, and *)
(* an object is removed before it is destroyed, since the waiter keeps a   *)
(* plain pointer.  All other objects belong to other threads.              *)
(***************************************************************************)
EXTENDS DescriptorTable, FiniteSetsExt

CONSTANT MaxWait   \* bound on how far ahead of the call the moment is

ASSUME WaiterAssumption == MaxWait \in Nat

Dirs     == {"read", "write"}
Past     == -1
ZeroTime == 1     \* CTime(0, 1)

VARIABLES
    watch,    \* the pairs <<o, dir>> in the sets of registered descriptors
    ready,    \* the pairs <<f, dir>> of numbers that can be read or written now
    left,     \* the moment of the call, minus the present time
    timeout,  \* the local variable timeout of waitUntil()
    sets,     \* readFdSet and writeFdSet, as pairs <<f, dir>>
    sleep,    \* the time until which pselect() sleeps, minus the present time
    pc,       \* "idle", "loop", "pselect" or "asleep"
    result,   \* how the last call ended
    polled,   \* history: pselect() slept, in this call
    steady    \* history: the members of watch that were ready throughout the call

callVars == <<timeout, sets, pc, result, polled>>
vars == <<tableVars, watch, ready, left, sleep, callVars, steady>>

Results == {"none", "passed", "ready", "EBADF", "ENOMEM", "noClock"}

-----------------------------------------------------------------------------
(* A number that is closed is not ready for anything. *)
ReadyFollows == ready' = {r \in ready : files'[r[1]] # Free}

(* The registered objects that are ready, by the number they hold. *)
OwnReady == {w \in watch : <<fd[w[1]], w[2]>> \in ready}

SteadyFollows == steady' = steady \cap OwnReady'

(* A call ends: its moment, its local variables and its history are gone. *)
Return(r) ==
    /\ pc' = "idle"
    /\ result' = r
    /\ left' = Past /\ timeout' = 0 /\ sleep' = 0
    /\ polled' = FALSE /\ steady' = {}

-----------------------------------------------------------------------------
(* addReadFileDescriptor() ... delWriteFileDescriptor(). *)
Add(o, dir) ==
    /\ pc = "idle"
    /\ watch' = watch \cup {<<o, dir>>}
    /\ UNCHANGED <<tableVars, ready, left, sleep, callVars, steady>>

Del(o, dir) ==
    /\ pc = "idle"
    /\ watch' = watch \ {<<o, dir>>}
    /\ UNCHANGED <<tableVars, ready, left, sleep, callVars, steady>>

(* waitUntil(), up to the loop. *)
WaitUntil(moment) ==
    /\ pc = "idle"
    /\ left' = moment
    /\ timeout' = moment
    /\ pc' = "loop"
    /\ result' = "none"
    /\ polled' = FALSE
    /\ steady' = OwnReady
    /\ UNCHANGED <<tableVars, watch, ready, sets, sleep>>

(* The condition of the loop fails. *)
MomentPassed ==
    /\ pc = "loop"
    /\ timeout <= ZeroTime
    /\ Return("passed")
    /\ UNCHANGED <<tableVars, watch, ready, sets>>

(* select() without the loop over writeFileDescriptors. *)
SelectReadOnly ==
    /\ pc = "loop"
    /\ timeout > ZeroTime
    /\ sets' = {<<fd[w[1]], w[2]>> : w \in {v \in watch : isOpen(v[1]) /\ v[2] = "read"}}
    /\ pc' = "pselect"
    /\ UNCHANGED <<tableVars, watch, ready, left, timeout, sleep, result, polled, steady>>

(* select() without the test isOpen(). *)
SelectAll ==
    /\ pc = "loop"
    /\ timeout > ZeroTime
    /\ sets' = {<<fd[w[1]], w[2]>> : w \in watch}
    /\ pc' = "pselect"
    /\ UNCHANGED <<tableVars, watch, ready, left, timeout, sleep, result, polled, steady>>

(* select() without FD_ZERO(). *)
SelectKeepingSets ==
    /\ pc = "loop"
    /\ timeout > ZeroTime
    /\ sets' = sets \cup {<<fd[w[1]], w[2]>> : w \in {v \in watch : isOpen(v[1])}}
    /\ pc' = "pselect"
    /\ UNCHANGED <<tableVars, watch, ready, left, timeout, sleep, result, polled, steady>>

(* select(): the sets are filled from the numbers of this moment. *)
Select ==
    /\ pc = "loop"
    /\ timeout > ZeroTime
    /\ sets' = {<<fd[w[1]], w[2]>> : w \in {v \in watch : isOpen(v[1])}}
    /\ pc' = "pselect"
    /\ UNCHANGED <<tableVars, watch, ready, left, timeout, sleep, result, polled, steady>>

-----------------------------------------------------------------------------
(* pselect() looks at the numbers below nfds. *)
NfdsWithoutOne == Max({0} \cup {s[1] : s \in sets})

nfds == Max({0} \cup {s[1] + 1 : s \in sets})

Watched == {s \in sets : s[1] < nfds}

(* pselect() refuses numbers that stand for nothing, or has no memory. *)
PselectFails ==
    /\ pc = "pselect"
    /\ \/ (\E s \in Watched : ~IsLive(s[1])) /\ Return("EBADF")
       \/ Return("ENOMEM")
    /\ UNCHANGED <<tableVars, watch, ready, sets>>

PselectSleeps ==
    /\ pc = "pselect"
    /\ \A s \in Watched : IsLive(s[1])
    /\ pc' = "asleep"
    /\ sleep' = timeout
    /\ polled' = TRUE
    /\ UNCHANGED <<tableVars, watch, ready, left, timeout, sets, result, steady>>

(* It returns a positive number when something is ready,  *)
DescriptorReady ==
    /\ pc = "asleep"
    /\ Watched \cap ready # {}
    /\ Return("ready")
    /\ UNCHANGED <<tableVars, watch, ready, sets>>

(* else 0 when its time is over, or EINTR; the loop computes what is left. *)
NothingReadyKeepingTimeout ==
    /\ pc = "asleep"
    /\ Watched \cap ready = {}
    /\ pc' = "loop"
    /\ UNCHANGED <<tableVars, watch, ready, left, timeout, sets, sleep, result, polled, steady>>

NothingReadyMeansPassed ==
    /\ pc = "asleep"
    /\ Watched \cap ready = {}
    /\ Return("passed")
    /\ UNCHANGED <<tableVars, watch, ready, sets>>

NothingReady ==
    /\ pc = "asleep"
    /\ Watched \cap ready = {}
    /\ pc' = "loop"
    /\ timeout' = left
    /\ UNCHANGED <<tableVars, watch, ready, left, sets, sleep, result, polled, steady>>

TimeOver    == sleep = 0 /\ NothingReady
Interrupted == sleep > 0 /\ NothingReady

(* getMonotonicTime() throws, before the loop or at its end. *)
ClockThrows ==
    /\ \/ pc = "idle"
       \/ pc = "asleep" /\ Watched \cap ready = {}
    /\ Return("noClock")
    /\ UNCHANGED <<tableVars, watch, ready, sets>>

-----------------------------------------------------------------------------
(* The clock goes on; between calls nobody looks at it. *)
Tick ==
    /\ pc # "idle"
    /\ left' = Max({left - 1, Past})
    /\ sleep' = Max({sleep - 1, 0})
    /\ UNCHANGED <<tableVars, watch, ready, callVars, steady>>

(* Data come and are taken, buffers fill and drain. *)
Readiness ==
    /\ \E f \in Fds, dir \in Dirs :
          \/ IsLive(f) /\ ready' = ready \cup {<<f, dir>>}
          \/ ready' = ready \ {<<f, dir>>}
    /\ UNCHANGED <<tableVars, watch, left, sleep, callVars>>
    /\ SteadyFollows

(* The objects' own methods, and the rest of the process. *)
Registered(o) == \E dir \in Dirs : <<o, dir>> \in watch

Owners ==
    /\ \/ \E o \in Objects :
             /\ pc = "idle" \/ ~Registered(o)
             /\ \/ Acquire(o) \/ CloseOk(o) \/ CloseThrows(o)
                \/ ~Registered(o) /\ Destructor(o)
       \/ ForeignOpen
       \/ ForeignClose
    /\ ReadyFollows
    /\ UNCHANGED <<watch, left, sleep, callVars>>
    /\ SteadyFollows

-----------------------------------------------------------------------------
Init ==
    /\ TableInit
    /\ watch = {}
    /\ ready = {}
    /\ left = Past
    /\ timeout = 0
    /\ sets = {}
    /\ sleep = 0
    /\ pc = "idle"
    /\ result = "none"
    /\ polled = FALSE
    /\ steady = {}

Next ==
    \/ \E o \in Objects, dir \in Dirs : Add(o, dir) \/ Del(o, dir)
    \/ \E moment \in Past .. MaxWait : WaitUntil(moment)
    \/ MomentPassed
    \/ Select
    \/ PselectFails
    \/ PselectSleeps
    \/ DescriptorReady
    \/ TimeOver
    \/ Interrupted
    \/ ClockThrows
    \/ Tick
    \/ Readiness
    \/ Owners

Spec == Init /\ [][Next]_vars

(* The waiter's thread runs, the kernel ends a sleep that is over, and     *)
(* time goes on.  Signals and readiness are never owed.                    *)
Fairness ==
    /\ WF_vars(MomentPassed \/ Select)
    /\ WF_vars(PselectFails \/ PselectSleeps)
    /\ WF_vars(DescriptorReady \/ TimeOver)
    /\ WF_vars(Tick)

FairSpec == Spec /\ Fairness

-----------------------------------------------------------------------------
TypeOK ==
    /\ TableTypeOK
    /\ watch \in SUBSET (Objects \X Dirs)
    /\ ready \in SUBSET (Fds \X Dirs)
    /\ left \in Past .. MaxWait
    /\ timeout \in Past .. MaxWait
    /\ sets \in SUBSET (Fds \X Dirs)
    /\ sleep \in 0 .. MaxWait
    /\ pc \in {"idle", "loop", "pselect", "asleep"}
    /\ result \in Results
    /\ polled \in BOOLEAN
    /\ steady \in SUBSET watch

Returns(r) == pc # "idle" /\ pc' = "idle" /\ result' = r

(* waitUntil() answers true no more than ZeroTime before the moment,       *)
(* however often a signal woke it.  The code does not keep more, though    *)
(* CFdWaiter.h:56 says "true if moment is passed" and testCFdWaiter.cpp:145 *)
(* asserts it: the loop ends with ZeroTime left.                           *)
NotEarly == [][ Returns("passed") => left <= ZeroTime ]_vars

(* false means that a registered object can be read or written at the      *)
(* moment pselect() returns: never a number the object gave up, and never  *)
(* somebody else's.                                                        *)
FalseMeansReady ==
    [][ Returns("ready") => staleKept \/
            \E w \in OwnReady : isOpen(w[1]) /\ files[fd[w[1]]] = w[1] ]_vars

(* A descriptor that was ready throughout a call that slept is not missed, *)
(* even when the time is over or a signal comes first.                     *)
SteadyIsSeen ==
    [][ Returns("passed") /\ polled => steady = {} \/ staleKept ]_vars

(* The sets that select() fills hold no number that stands for nothing,    *)
(* for closed objects are skipped.                                         *)
NeverBadDescriptor == result = "EBADF" => staleKept

(* waitUntil() returns, however many signals come. *)
WaitReturns == (pc # "idle") ~> (pc = "idle")

=============================================================================

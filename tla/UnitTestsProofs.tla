----------------------------- MODULE UnitTestsProofs -----------------------------
(***************************************************************************)
(* What the classes keep apart they keep together: the composed process    *)
(* keeps the ownership contract, runs one method at a time, has nothing    *)
(* left when a test is over, and knows where every datagram comes from.    *)
(* Of a script only what ScriptAssumption says is used, so that all this   *)
(* holds of every test that can be written in such lines.                  *)
(***************************************************************************)
EXTENDS UnitTests, DescriptorTableProofs

AllCalls   == Sock!Calls \cup Rcv!Calls \cup Snd!Calls
AllResults == Sock!Results \cup Rcv!Results \cup Snd!Results

ControlTypeOK ==
    /\ TableTypeOK
    /\ pc \in [Objects -> AllCalls]
    /\ ret \in [Objects -> AllResults]

(* Whoever is about to call socket() holds no number. *)
SocketNeedsNoNumber == \A o \in Objects : pc[o] = "socket" => ~isOpen(o)

(* A new object is closed, and runs nothing. *)
NewIsClosed == \A o \in Objects : ret[o] = "new" => pc[o] = "idle" /\ ~isOpen(o)

(* One thread: only the method of the present line runs, or the lookup     *)
(* that it waits for.                                                      *)
OneAtATime ==
    /\ \A o \in Objects : pc[o] # "idle" => line.object = o
    /\ wpc # "idle" => line.object = "waiter"
    /\ ipc # "idle" => \/ line.object = "lookup"
                       \/ line.object \in Objects /\ pc[line.object] = "list"

(* A list of interfaces exists while it is searched. *)
ListHeld == held = IF ipc = "search" THEN 1 ELSE 0

IInv == /\ ControlTypeOK
        /\ SocketNeedsNoNumber
        /\ NewIsClosed
        /\ OneAtATime
        /\ ListHeld

-----------------------------------------------------------------------------
(* The three classes work on one table. *)
LEMMA SocketTable ==
    ASSUME NEW o \in Objects
    PROVE  /\ Sock!isOpen(o) <=> isOpen(o)
           /\ Sock!CloseOk(o) <=> CloseOk(o)
           /\ Sock!CloseThrows(o) <=> CloseThrows(o)
           /\ Sock!SocketOk(o) <=> SocketOk(o)
           /\ Sock!SocketFails(o) <=> SocketFails(o)
           /\ Sock!Destructor(o) <=> Destructor(o)
           /\ UNCHANGED Sock!tableVars <=> UNCHANGED tableVars
BY DEF Sock!isOpen, Sock!CloseOk, Sock!CloseThrows, Sock!SocketOk, Sock!SocketFails,
       Sock!Destructor, Sock!tableVars, Sock!IsLive, Sock!LowestFree, Sock!FreeFds,
       Sock!Fds, Sock!NoFd,
       isOpen, CloseOk, CloseThrows, SocketOk, SocketFails, Destructor, tableVars, IsLive,
       LowestFree, FreeFds, Fds, NoFd

LEMMA ReceiverTable ==
    ASSUME NEW o \in Objects
    PROVE  /\ Rcv!isOpen(o) <=> isOpen(o)
           /\ Rcv!CloseOk(o) <=> CloseOk(o)
           /\ Rcv!CloseThrows(o) <=> CloseThrows(o)
           /\ Rcv!SocketOk(o) <=> SocketOk(o)
           /\ Rcv!SocketFails(o) <=> SocketFails(o)
           /\ Rcv!Destructor(o) <=> Destructor(o)
           /\ UNCHANGED Rcv!tableVars <=> UNCHANGED tableVars
BY DEF Rcv!isOpen, Rcv!CloseOk, Rcv!CloseThrows, Rcv!SocketOk, Rcv!SocketFails,
       Rcv!Destructor, Rcv!tableVars, Rcv!IsLive, Rcv!LowestFree, Rcv!FreeFds,
       Rcv!Fds, Rcv!NoFd,
       isOpen, CloseOk, CloseThrows, SocketOk, SocketFails, Destructor, tableVars, IsLive,
       LowestFree, FreeFds, Fds, NoFd

LEMMA SenderTable ==
    ASSUME NEW o \in Objects
    PROVE  /\ Snd!isOpen(o) <=> isOpen(o)
           /\ Snd!CloseOk(o) <=> CloseOk(o)
           /\ Snd!CloseThrows(o) <=> CloseThrows(o)
           /\ Snd!SocketOk(o) <=> SocketOk(o)
           /\ Snd!SocketFails(o) <=> SocketFails(o)
           /\ Snd!Destructor(o) <=> Destructor(o)
           /\ UNCHANGED Snd!tableVars <=> UNCHANGED tableVars
BY DEF Snd!isOpen, Snd!CloseOk, Snd!CloseThrows, Snd!SocketOk, Snd!SocketFails,
       Snd!Destructor, Snd!tableVars, Snd!IsLive, Snd!LowestFree, Snd!FreeFds,
       Snd!Fds, Snd!NoFd,
       isOpen, CloseOk, CloseThrows, SocketOk, SocketFails, Destructor, tableVars, IsLive,
       LowestFree, FreeFds, Fds, NoFd

-----------------------------------------------------------------------------
(* What a step of any class does to the table and to the object's place in *)
(* its method, without the rest.                                           *)
Sets(o, call, end) ==
    /\ pc' = [pc EXCEPT ![o] = call]
    /\ ret' = [ret EXCEPT ![o] = end]

Ends(o) == \E call \in AllCalls \ {"socket"}, end \in AllResults \ {"new"} :
               Sets(o, call, end)

(* It waits, or goes on, and the table stays; *)
Stays(o) == UNCHANGED tableVars /\ (UNCHANGED <<pc, ret>> \/ Ends(o))

(* it will call socket(), and holds no number; *)
Prepares(o) ==
    /\ CloseOk(o) \/ (~isOpen(o) /\ UNCHANGED tableVars)
    /\ Sets(o, "socket", "running")

(* it calls socket(); *)
Acquires(o) ==
    /\ pc[o] = "socket"
    /\ SocketOk(o) \/ SocketFails(o)
    /\ Ends(o)

(* it closes; *)
Closes(o) == (CloseOk(o) \/ CloseThrows(o)) /\ Ends(o)

(* it is destroyed, and another takes its place. *)
IsRenewed(o) ==
    /\ Destructor(o) \/ (~isOpen(o) /\ UNCHANGED tableVars)
    /\ \E end \in AllResults : Sets(o, "idle", end)

Effect(o) == Stays(o) \/ Prepares(o) \/ Acquires(o) \/ Closes(o) \/ IsRenewed(o)

(* A method begins in its line, or is a destructor at the end of the test. *)
InTurn(o) ==
    /\ pc[o] # "list"
    /\ pc[o] = "idle" => line.object = o \/ (Ended /\ pc'[o] = "idle")

LEMMA InheritedEffect ==
    ASSUME IInv, NEW o \in Objects, InheritedStep(o)
    PROVE  Effect(o) /\ InTurn(o)
BY SocketTable
   DEF IInv, ControlTypeOK, InheritedStep, OfSocket, Calls, Effect, Stays, Ends, Sets, InTurn,
       Sock!GetFl, Sock!SetFl, Sock!Goto, Sock!Return, AllCalls, AllResults, Sock!Calls,
       Sock!Results

LEMMA SocketEffect ==
    ASSUME IInv, NEW o \in Objects, SocketStep(o)
    PROVE  Effect(o) /\ InTurn(o)
<1> USE SocketTable
    DEF IInv, ControlTypeOK, OfSocket, Calls, Leaves, Sets, Ends, AllCalls, AllResults,
        Sock!Calls, Sock!Results, Sock!Goto, Sock!Return, InTurn, Effect
<1>1. CASE Calls(o, "openUdpSocket") /\ Sock!OpenUdpSocket(o)
    BY <1>1 DEF Sock!OpenUdpSocket, Prepares, Closes
<1>2. CASE \/ Calls(o, "closeUdpSocket") /\ Sock!CloseUdpSocket(o)
           \/ (Calls(o, "closeAndThrow") \/ pc[o] # "idle") /\ Sock!CloseAndThrow(o)
    BY <1>2 DEF Sock!CloseUdpSocket, Sock!CloseAndThrow, Closes
<1>3. CASE \/ Calls(o, "bind")        /\ Sock!Bind(o)
           \/ Calls(o, "sendTo")      /\ Sock!CallSendTo(o)
           \/ Calls(o, "receiveFrom") /\ Sock!CallReceiveFrom(o)
           \/ Sock!ReceiveResult(o)
           \/ Sock!SendResult(o)
           \/ Sock!Interrupted(o)
    BY <1>3 DEF Sock!Bind, Sock!CallSendTo, Sock!CallReceiveFrom, Sock!ReceiveResult,
                Sock!SendResult, Sock!Interrupted, Sock!vars, Sock!tableVars, tableVars, Stays
<1>4. CASE Leaves(o) /\ Sock!Destroy(o)
    BY <1>4 DEF Sock!Destroy, IsRenewed
<1>5. CASE Sock!OpenSocket(o)
    BY <1>5 DEF Sock!OpenSocket, Acquires
<1> QED
    BY <1>1, <1>2, <1>3, <1>4, <1>5 DEF SocketStep, SendTo

LEMMA ReceiverEffect ==
    ASSUME IInv, NEW o \in Objects, ReceiverStep(o)
    PROVE  Effect(o) /\ InTurn(o)
<1> USE ReceiverTable
    DEF IInv, ControlTypeOK, OfReceiver, Calls, Leaves, Sets, Ends, AllCalls, AllResults,
        Rcv!Calls, Rcv!Results, Rcv!Goto, Rcv!Return, Rcv!Throw, InTurn, Effect
<1>1. CASE Calls(o, "openReceiver") /\ Rcv!Open(o, line.arg)
    BY <1>1 DEF Rcv!Open, Prepares, Closes
<1>2. CASE Calls(o, "copy") /\ Rcv!Copy(o, line.arg)
    BY <1>2 DEF Rcv!Copy, NewIsClosed, Prepares, Stays
<1>3. CASE \/ Calls(o, "receive") /\ Rcv!CallReceive(o)
           \/ Rcv!Receive(o) \/ Rcv!Skip(o) \/ Rcv!ReceiveError(o)
    BY <1>3 DEF Rcv!CallReceive, Rcv!Receive, Rcv!Skip, Rcv!ReceiveError, Stays
<1>4. CASE Leaves(o) /\ Rcv!Destroy(o)
    BY <1>4 DEF Rcv!Destroy, Rcv!Renew, IsRenewed
<1>5. CASE Rcv!Socket(o)
    BY <1>5 DEF Rcv!Socket, Acquires
<1>6. CASE Rcv!SetReuseAddr(o) \/ Rcv!Bind(o) \/ Rcv!SetMulticastAll(o)
    BY <1>6 DEF Rcv!SetReuseAddr, Rcv!Bind, Rcv!SetMulticastAll, Stays
<1>7. CASE Rcv!Join(o)
    BY <1>7 DEF Rcv!Join, Stays
<1>8. CASE Rcv!Fail(o)
    BY <1>8 DEF Rcv!Fail, Closes
<1> QED
    BY <1>1, <1>2, <1>3, <1>4, <1>5, <1>6, <1>7, <1>8 DEF ReceiverStep

LEMMA SenderEffect ==
    ASSUME IInv, NEW o \in Objects, SenderStep(o)
    PROVE  Effect(o) /\ InTurn(o)
<1> USE SenderTable
    DEF IInv, ControlTypeOK, OfSender, Calls, Leaves, Sets, Ends, AllCalls, AllResults,
        Snd!Calls, Snd!Results, Snd!Goto, Snd!Return, InTurn, Effect
<1>1. CASE Calls(o, "openSender") /\ Snd!Begin(o, line.arg)
    BY <1>1 DEF Snd!Begin, Prepares, Closes
<1>2. CASE \/ Calls(o, "send") /\ Snd!CallSend(o)
           \/ Snd!Bind(o) \/ Snd!SetMulticastIf(o) \/ Snd!Send(o) \/ Snd!Interrupted(o)
    BY <1>2 DEF Snd!CallSend, Snd!Bind, Snd!SetMulticastIf, Snd!Send, Snd!Interrupted, Stays
<1>3. CASE Leaves(o) /\ Snd!Destroy(o)
    BY <1>3 DEF Snd!Destroy, Snd!Renew, IsRenewed
<1>4. CASE Snd!Socket(o)
    BY <1>4 DEF Snd!Socket, Acquires
<1>5. CASE Snd!Fail(o)
    BY <1>5 DEF Snd!Fail, Closes
<1> QED
    BY <1>1, <1>2, <1>3, <1>4, <1>5 DEF SenderStep, Multicast

LEMMA ObjectEffect ==
    ASSUME IInv, NEW o \in Objects, ObjectStep(o)
    PROVE  Effect(o) /\ InTurn(o)
BY InheritedEffect, SocketEffect, ReceiverEffect, SenderEffect DEF ObjectStep

-----------------------------------------------------------------------------
(* The steps that no object makes leave the objects alone; the lookup that *)
(* a receiver waits for ends a call in the middle of its open().           *)
LEMMA WaiterEffect ==
    ASSUME WaiterStep \/ Tick
    PROVE  /\ UNCHANGED <<objectVars, lookupVars, test>>
           /\ \/ Tick /\ UNCHANGED <<at, wpc>>
              \/ /\ wpc = "idle" => line.object = "waiter"
                 /\ at' # at => wpc' = "idle"
BY DEF WaiterStep, Tick, OfWaiter, Calls, Advances, Wtr!Add, Wtr!Del, Wtr!WaitUntil,
       Wtr!MomentPassed, Wtr!Select, Wtr!PselectFails, Wtr!PselectSleeps,
       Wtr!DescriptorReady, Wtr!TimeOver, Wtr!Interrupted, Wtr!NothingReady, Wtr!Tick,
       Wtr!Return, Wtr!callVars

LEMMA LookupEffect ==
    ASSUME IInv, LookupStep
    PROVE  /\ UNCHANGED <<tableVars, wpc, test>>
           /\ at' # at => line.object = "lookup" /\ ipc' = "idle"
           /\ held' = IF ipc' = "search" THEN 1 ELSE 0
           /\ \/ UNCHANGED <<pc, ret>> /\ (ipc = "idle" => line.object = "lookup")
              \/ UNCHANGED <<pc, ret>> /\ \E o \in Objects : pc[o] = "list"
              \/ /\ ipc' = "idle"
                 /\ \E o \in Objects : pc[o] = "list" /\ Ends(o)
<1> USE DEF IInv, ListHeld
<1> DEFINE Begin == \/ \E subject : \/ If!retrieveInterfaceAdressFromAddress(subject)
                                    \/ If!getIpV4InterfaceAddresses(subject)
                    \/ If!getAPrivateNetworkInterface
           Go    == If!GetIfAddrs \/ If!GetIfAddrsFails \/ If!NextRange
           Held  == held' = IF ipc' = "search" THEN 1 ELSE 0
<1>1. UNCHANGED test /\ (at' # at => line.object = "lookup" /\ ipc' = "idle")
    BY DEF LookupStep, Advances
<1>2. Begin => ipc = "idle" /\ ipc' = "get" /\ Held
    BY DEF If!retrieveInterfaceAdressFromAddress, If!getIpV4InterfaceAddresses,
           If!getAPrivateNetworkInterface, If!Call
<1>3. Go => ipc # "idle" /\ Held
    BY DEF If!GetIfAddrs, If!GetIfAddrsFails, If!NextRange, If!FreeList, If!End
<1>4. LookupReturns => ipc = "search" /\ ipc' = "idle" /\ Held
    BY DEF LookupReturns, If!SearchAll, If!SearchOne, If!SearchNone, If!Return, If!FreeList,
           If!End
<1>5. CASE OfLookup(Go \/ LookupReturns \/ (line.object = "lookup" /\ Begin))
    BY <1>1, <1>2, <1>3, <1>4, <1>5 DEF OfLookup, objectVars, waiterVars
<1>6. ASSUME NEW o \in Listing, LookUp(o)
      PROVE  /\ UNCHANGED <<tableVars, wpc, pc, ret>> /\ Held
             /\ \E p \in Objects : pc[p] = "list"
    <2>1. OfLookup(Begin)
        BY <1>6 DEF LookUp, OfLookup
    <2>2. o \in Objects /\ pc[o] = "list"
        BY HostAssumption DEF Listing
    <2> QED
        BY <1>2, <2>1, <2>2 DEF OfLookup, objectVars, waiterVars
<1>7. ASSUME NEW o \in Listing, UseLookup(o)
      PROVE  /\ UNCHANGED <<tableVars, wpc>> /\ Held /\ ipc' = "idle"
             /\ \E p \in Objects : pc[p] = "list" /\ Ends(p)
    <2>1. o \in Objects /\ pc[o] = "list"
        BY HostAssumption DEF Listing
    <2>2. UNCHANGED tableVars /\ Ends(o)
        BY <1>7, <2>1, ReceiverTable
           DEF UseLookup, OfReceiver, Rcv!ListInterfaces, Rcv!Goto, Rcv!Throw, Rcv!Return,
               Ends, Sets, AllCalls, AllResults, Rcv!Calls, Rcv!Results
    <2> QED
        BY <1>4, <1>7, <2>1, <2>2 DEF UseLookup, OfReceiver, waiterVars
<1>8. \/ OfLookup(Go \/ LookupReturns \/ (line.object = "lookup" /\ Begin))
      \/ \E o \in Listing : LookUp(o)
      \/ \E o \in Listing : UseLookup(o)
    BY DEF LookupStep, OfLookup, Calls
<1> QED
    BY <1>1, <1>5, <1>6, <1>7, <1>8

-----------------------------------------------------------------------------
(* Every step of the process is a step of the contract, or nothing to it.  *)
LEMMA TableStep == IInv /\ [Next]_vars => [TableNext]_tableVars
<1> SUFFICES ASSUME IInv, [Next]_vars
             PROVE  [TableNext]_tableVars
    OBVIOUS
<1>1. ASSUME NEW o \in Objects, ObjectStep(o)
      PROVE  [TableNext]_tableVars
    BY <1>1, ObjectEffect
       DEF Effect, Stays, Prepares, Acquires, Closes, IsRenewed, IInv, SocketNeedsNoNumber,
           Acquire, TableNext
<1>2. CASE WaiterStep \/ Tick
    BY <1>2, WaiterEffect DEF objectVars, tableVars
<1>3. CASE LookupStep
    BY <1>3, LookupEffect
<1>4. CASE TestStep \/ Arrive \/ UNCHANGED vars
    BY <1>4 DEF TestStep, Arrive, vars, hostVars, objectVars, tableVars
<1> QED
    BY <1>1, <1>2, <1>3, <1>4 DEF Next

(* What an object's step leaves: the others as they are, and itself closed *)
(* where it has to be.                                                     *)
LEMMA EffectKeeps ==
    ASSUME IInv, TableTypeOK', NEW o \in Objects, Effect(o)
    PROVE  /\ ControlTypeOK' /\ SocketNeedsNoNumber' /\ NewIsClosed'
           /\ \A p \in Objects \ {o} : pc'[p] = pc[p] /\ fd'[p] = fd[p]
<1> USE DEF IInv, ControlTypeOK
<1>1. \E call \in AllCalls, end \in AllResults : Sets(o, call, end)
    <2>1. "idle" \in AllCalls /\ "socket" \in AllCalls /\ "running" \in AllResults
        BY DEF AllCalls, AllResults, Sock!Calls, Sock!Results
    <2>2. UNCHANGED <<pc, ret>> => Sets(o, pc[o], ret[o])
        BY DEF Sets
    <2> QED
        BY <2>1, <2>2 DEF Effect, Stays, Prepares, Acquires, Closes, IsRenewed, Ends
<1>2. /\ pc' \in [Objects -> AllCalls] /\ ret' \in [Objects -> AllResults]
      /\ \A p \in Objects \ {o} : pc'[p] = pc[p] /\ ret'[p] = ret[p]
    BY <1>1 DEF Sets
<1>3. \A p \in Objects \ {o} : fd'[p] = fd[p]
    BY DEF Effect, Stays, Prepares, Acquires, Closes, IsRenewed, CloseOk, CloseThrows,
           SocketOk, SocketFails, Destructor, TableTypeOK, tableVars
<1>4. pc'[o] = "socket" => ~isOpen(o)'
    BY DEF Effect, Stays, Prepares, Acquires, Closes, IsRenewed, Ends, Sets, CloseOk,
           isOpen, NoFd, TableTypeOK, tableVars, SocketNeedsNoNumber
<1>5. ret'[o] = "new" => pc'[o] = "idle" /\ ~isOpen(o)'
    BY DEF Effect, Stays, Prepares, Acquires, Closes, IsRenewed, Ends, Sets, Destructor,
           isOpen, NoFd, TableTypeOK, tableVars, NewIsClosed
<1> QED
    BY <1>2, <1>3, <1>4, <1>5 DEF SocketNeedsNoNumber, NewIsClosed, isOpen

LEMMA InitInv == Init => IInv
<1> SUFFICES ASSUME Init PROVE IInv
    OBVIOUS
<1>1. TableTypeOK
    BY TableAssumption DEF Init, HostInit, TableInit, TableTypeOK
<1>2. "idle" \in AllCalls /\ "new" \in AllResults
    BY DEF AllCalls, AllResults, Sock!Calls, Rcv!Results
<1> QED
    BY <1>1, <1>2
       DEF Init, HostInit, TableInit, IInv, ControlTypeOK, SocketNeedsNoNumber, NewIsClosed,
           OneAtATime, ListHeld, isOpen, NoFd

LEMMA StepInv == IInv /\ [Next]_vars => IInv'
<1> SUFFICES ASSUME IInv, [Next]_vars
             PROVE  IInv'
    OBVIOUS
<1> USE DEF IInv
<1>a. TableTypeOK'
    BY TableStep, TableTypeStep DEF ControlTypeOK
<1>b. UNCHANGED <<test, at>> => line' = line
    BY DEF line, Ended, Script
<1>c. Ended => line.object = "test"
    BY DEF line, Do, Does
<1>d. \A o \in Objects : o \notin {"test", "waiter", "lookup"}
    BY LineAssumption
<1> DEFINE Idle == (\A o \in Objects : pc[o] = "idle") /\ wpc = "idle" /\ ipc = "idle"
<1>e. Idle' => OneAtATime'
    BY DEF OneAtATime
<1>1. ASSUME NEW o \in Objects, ObjectStep(o)
      PROVE  IInv'
    <2>1. /\ Effect(o) /\ InTurn(o)
          /\ UNCHANGED <<held, ipc, test>>
          /\ at' # at => pc'[o] = "idle"
        BY <1>1, ObjectEffect DEF ObjectStep, lookupVars, Advances
    <2>2. UNCHANGED wpc
        BY <1>1 DEF ObjectStep, InheritedStep, SocketStep, ReceiverStep, SenderStep, SendTo,
                    Multicast, OfSocket, OfReceiver, OfSender, waiterVars
    <2>3. \A p \in Objects \ {o} : pc'[p] = pc[p]
        BY <1>a, <2>1, EffectKeeps
    <2>4. line.object = o \/ (Ended /\ pc[o] = "idle" /\ pc'[o] = "idle")
        BY <2>1 DEF InTurn, OneAtATime
    <2>5. (\A p \in Objects \ {o} : pc[p] = "idle") /\ wpc = "idle" /\ ipc = "idle"
        BY <1>c, <1>d, <2>1, <2>4 DEF InTurn, OneAtATime
    <2>6. OneAtATime'
        <3>1. CASE pc'[o] = "idle"
            BY <1>e, <2>1, <2>2, <2>3, <2>5, <3>1
        <3>2. CASE pc'[o] # "idle"
            <4>1. line' = line /\ line.object = o
                BY <1>b, <2>1, <2>4, <3>2
            <4> QED
                BY <2>1, <2>2, <2>3, <2>5, <4>1 DEF OneAtATime
        <3> QED
            BY <3>1, <3>2
    <2> QED
        BY <1>a, <2>1, <2>6, EffectKeeps DEF ListHeld
<1>2. CASE WaiterStep \/ Tick
    <2>1. /\ UNCHANGED <<fd, pc, ret, held, ipc, test>>
          /\ \/ UNCHANGED <<at, wpc>>
             \/ (wpc = "idle" => line.object = "waiter") /\ (at' # at => wpc' = "idle")
        BY <1>2, WaiterEffect DEF objectVars, lookupVars, tableVars
    <2>2. OneAtATime'
        <3>1. CASE UNCHANGED <<at, wpc>>
            BY <1>b, <2>1, <3>1 DEF OneAtATime
        <3>2. CASE (wpc = "idle" => line.object = "waiter") /\ (at' # at => wpc' = "idle")
            <4>1. line.object = "waiter"
                BY <3>2 DEF OneAtATime
            <4>2. (\A o \in Objects : pc[o] = "idle") /\ ipc = "idle"
                BY <1>d, <4>1 DEF OneAtATime
            <4>3. CASE wpc' = "idle"
                BY <1>e, <2>1, <4>2, <4>3
            <4>4. CASE at' = at
                BY <1>b, <2>1, <4>1, <4>2, <4>4 DEF OneAtATime
            <4> QED
                BY <3>2, <4>3, <4>4
        <3> QED
            BY <2>1, <3>1, <3>2
    <2> QED
        BY <1>a, <2>1, <2>2
           DEF ControlTypeOK, SocketNeedsNoNumber, NewIsClosed, ListHeld, isOpen
<1>3. CASE LookupStep
    <2>1. /\ UNCHANGED <<tableVars, wpc, test>>
          /\ at' # at => line.object = "lookup" /\ ipc' = "idle"
          /\ ListHeld'
        BY <1>3, LookupEffect DEF ListHeld
    <2>2. CASE UNCHANGED <<pc, ret>>
        <3>1. line.object = "lookup" \/ (line.object \in Objects /\ pc[line.object] = "list")
            BY <1>3, LookupEffect DEF OneAtATime
        <3>2. ASSUME at' = at PROVE OneAtATime'
            BY <1>b, <2>1, <2>2, <3>1, <3>2 DEF OneAtATime
        <3>3. ASSUME at' # at PROVE OneAtATime'
            <4>1. Idle'
                BY <1>d, <2>1, <2>2, <3>3 DEF OneAtATime
            <4> QED
                BY <1>e, <4>1
        <3>4. OneAtATime'
            BY <3>2, <3>3
        <3> QED
            BY <1>a, <2>1, <2>2, <3>4
               DEF ControlTypeOK, SocketNeedsNoNumber, NewIsClosed, isOpen, tableVars
    <2>3. ASSUME NEW o \in Objects, pc[o] = "list", Ends(o), ipc' = "idle"
          PROVE  IInv'
        <3>1. Effect(o)
            BY <2>1, <2>3 DEF Effect, Stays
        <3>2. ControlTypeOK' /\ SocketNeedsNoNumber' /\ NewIsClosed'
            BY <1>a, <3>1, EffectKeeps
        <3>3. line.object = o /\ at' = at
            BY <1>d, <2>1, <2>3 DEF OneAtATime
        <3>4. line'.object = o
            BY <1>b, <2>1, <3>3
        <3>5. wpc = "idle" /\ \A p \in Objects \ {o} : pc'[p] = "idle"
            BY <1>a, <1>d, <3>1, <3>3, EffectKeeps DEF OneAtATime
        <3>6. OneAtATime'
            BY <2>1, <2>3, <3>4, <3>5 DEF OneAtATime
        <3> QED
            BY <2>1, <3>2, <3>6
    <2> QED
        BY <1>3, <2>2, <2>3, LookupEffect
<1>4. CASE TestStep
    <2>1. line.object = "test" /\ UNCHANGED hostVars
        BY <1>4 DEF TestStep, Calls
    <2>2. Idle'
        BY <1>d, <2>1
           DEF OneAtATime, hostVars, objectVars, waiterVars, lookupVars
    <2> QED
        BY <1>a, <1>e, <2>1, <2>2
           DEF ControlTypeOK, SocketNeedsNoNumber, NewIsClosed, ListHeld, isOpen, hostVars,
               objectVars, tableVars, lookupVars
<1>5. CASE (Arrive /\ UNCHANGED <<test, at>>) \/ UNCHANGED vars
    <2>1. UNCHANGED <<fd, pc, ret, wpc, ipc, held, test, at>>
        BY <1>5 DEF Arrive, vars, hostVars, objectVars, waiterVars, lookupVars, tableVars
    <2> QED
        BY <1>a, <1>b, <2>1
           DEF ControlTypeOK, SocketNeedsNoNumber, NewIsClosed, OneAtATime, ListHeld, isOpen
<1> QED
    BY <1>1, <1>2, <1>3, <1>4, <1>5 DEF Next

THEOREM AlwaysIInv == Spec => []IInv
BY InitInv, StepInv, PTL DEF Spec

(* Whatever a test does with the classes together, with any faults its     *)
(* proxy injects: socket() is called only by an object that holds no       *)
(* number, and the table changes in no other way.                          *)
THEOREM KeepsContract == Spec => TableSpec
<1>1. Init => TableInit
    BY DEF Init, HostInit
<1> QED
    BY <1>1, TableStep, AlwaysIInv, PTL DEF Spec, TableSpec

(* Every CPPUNIT test gives back what it took: when its objects are gone   *)
(* no descriptor of theirs is open, and no list of getifaddrs() is left.   *)
THEOREM TestsLeaveNothing == Spec => []NothingLeft
<1>1. TableTypeOK /\ NoLeak /\ IInv => NothingLeft
    <2> SUFFICES ASSUME TableTypeOK, NoLeak, IInv, Finished
                 PROVE  (\A f \in Fds : files[f] \in {Free, Foreign}) /\ held = 0
        BY DEF NothingLeft
    <2>1. \A f \in Fds, o \in Objects : files[f] # o
        BY DEF NoLeak, Finished, isOpen, Fds
    <2>2. line.object = "test"
        BY DEF Finished, line, Do, Does
    <2>3. ipc = "idle"
        BY <2>2, LineAssumption DEF IInv, OneAtATime
    <2> QED
        BY <2>1, <2>3 DEF TableTypeOK, IInv, ListHeld
<1>2. Spec => [](TableTypeOK /\ NoLeak)
    BY KeepsContract, TableTypeCorrect, TableNeverLeaks, PTL
<1> QED
    BY <1>1, <1>2, AlwaysIInv, PTL

-----------------------------------------------------------------------------
(* Types.  That a datagram under way names an interface of the host and a  *)
(* port of a sender rests on what each sender keeps in three places.       *)
LineArgs == UNION {{Scripts[t][i].arg : i \in 1 .. Len(Scripts[t])} : t \in DOMAIN Scripts}
Asked    == {r \in JoinRequests : /\ r = Joins(r.source, r.port, r.group)
                                  /\ r.port # -1
                                  /\ [addr |-> r.source, bits |-> 0] \in Subjects}
Packets  == [to : {None}, iface : Snd!Ifaces \cup {Default}, datagram : Datagrams]
            \cup [to : LineArgs \ {None}]

ScriptTypes ==
    /\ test \in DOMAIN Scripts
    /\ at \in 1 .. Len(Script) + 1
    /\ signals \in Nat
    /\ calls \in [DOMAIN NoCalls -> Nat]

CallTypes ==
    /\ \A o \in Sockets   : pc[o] \in Sock!Calls
    /\ \A o \in Receivers : pc[o] \in Rcv!Calls \cup {"setfl"}
    /\ \A o \in Senders   : pc[o] \in Snd!Calls \cup {"setfl"}

SocketTypes ==
    /\ nonblock \in SUBSET Fds
    /\ bound \in SUBSET Fds
    /\ queue \in [Fds -> 0 .. MaxQueue]

ReceiverTypes ==
    /\ joinable \in SUBSET Fds
    /\ inbox \in [Fds -> Seq(Datagrams)]
    /\ \A f \in Fds : Len(inbox[f]) <= MaxInbox
    /\ config \in [Objects -> Asked \cup {Rcv!Fresh}]

SenderTypes ==
    /\ dest \in [Objects -> Snd!Groups \cup {Unset}]
    /\ asked \in [Objects -> SendRequests \cup {None}]
    /\ local \in [Fds -> Snd!Ifaces \cup {Default}]
    /\ outIf \in [Fds -> Snd!Ifaces \cup {Default}]

WaiterTypes ==
    /\ watch \in SUBSET (Objects \X Wtr!Dirs)
    /\ left \in Wtr!Past .. MaxWait
    /\ timeout \in Wtr!Past .. MaxWait
    /\ sets \in SUBSET (Fds \X Wtr!Dirs)
    /\ sleep \in 0 .. MaxWait
    /\ wpc \in {"idle", "loop", "pselect", "asleep"}
    /\ result \in Wtr!Results
    /\ polled \in BOOLEAN
    /\ steady \in SUBSET watch
    /\ wpc = "idle" => steady = {}
    /\ wpc = "pselect" => timeout >= 0

LookupTypes == If!TypeOK

NetTypes == net \in Seq(Packets)

Types == /\ ScriptTypes
         /\ CallTypes
         /\ SocketTypes
         /\ ReceiverTypes
         /\ SenderTypes
         /\ WaiterTypes
         /\ LookupTypes
         /\ NetTypes

(* From bind() on an open sender has an address of the host, and the group *)
(* that was asked for; before that, the present line asks for it.          *)
Addressed(o) ==
    /\ asked[o] \in SendRequests
    /\ dest[o] = asked[o].group
    /\ asked[o].iface \in Ifaces
    /\ local[fd[o]] = asked[o].iface

Knows(o) ==
    /\ pc[o] \in {"socket", "bind"} => line.call = "openSender" /\ asked[o] = line.arg
    /\ pc[o] = "multicastIf" => isOpen(o) /\ Addressed(o)
    /\ pc[o] \in {"idle", "send", "setfl"} /\ isOpen(o) => Addressed(o)

SendersKnow == \A o \in Senders : Knows(o)

NotStale == staleKept = FALSE

TInv == Types /\ SendersKnow /\ NotStale

-----------------------------------------------------------------------------
LEMMA PresentLine ==
    ASSUME test \in DOMAIN Scripts, at \in 1 .. Len(Script) + 1
    PROVE  /\ PassesOn(line)
           /\ line.arg \in LineArgs \cup {None}
           /\ Len(Script) \in Nat
           /\ Ended => line.object = "test" /\ line.call = "end"
<1>1. Len(Script) \in Nat /\ \A i \in 1 .. Len(Script) : PassesOn(Script[i])
    BY ScriptAssumption DEF Script
<1>2. CASE Ended
    <2>1. /\ line.object = "test" /\ line.call = "end" /\ line.arg = None
          /\ line.signals = 0
        BY <1>2 DEF line, Do, Does
    <2> QED
        BY <1>1, <2>1 DEF PassesOn
<1>3. CASE ~Ended
    <2>1. at \in 1 .. Len(Script) /\ line = Script[at]
        BY <1>1, <1>3 DEF Ended, line
    <2>2. line.arg \in LineArgs
        BY <2>1 DEF LineArgs, Script
    <2> QED
        BY <1>1, <1>3, <2>1, <2>2
<1> QED
    BY <1>2, <1>3

(* What a class keeps of its own while another class makes a step. *)
LEMMA FollowTypes ==
    ASSUME Types
    PROVE  /\ Sock!PortsFollow => bound' \in SUBSET Fds /\ queue' \in [Fds -> 0 .. MaxQueue]
           /\ Rcv!PortsFollow => /\ joinable' \in SUBSET Fds
                                 /\ inbox' \in [Fds -> Seq(Datagrams)]
                                 /\ \A f \in Fds : Len(inbox'[f]) <= MaxInbox
           /\ Snd!KernelFollows => /\ local' \in [Fds -> Snd!Ifaces \cup {Default}]
                                   /\ outIf' \in [Fds -> Snd!Ifaces \cup {Default}]
           /\ ReceiversFollow => ReceiverTypes'
           /\ SendersFollow => SenderTypes'
<1> USE DEF Types
<1>a. Sock!Fds = Fds /\ Rcv!Fds = Fds /\ Snd!Fds = Fds
    BY DEF Sock!Fds, Rcv!Fds, Snd!Fds, Fds
<1>1. Sock!PortsFollow => bound' \in SUBSET Fds /\ queue' \in [Fds -> 0 .. MaxQueue]
    <2>1. 0 \in 0 .. MaxQueue
        BY HostAssumption
    <2> QED
        BY <1>a, <2>1 DEF SocketTypes, Sock!PortsFollow
<1>2. ASSUME Rcv!PortsFollow
      PROVE  /\ joinable' \in SUBSET Fds
             /\ inbox' \in [Fds -> Seq(Datagrams)]
             /\ \A f \in Fds : Len(inbox'[f]) <= MaxInbox
    <2>1. inbox' = [f \in Fds |-> IF files'[f] = Free THEN <<>> ELSE inbox[f]]
        BY <1>a, <1>2 DEF Rcv!PortsFollow
    <2>2. <<>> \in Seq(Datagrams) /\ Len(<<>>) <= MaxInbox
        BY HostAssumption DEF MaxInbox
    <2>3. joinable' \in SUBSET Fds
        BY <1>2 DEF ReceiverTypes, Rcv!PortsFollow
    <2> QED
        BY <2>1, <2>2, <2>3 DEF ReceiverTypes
<1>3. Snd!KernelFollows => /\ local' \in [Fds -> Snd!Ifaces \cup {Default}]
                           /\ outIf' \in [Fds -> Snd!Ifaces \cup {Default}]
    BY <1>a DEF SenderTypes, Snd!KernelFollows
<1> QED
    BY <1>1, <1>2, <1>3 DEF ReceiversFollow, ReceiverTypes, SendersFollow, SenderTypes

LEMMA TypesInit == Init => TInv
<1> SUFFICES ASSUME Init PROVE TInv
    OBVIOUS
<1> USE DEF Init, HostInit
<1>1. ScriptTypes
    <2>1. Len(Script) \in Nat
        BY ScriptAssumption DEF Script
    <2> QED
        BY <2>1 DEF ScriptTypes, NoCalls
<1>2. CallTypes
    BY HostAssumption DEF CallTypes, Sock!Calls, Rcv!Calls, Snd!Calls
<1>3. SocketTypes /\ SenderTypes
    BY HostAssumption DEF SocketTypes, SenderTypes
<1>4. ReceiverTypes
    BY HostAssumption DEF ReceiverTypes, MaxInbox
<1>5. WaiterTypes
    <2>1. polled \in BOOLEAN
        OBVIOUS
    <2>2. left \in Wtr!Past .. MaxWait /\ 0 \in Wtr!Past .. MaxWait /\ 0 \in 0 .. MaxWait
        BY HostAssumption DEF Wtr!Past
    <2> QED
        BY <2>1, <2>2 DEF WaiterTypes, Wtr!Results
<1>6. LookupTypes
    <2>1. 1 \in 1 .. Len(PrivateRanges)
        BY HostAssumption
    <2> QED
        BY <2>1 DEF LookupTypes, If!TypeOK, If!Methods, If!Ranges
<1>7. NetTypes
    BY DEF NetTypes
<1>8. SendersKnow
    BY HostAssumption DEF SendersKnow, Knows, isOpen, TableInit, NoFd
<1> QED
    BY <1>1, <1>2, <1>3, <1>4, <1>5, <1>6, <1>7, <1>8 DEF TInv, Types, NotStale, TableInit

-----------------------------------------------------------------------------
LEMMA SocketStepTypes ==
    ASSUME Types, pc \in [Objects -> AllCalls], NEW o \in Objects,
           InheritedStep(o) \/ (o \in Sockets /\ SocketStep(o))
    PROVE  /\ SocketTypes' /\ ReceiverTypes' /\ SenderTypes' /\ NetTypes'
           /\ UNCHANGED waiterVars
           /\ \/ pc'[o] \in {"idle", "setfl"}
              \/ o \in Sockets /\ pc'[o] \in Sock!Calls
<1> USE DEF Types
<1>1. ReceiversFollow /\ SendersFollow /\ UNCHANGED waiterVars
    BY DEF InheritedStep, SocketStep, OfSocket, SendTo
<1>2. ReceiverTypes' /\ SenderTypes'
    BY <1>1, FollowTypes
<1>3. NetTypes'
    <2>1. CASE SendTo(o, line.arg)
        <3>1. line.arg # None => [to |-> line.arg] \in Packets
            BY PresentLine DEF ScriptTypes, Packets
        <3>2. net' = net \/ (line.arg # None /\ net' = Append(net, [to |-> line.arg]))
            BY <2>1 DEF SendTo
        <3> QED
            BY <3>1, <3>2 DEF NetTypes
    <2>2. CASE UNCHANGED net
        BY <2>2 DEF NetTypes
    <2> QED
        BY <2>1, <2>2 DEF InheritedStep, SocketStep, OfSocket
<1>4. Sock!KernelFollows => SocketTypes'
    BY FollowTypes DEF SocketTypes, Sock!KernelFollows
<1>5. Sock!IsLive(fd[o]) => fd[o] \in Fds
    BY DEF Sock!IsLive, Sock!Fds, Fds
<1> USE <1>2, <1>3 DEF Sock!Goto, Sock!Return, Sock!Calls
<1>6. CASE InheritedStep(o)
    <2>1. SocketTypes'
        BY <1>5, <1>6 DEF InheritedStep, OfSocket, Sock!GetFl, Sock!SetFl, Sock!kernelVars,
                          SocketTypes
    <2>2. pc'[o] \in {"idle", "setfl"}
        BY <1>6 DEF InheritedStep, OfSocket, Sock!GetFl, Sock!SetFl
    <2> QED
        BY <1>1, <2>1, <2>2
<1>7. CASE o \in Sockets /\ SocketStep(o)
    <2>1. CASE \/ Sock!OpenUdpSocket(o) \/ Sock!CloseUdpSocket(o) \/ Sock!CloseAndThrow(o)
               \/ Sock!OpenSocket(o)    \/ Sock!Destroy(o)
        <3>1. pc'[o] \in Sock!Calls /\ SocketTypes'
            BY <1>4, <2>1 DEF Sock!OpenUdpSocket, Sock!CloseUdpSocket, Sock!CloseAndThrow,
                              Sock!OpenSocket, Sock!Destroy
        <3> QED
            BY <1>1, <1>7, <3>1
    <2>2. CASE Sock!Bind(o) \/ Sock!SendResult(o)
        <3>1. pc'[o] \in Sock!Calls /\ SocketTypes'
            BY <1>5, <2>2 DEF Sock!Bind, Sock!SendResult, SocketTypes
        <3> QED
            BY <1>1, <1>7, <3>1
    <2>3. CASE Sock!CallSendTo(o) \/ Sock!CallReceiveFrom(o)
        <3>1. pc'[o] \in Sock!Calls /\ SocketTypes'
            BY <2>3 DEF Sock!CallSendTo, Sock!CallReceiveFrom, Sock!kernelVars, SocketTypes
        <3> QED
            BY <1>1, <1>7, <3>1
    <2>4. CASE Sock!ReceiveResult(o)
        <3>1. pc'[o] \in Sock!Calls
            BY <2>4 DEF Sock!ReceiveResult
        <3>2. Sock!HasDatagram(fd[o]) => fd[o] \in Fds /\ queue[fd[o]] - 1 \in 0 .. MaxQueue
            BY <1>5, HostAssumption DEF Sock!HasDatagram, SocketTypes
        <3>3. SocketTypes'
            BY <2>4, <3>2 DEF Sock!ReceiveResult, SocketTypes
        <3> QED
            BY <1>1, <1>7, <3>1, <3>3
    <2>5. CASE Sock!Interrupted(o)
        <3>1. pc'[o] \in Sock!Calls /\ SocketTypes'
            BY <2>5 DEF Sock!Interrupted, Sock!vars, SocketTypes
        <3> QED
            BY <1>1, <1>7, <3>1
    <2> QED
        BY <1>7, <2>1, <2>2, <2>3, <2>4, <2>5 DEF SocketStep, OfSocket, SendTo
<1> QED
    BY <1>6, <1>7

LEMMA ReceiverStepTypes ==
    ASSUME Types, pc \in [Objects -> AllCalls], NEW o \in Receivers, ReceiverStep(o)
    PROVE  /\ SocketTypes' /\ ReceiverTypes' /\ SenderTypes' /\ NetTypes'
           /\ UNCHANGED waiterVars
           /\ pc'[o] \in Rcv!Calls
<1> USE DEF Types
<1>1. /\ o \in Objects
      /\ SocketsFollow /\ SendersFollow /\ UNCHANGED <<waiterVars, net>>
    BY HostAssumption DEF ReceiverStep, OfReceiver
<1>2. /\ bound' \in SUBSET Fds /\ queue' \in [Fds -> 0 .. MaxQueue]
      /\ SenderTypes' /\ NetTypes'
    BY <1>1, FollowTypes DEF SocketsFollow, NetTypes
<1>3. Rcv!KernelFollows => /\ nonblock' \in SUBSET Fds
                           /\ joinable' \in SUBSET Fds
                           /\ inbox' \in [Fds -> Seq(Datagrams)]
                           /\ \A f \in Fds : Len(inbox'[f]) <= MaxInbox
    BY FollowTypes DEF Rcv!KernelFollows, SocketTypes
<1>4. UNCHANGED Rcv!kernelVars => /\ nonblock' \in SUBSET Fds
                                  /\ joinable' \in SUBSET Fds
                                  /\ inbox' \in [Fds -> Seq(Datagrams)]
                                  /\ \A f \in Fds : Len(inbox'[f]) <= MaxInbox
    BY DEF Rcv!kernelVars, SocketTypes, ReceiverTypes
<1>5. config \in [Objects -> Asked \cup {Rcv!Fresh}]
    BY DEF ReceiverTypes
<1>6. Rcv!IsLive(fd[o]) => fd[o] \in Fds
    BY DEF Rcv!IsLive, Rcv!Fds, Fds
<1>7. PassesOn(line)
    BY PresentLine DEF ScriptTypes
<1> USE <1>1, <1>2 DEF Rcv!Goto, Rcv!Return, Rcv!Throw, Rcv!Calls
<1> DEFINE Good == SocketTypes' /\ ReceiverTypes' /\ pc'[o] \in Rcv!Calls
<1>8. CASE Calls(o, "openReceiver") /\ Rcv!Open(o, line.arg)
    <2>1. line.arg \in Asked
        BY <1>7, <1>8 DEF PassesOn, Calls, Asked
    <2>2. Good
        BY <1>3, <1>5, <1>8, <2>1 DEF Rcv!Open, SocketTypes, ReceiverTypes
    <2> QED
        BY <2>2
<1>9. CASE Calls(o, "copy") /\ Rcv!Copy(o, line.arg)
    <2>1. line.arg \in Objects
        BY <1>7, <1>9, HostAssumption DEF PassesOn, Calls
    <2>2. Good
        BY <1>4, <1>5, <1>9, <2>1 DEF Rcv!Copy, SocketTypes, ReceiverTypes
    <2> QED
        BY <2>2
<1>10. CASE Rcv!Destroy(o) \/ Rcv!Socket(o) \/ Rcv!Fail(o)
    <2>1. Good
        BY <1>3, <1>5, <1>10
           DEF Rcv!Destroy, Rcv!Renew, Rcv!Socket, Rcv!Fail, SocketTypes, ReceiverTypes
    <2> QED
        BY <2>1
<1>11. CASE \/ Rcv!SetReuseAddr(o) \/ Rcv!SetMulticastAll(o)
            \/ Rcv!CallReceive(o) \/ Rcv!ReceiveError(o)
    <2>1. Good
        BY <1>4, <1>5, <1>11
           DEF Rcv!SetReuseAddr, Rcv!SetMulticastAll, Rcv!CallReceive, Rcv!ReceiveError,
               SocketTypes, ReceiverTypes
    <2> QED
        BY <2>1
<1>12. CASE Rcv!Bind(o) \/ Rcv!Join(o)
    <2>1. Good
        BY <1>5, <1>6, <1>12 DEF Rcv!Bind, Rcv!Join, SocketTypes, ReceiverTypes
    <2> QED
        BY <2>1
<1>13. CASE Rcv!Receive(o) \/ Rcv!Skip(o)
    <2>1. PICK f \in Fds : inbox[f] # <<>> /\ inbox' = [inbox EXCEPT ![f] = Tail(@)]
        BY <1>6, <1>13 DEF Rcv!Receive, Rcv!Skip, Rcv!HasDatagram, Rcv!TakeFrom
    <2>2. Tail(inbox[f]) \in Seq(Datagrams) /\ Len(Tail(inbox[f])) <= MaxInbox
        BY <2>1, HostAssumption DEF ReceiverTypes, MaxInbox
    <2>3. inbox' \in [Fds -> Seq(Datagrams)] /\ \A g \in Fds : Len(inbox'[g]) <= MaxInbox
        BY <2>1, <2>2 DEF ReceiverTypes
    <2>4. config' = config
        <3>1. /\ config[o].port # -1
              /\ config[o] = Joins(config[o].source, config[o].port, config[o].group)
            <4>1. Rcv!Fresh = Joins(Any, 0, Any) /\ Rcv!Fresh.port # -1
                BY DEF Rcv!Fresh, Joins
            <4>2. /\ Rcv!Fresh.source = Any /\ Rcv!Fresh.port = 0
                  /\ Rcv!Fresh.group = Any
                BY DEF Rcv!Fresh
            <4> QED
                BY <1>5, <4>1, <4>2 DEF Asked
        <3>2. [config EXCEPT ![o].port = config[o].port] = config
            BY <1>5, <3>1 DEF Joins
        <3> QED
            BY <1>13, <3>1, <3>2 DEF Rcv!Receive, Rcv!Skip
    <2>5. Good
        BY <1>5, <1>13, <2>3, <2>4 DEF Rcv!Receive, Rcv!Skip, SocketTypes, ReceiverTypes
    <2> QED
        BY <2>5
<1> QED
    BY <1>8, <1>9, <1>10, <1>11, <1>12, <1>13 DEF ReceiverStep, OfReceiver

LEMMA SenderStepTypes ==
    ASSUME Types, pc \in [Objects -> AllCalls], NEW o \in Senders, SenderStep(o), Knows(o)
    PROVE  /\ SocketTypes' /\ ReceiverTypes' /\ SenderTypes' /\ NetTypes'
           /\ UNCHANGED waiterVars
           /\ pc'[o] \in Snd!Calls
<1> USE DEF Types
<1>1. /\ o \in Objects
      /\ SocketsFollow /\ ReceiversFollow /\ UNCHANGED waiterVars
      /\ nonblock' = {f \in nonblock : files'[f] # Free}
    BY HostAssumption DEF SenderStep, OfSender, Multicast
<1>2. SocketTypes' /\ ReceiverTypes'
    BY <1>1, FollowTypes DEF SocketsFollow, SocketTypes
<1>3. Snd!KernelFollows => /\ local' \in [Fds -> Snd!Ifaces \cup {Default}]
                           /\ outIf' \in [Fds -> Snd!Ifaces \cup {Default}]
    BY FollowTypes
<1>4. Snd!IsLive(fd[o]) => fd[o] \in Fds /\ isOpen(o)
    BY DEF Snd!IsLive, Snd!Fds, Fds, isOpen
<1>5. PassesOn(line)
    BY PresentLine DEF ScriptTypes
<1>6. \A r \in SendRequests : r.group \in Snd!Groups /\ r.iface \in Snd!Ifaces
    BY DEF Snd!Groups, Snd!Ifaces
<1>7. SenderTypes
    OBVIOUS
<1> HIDE DEF Types
<1> USE <1>1, <1>2, <1>7 DEF Snd!Goto, Snd!Return, Snd!Calls
<1> DEFINE Good == SenderTypes' /\ pc'[o] \in Snd!Calls
<1>8. NetTypes'
    <2>1. CASE UNCHANGED net
        BY <2>1 DEF NetTypes, Types
    <2>2. CASE Multicast(o) /\ wire' # None
        <3>1. /\ pc[o] = "send" /\ Snd!IsLive(fd[o])
              /\ wire' = [asked |-> asked[o], group |-> dest[o], iface |-> outIf[fd[o]],
                          source |-> local[fd[o]]]
            BY <2>2 DEF Multicast, OfSender, Snd!Send, Snd!Quiet
        <3>2. isOpen(o) /\ fd[o] \in Fds /\ Addressed(o)
            BY <1>4, <3>1 DEF Knows
        <3>3. local[fd[o]] \in Ifaces /\ local[fd[o]] # Default
            BY <3>2, HostAssumption DEF Addressed, Ifaces
        <3>4. SenderPort(o) \in Ports
            BY <3>2, <3>3 DEF SenderPort, Ports, Addressed
        <3>5. dest[o] \in {r.group : r \in SendRequests}
            BY <3>2 DEF Addressed
        <3>6. outIf[fd[o]] \in Snd!Ifaces \cup {Default}
            BY <3>2 DEF SenderTypes
        <3> DEFINE d == [source |-> wire'.source, port |-> SenderPort(o),
                         group |-> wire'.group, size |-> 1]
                   packet == [to |-> None, iface |-> wire'.iface, datagram |-> d]
        <3>7. d \in Datagrams
            BY <3>1, <3>3, <3>4, <3>5 DEF Datagrams
        <3>8. packet \in Packets
            BY <3>1, <3>6, <3>7 DEF Packets
        <3>9. net' = Append(net, packet)
            BY <2>2 DEF Multicast
        <3> QED
            BY <3>8, <3>9 DEF NetTypes, Types
    <2> QED
        BY <2>1, <2>2 DEF SenderStep, Multicast
<1>9. SUFFICES Good
    BY <1>8
<1>10. CASE Calls(o, "openSender") /\ Snd!Begin(o, line.arg)
    <2>1. line.arg \in SendRequests
        BY <1>5, <1>10 DEF PassesOn, Calls
    <2> QED
        BY <1>3, <1>10, <2>1 DEF Snd!Begin, SenderTypes
<1>11. CASE Snd!Destroy(o) \/ Snd!Socket(o) \/ Snd!Fail(o)
    BY <1>3, <1>11 DEF Snd!Destroy, Snd!Renew, Snd!Socket, Snd!Fail, SenderTypes
<1>12. CASE Snd!CallSend(o) \/ Snd!Send(o) \/ Snd!Interrupted(o)
    BY <1>12 DEF Snd!CallSend, Snd!Send, Snd!Interrupted, Snd!kernelVars, SenderTypes
<1>13. CASE Snd!Bind(o)
    <2>1. asked[o] \in SendRequests
        BY <1>5, <1>13 DEF Knows, PassesOn, Snd!Bind
    <2> QED
        BY <1>4, <1>6, <1>13, <2>1 DEF Snd!Bind, SenderTypes
<1>14. CASE Snd!SetMulticastIf(o)
    <2>1. asked[o] \in SendRequests
        BY <1>14 DEF Knows, Addressed, Snd!SetMulticastIf
    <2> QED
        BY <1>4, <1>6, <1>14, <2>1 DEF Snd!SetMulticastIf, SenderTypes
<1> QED
    BY <1>10, <1>11, <1>12, <1>13, <1>14 DEF SenderStep, OfSender, Multicast

-----------------------------------------------------------------------------
LEMMA CountedTypes ==
    ASSUME ScriptTypes, NEW call, Counted(call)
    PROVE  calls' \in [DOMAIN NoCalls -> Nat]
BY DEF ScriptTypes, Counted

LEMMA SignalledTypes ==
    ASSUME ScriptTypes, NEW beginning, Signalled(beginning)
    PROVE  signals' \in Nat
<1>1. line.signals \in Nat
    BY PresentLine DEF ScriptTypes, PassesOn
<1> QED
    BY <1>1 DEF Signalled, ScriptTypes

LEMMA AdvancesTypes ==
    ASSUME ScriptTypes, NEW idle, Advances(idle), UNCHANGED test
    PROVE  at' \in 1 .. Len(Script') + 1
<1>1. Len(Script) \in Nat /\ Script' = Script
    BY PresentLine DEF ScriptTypes, Script
<1> QED
    BY <1>1 DEF ScriptTypes, Advances, Ended

LEMMA ObjectTypes ==
    ASSUME TInv, IInv, IInv', NEW o \in Objects, ObjectStep(o)
    PROVE  Types'
<1> USE DEF TInv, Types
<1>1. pc \in [Objects -> AllCalls] /\ \A p \in Objects \ {o} : pc'[p] = pc[p]
    BY ObjectEffect, EffectKeeps DEF IInv, ControlTypeOK
<1>2. ScriptTypes'
    BY CountedTypes, SignalledTypes, AdvancesTypes DEF ObjectStep, ScriptTypes
<1>3. LookupTypes'
    BY DEF ObjectStep, lookupVars, LookupTypes, If!TypeOK
<1>4. ASSUME UNCHANGED waiterVars
      PROVE  WaiterTypes'
    BY <1>4 DEF waiterVars, WaiterTypes
<1>5. CASE InheritedStep(o) \/ (o \in Sockets /\ SocketStep(o))
    <2>1. /\ SocketTypes' /\ ReceiverTypes' /\ SenderTypes' /\ NetTypes'
          /\ UNCHANGED waiterVars
          /\ pc'[o] \in {"idle", "setfl"} \/ (o \in Sockets /\ pc'[o] \in Sock!Calls)
        BY <1>1, <1>5, SocketStepTypes
    <2>2. CallTypes'
        BY <1>1, <2>1, HostAssumption DEF CallTypes, Sock!Calls, Rcv!Calls, Snd!Calls
    <2> QED
        BY <1>2, <1>3, <1>4, <2>1, <2>2
<1>6. CASE o \in Receivers /\ ReceiverStep(o)
    <2>1. /\ SocketTypes' /\ ReceiverTypes' /\ SenderTypes' /\ NetTypes'
          /\ UNCHANGED waiterVars
          /\ pc'[o] \in Rcv!Calls
        BY <1>1, <1>6, ReceiverStepTypes
    <2>2. CallTypes'
        BY <1>1, <1>6, <2>1, HostAssumption DEF CallTypes
    <2> QED
        BY <1>2, <1>3, <1>4, <2>1, <2>2
<1>7. CASE o \in Senders /\ SenderStep(o)
    <2>1. /\ SocketTypes' /\ ReceiverTypes' /\ SenderTypes' /\ NetTypes'
          /\ UNCHANGED waiterVars
          /\ pc'[o] \in Snd!Calls
        BY <1>1, <1>7, SenderStepTypes DEF SendersKnow
    <2>2. CallTypes'
        BY <1>1, <1>7, <2>1, HostAssumption DEF CallTypes
    <2> QED
        BY <1>2, <1>3, <1>4, <2>1, <2>2
<1> QED
    BY <1>5, <1>6, <1>7 DEF ObjectStep

LEMMA LargerTypes ==
    ASSUME NEW n \in Nat, NEW a \in -1 .. n
    PROVE  /\ Wtr!Max({a - 1, -1}) \in -1 .. n
           /\ a >= 0 => Wtr!Max({a - 1, 0}) \in 0 .. n
<1>1. ASSUME NEW b \in Int, NEW c \in Int
      PROVE  Wtr!Max({b, c}) = IF b >= c THEN b ELSE c
    <2>1. \E m \in {b, c} : \A y \in {b, c} : m >= y
        OBVIOUS
    <2>2. Wtr!Max({b, c}) \in {b, c} /\ \A y \in {b, c} : Wtr!Max({b, c}) >= y
        BY <2>1 DEF Wtr!Max
    <2> QED
        BY <2>2
<1> QED
    BY <1>1

LEMMA WaiterStepTypes ==
    ASSUME Types, TableTypeOK, WaiterStep \/ Tick
    PROVE  WaiterTypes'
<1> USE DEF Types
<1>1. PassesOn(line)
    BY PresentLine DEF ScriptTypes
<1>2. UNCHANGED <<fd, files>>
    BY DEF WaiterStep, Tick, OfWaiter, objectVars, tableVars
<1>3. MaxWait \in Nat /\ 0 \in Wtr!Past .. MaxWait /\ 0 \in 0 .. MaxWait
      /\ Wtr!Past \in Wtr!Past .. MaxWait
    BY HostAssumption DEF Wtr!Past
<1>4. WaiterTypes
    OBVIOUS
<1> HIDE DEF Types
<1> USE <1>4
<1>5. CASE Calls("waiter", "add") /\ Wtr!Add(line.arg[1], line.arg[2])
    <2>1. <<line.arg[1], line.arg[2]>> \in Objects \X Wtr!Dirs
        BY <1>1, <1>5 DEF PassesOn, Calls
    <2> QED
        BY <1>5, <2>1 DEF Wtr!Add, Wtr!callVars, WaiterTypes
<1>6. CASE Calls("waiter", "del") /\ Wtr!Del(line.arg[1], line.arg[2])
    BY <1>6 DEF Wtr!Del, Wtr!callVars, WaiterTypes
<1>7. CASE Calls("waiter", "waitUntil") /\ Wtr!WaitUntil(line.arg)
    <2>1. line.arg \in Wtr!Past .. MaxWait
        BY <1>1, <1>7 DEF PassesOn, Calls
    <2>2. Wtr!OwnReady \in SUBSET watch
        BY DEF Wtr!OwnReady
    <2> QED
        BY <1>7, <2>1, <2>2 DEF Wtr!WaitUntil, WaiterTypes, Wtr!Results
<1>8. CASE Wtr!MomentPassed \/ Wtr!PselectFails \/ Wtr!DescriptorReady
    <2>1. PICK r \in Wtr!Results : Wtr!Return(r) /\ UNCHANGED <<watch, sets>>
        BY <1>8 DEF Wtr!MomentPassed, Wtr!PselectFails, Wtr!DescriptorReady, Wtr!Results
    <2>2. polled' \in BOOLEAN
        BY <2>1 DEF Wtr!Return
    <2> QED
        BY <1>3, <2>1, <2>2 DEF Wtr!Return, WaiterTypes
<1>9. CASE Wtr!Select
    <2>1. sets' \in SUBSET (Fds \X Wtr!Dirs)
        <3>1. \A w \in watch : Wtr!isOpen(w[1]) => <<fd[w[1]], w[2]>> \in Fds \X Wtr!Dirs
            BY DEF WaiterTypes, Wtr!isOpen, TableTypeOK, Fds, NoFd
        <3> QED
            BY <1>9, <3>1 DEF Wtr!Select
    <2>2. timeout > 1 => timeout >= 0
        BY DEF WaiterTypes, Wtr!Past
    <2> QED
        BY <1>9, <2>1, <2>2 DEF Wtr!Select, Wtr!ZeroTime, WaiterTypes
<1>10. CASE Wtr!PselectSleeps
    <2>1. sleep' \in 0 .. MaxWait
        BY <1>3, <1>10 DEF Wtr!PselectSleeps, WaiterTypes, Wtr!Past
    <2>2. polled' \in BOOLEAN
        BY <1>10 DEF Wtr!PselectSleeps
    <2> QED
        BY <1>10, <2>1, <2>2 DEF Wtr!PselectSleeps, WaiterTypes
<1>11. CASE Wtr!NothingReady
    BY <1>11 DEF Wtr!NothingReady, WaiterTypes
<1>12. CASE Wtr!Tick
    <2>1. left \in -1 .. MaxWait /\ sleep \in -1 .. MaxWait /\ sleep >= 0
        BY DEF WaiterTypes, Wtr!Past
    <2>2. left' \in Wtr!Past .. MaxWait /\ sleep' \in 0 .. MaxWait
        BY <1>3, <1>12, <2>1, LargerTypes DEF Wtr!Tick, Wtr!Past
    <2> QED
        BY <1>12, <2>2 DEF Wtr!Tick, Wtr!callVars, WaiterTypes
<1> QED
    BY <1>5, <1>6, <1>7, <1>8, <1>9, <1>10, <1>11, <1>12
       DEF WaiterStep, Tick, OfWaiter, Wtr!TimeOver, Wtr!Interrupted

(* What open() of a receiver looks up is a subject of lookups. *)
LEMMA LookupStepTypes ==
    ASSUME Types, IInv, IInv', LookupStep
    PROVE  LookupTypes'
<1> USE DEF Types
<1>1. held' \in Nat
    BY DEF IInv, ListHeld
<1>2. LookupTypes
    OBVIOUS
<1>3. PassesOn(line)
    BY PresentLine DEF ScriptTypes
<1>4. Len(PrivateRanges) \in Nat \ {0} /\ 1 \in 1 .. Len(PrivateRanges)
    BY HostAssumption
<1>5. /\ PrivateRanges[1] \in If!Ranges
      /\ \A i \in 1 .. Len(PrivateRanges) : PrivateRanges[i] \in If!Ranges
    BY <1>4 DEF If!Ranges
<1>6. If!Found \subseteq If!Addresses
    BY <1>2 DEF If!Found, If!Addresses, LookupTypes, If!TypeOK
<1> DEFINE Subject == Subjects \cup If!Ranges
<1>7. ASSUME NEW m \in {"retrieve", "addresses", "private"}, NEW s \in Subject, If!Call(m, s)
      PROVE  LookupTypes'
    BY <1>1, <1>2, <1>4, <1>7 DEF If!Call, LookupTypes, If!TypeOK, If!Methods
<1>8. ASSUME NEW s \in Subject,
             If!retrieveInterfaceAdressFromAddress(s) \/ If!getIpV4InterfaceAddresses(s)
      PROVE  LookupTypes'
    BY <1>7, <1>8 DEF If!retrieveInterfaceAdressFromAddress, If!getIpV4InterfaceAddresses
<1>9. CASE If!getAPrivateNetworkInterface
    BY <1>5, <1>7, <1>9 DEF If!getAPrivateNetworkInterface
<1>10. CASE If!GetIfAddrs
    BY <1>1, <1>2, <1>10 DEF If!GetIfAddrs, If!callVars, LookupTypes, If!TypeOK
<1>11. ASSUME NEW r \in {"returned", "threw"}, NEW a \in SUBSET If!Addresses, If!End(r, a),
              UNCHANGED host, UNCHANGED list \/ list' = {}
       PROVE  LookupTypes'
    BY <1>1, <1>2, <1>4, <1>5, <1>11 DEF If!End, LookupTypes, If!TypeOK, If!Methods
<1>12. CASE If!GetIfAddrsFails
    BY <1>11, <1>12 DEF If!GetIfAddrsFails
<1>13. CASE LookupReturns
    <2>1. {Any} \subseteq If!Addresses
        BY DEF If!Addresses, If!Any, Any
    <2>2. PICK a \in SUBSET If!Addresses : If!Return(a)
        BY <1>6, <1>13, <2>1
           DEF LookupReturns, If!SearchAll, If!SearchOne, If!SearchNone, If!Any, Any
    <2> QED
        BY <1>11, <2>2 DEF If!Return, If!FreeList
<1>14. CASE If!NextRange
    <2>1. round + 1 \in 1 .. Len(PrivateRanges)
        BY <1>2, <1>4, <1>14 DEF If!NextRange, If!Last, LookupTypes, If!TypeOK
    <2>2. PrivateRanges[round + 1] \in If!Ranges
        BY <1>5, <2>1
    <2> QED
        BY <1>1, <1>2, <1>14, <2>1, <2>2
           DEF If!NextRange, If!FreeList, LookupTypes, If!TypeOK
<1>15. ASSUME NEW o \in Listing, LookUp(o)
       PROVE  LookupTypes'
    <2>1. config[o] \in Asked \cup {Rcv!Fresh}
        BY HostAssumption DEF Listing, ReceiverTypes
    <2>2. config[o].source # Any => [addr |-> config[o].source, bits |-> 0] \in Subject
        BY <2>1 DEF Asked, Rcv!Fresh
    <2>3. [addr |-> Any, bits |-> AllBits] \in Subject
        BY ScriptAssumption
    <2> QED
        BY <1>8, <1>15, <2>2, <2>3 DEF LookUp, OfLookup
<1>16. \/ If!getAPrivateNetworkInterface \/ If!GetIfAddrs \/ If!GetIfAddrsFails
       \/ LookupReturns \/ If!NextRange
       \/ \E o \in Listing : LookUp(o)
       \/ \E s \in Subject : \/ If!retrieveInterfaceAdressFromAddress(s)
                             \/ If!getIpV4InterfaceAddresses(s)
    BY <1>3 DEF LookupStep, OfLookup, UseLookup, Calls, PassesOn
<1> QED
    BY <1>8, <1>9, <1>10, <1>12, <1>13, <1>14, <1>15, <1>16

(* The steps of no object leave the objects' own types alone, but that a   *)
(* receiver goes on from its lookup.                                       *)
LEMMA OtherTypes ==
    ASSUME TInv, IInv, IInv', WaiterStep \/ Tick \/ LookupStep
    PROVE  Types'
<1> USE DEF TInv, Types
<1>1. ScriptTypes'
    <2>1. CASE Tick
        BY <2>1 DEF Tick, ScriptTypes, Script
    <2>2. CASE WaiterStep
        <3>1. signals' \in Nat
            <4>1. (\E beginning : Signalled(beginning)) \/ signals' = signals
                BY <2>2 DEF WaiterStep
            <4> QED
                BY <4>1, SignalledTypes DEF ScriptTypes
        <3> QED
            BY <2>2, <3>1, CountedTypes, AdvancesTypes DEF WaiterStep, ScriptTypes
    <2>3. CASE LookupStep
        BY <2>3, CountedTypes, AdvancesTypes DEF LookupStep, ScriptTypes
    <2> QED
        BY <2>1, <2>2, <2>3
<1>2. CASE WaiterStep \/ Tick
    <2>1. WaiterTypes'
        BY <1>2, WaiterStepTypes DEF IInv, ControlTypeOK
    <2>2. UNCHANGED <<objectVars, socketVars, receiverVars, senderVars, lookupVars, net>>
        BY <1>2 DEF WaiterStep, Tick, OfWaiter
    <2> QED
        BY <1>1, <2>1, <2>2
           DEF objectVars, socketVars, receiverVars, senderVars, lookupVars, CallTypes,
               SocketTypes, ReceiverTypes, SenderTypes, LookupTypes, If!TypeOK, NetTypes
<1>3. CASE LookupStep
    <2>1. LookupTypes'
        BY <1>3, LookupStepTypes
    <2>2. CASE UNCHANGED <<objectVars, socketVars, receiverVars, senderVars, waiterVars, net>>
        BY <1>1, <2>1, <2>2
           DEF objectVars, socketVars, receiverVars, senderVars, waiterVars, CallTypes,
               SocketTypes, ReceiverTypes, SenderTypes, WaiterTypes, NetTypes
    <2>3. ASSUME NEW o \in Listing, UseLookup(o)
          PROVE  Types'
        <3>1. o \in Objects /\ o \in Receivers
            BY HostAssumption DEF Listing
        <3>2. /\ Rcv!ListInterfaces(o) /\ SocketsFollow /\ SendersFollow
              /\ UNCHANGED <<waiterVars, net>>
            BY <2>3 DEF UseLookup, OfReceiver
        <3>3. bound' \in SUBSET Fds /\ queue' \in [Fds -> 0 .. MaxQueue] /\ SenderTypes'
            BY <3>2, FollowTypes DEF SocketsFollow
        <3>4. SocketTypes' /\ ReceiverTypes'
            BY <3>2, <3>3 DEF Rcv!ListInterfaces, Rcv!kernelVars, SocketTypes, ReceiverTypes
        <3>5. pc'[o] \in Rcv!Calls /\ \A p \in Objects \ {o} : pc'[p] = pc[p]
            BY <3>1, <3>2 DEF Rcv!ListInterfaces, Rcv!Throw, Rcv!Goto, Rcv!Return, Rcv!Calls,
                              IInv, ControlTypeOK
        <3>6. CallTypes'
            BY <3>1, <3>5, HostAssumption DEF CallTypes
        <3>7. WaiterTypes' /\ NetTypes'
            BY <3>2 DEF waiterVars, WaiterTypes, NetTypes
        <3> QED
            BY <1>1, <2>1, <3>3, <3>4, <3>6, <3>7
    <2> QED
        BY <1>3, <2>2, <2>3 DEF LookupStep, LookUp, OfLookup
<1> QED
    BY <1>2, <1>3

LEMMA TestTypes ==
    ASSUME TInv, TestStep
    PROVE  Types'
<1> USE DEF TInv, Types
<1>1. Script' = Script /\ Len(Script) \in Nat /\ ~Ended
    BY PresentLine DEF ScriptTypes, TestStep, Script, Calls
<1>2. ScriptTypes'
    BY <1>1 DEF ScriptTypes, TestStep, NoCalls, Ended
<1> QED
    BY <1>2
       DEF TestStep, hostVars, objectVars, socketVars, receiverVars, senderVars, waiterVars,
           lookupVars, CallTypes, SocketTypes, ReceiverTypes, SenderTypes, WaiterTypes,
           LookupTypes, If!TypeOK, NetTypes

(* A datagram that arrives fits the queue of whoever takes it. *)
LEMMA ArriveTypes ==
    ASSUME TInv, Arrive, UNCHANGED <<test, at, signals, calls>>
    PROVE  Types'
<1> USE DEF TInv, Types
<1>1. ScriptTypes' /\ CallTypes' /\ SenderTypes' /\ LookupTypes'
    BY DEF Arrive, objectVars, senderVars, lookupVars, ScriptTypes, Script, CallTypes,
           SenderTypes, LookupTypes, If!TypeOK
<1>2. WaiterTypes'
    BY DEF Arrive, WaiterTypes, Wtr!SteadyFollows
<1>3. Head(net) \in Packets /\ Tail(net) \in Seq(Packets)
    BY DEF Arrive, NetTypes
<1>4. NetTypes'
    BY <1>3 DEF Arrive, NetTypes
<1>5. CASE Head(net).to = None
    <2>1. Head(net).datagram \in Datagrams
        BY <1>3, <1>5 DEF Packets
    <2>2. PICK d \in Datagrams : \E i : Rcv!Deliver(d, i)
        BY <1>5, <2>1 DEF Arrive
    <2>3. /\ inbox' \in [Fds -> Seq(Datagrams)]
          /\ \A f \in Fds : Len(inbox'[f]) <= MaxInbox
        <3>1. \A f \in Fds : /\ Len(inbox[f]) \in Nat
                             /\ Append(inbox[f], d) \in Seq(Datagrams)
                             /\ Len(Append(inbox[f], d)) = Len(inbox[f]) + 1
            BY DEF ReceiverTypes
        <3>2. MaxInbox \in Nat
            BY HostAssumption DEF MaxInbox
        <3> QED
            BY <2>2, <3>1, <3>2 DEF Rcv!Deliver, Rcv!Fds, Fds, ReceiverTypes
    <2>4. SocketTypes' /\ ReceiverTypes'
        BY <1>5, <2>3 DEF Arrive, objectVars, SocketTypes, ReceiverTypes
    <2> QED
        BY <1>1, <1>2, <1>4, <2>4
<1>6. CASE Head(net).to # None
    <2>1. UNCHANGED inbox /\ (UNCHANGED queue \/ \E f \in Fds : Sock!Deliver(f))
        BY <1>6 DEF Arrive, SocketTypes
    <2>2. queue' \in [Fds -> 0 .. MaxQueue]
        <3>1. ASSUME NEW f \in Fds, queue[f] < MaxQueue
              PROVE  queue[f] + 1 \in 0 .. MaxQueue
            BY <3>1, HostAssumption DEF SocketTypes
        <3> QED
            BY <2>1, <3>1 DEF Sock!Deliver, SocketTypes
    <2>3. SocketTypes' /\ ReceiverTypes'
        BY <2>1, <2>2 DEF Arrive, objectVars, SocketTypes, ReceiverTypes
    <2> QED
        BY <1>1, <1>2, <1>4, <2>3
<1> QED
    BY <1>5, <1>6

-----------------------------------------------------------------------------
(* What a sender knows outlasts the steps of others: its number is its own *)
(* and nobody else's, so that no close or bind() of theirs concerns it.    *)
LEMMA StillKnows ==
    ASSUME NEW p \in Senders, Knows(p),
           fd'[p] = fd[p], pc'[p] = pc[p], asked'[p] = asked[p], dest'[p] = dest[p],
           pc[p] \in {"socket", "bind"} => line' = line,
           isOpen(p) => local'[fd[p]] = local[fd[p]]
    PROVE  Knows(p)'
BY DEF Knows, Addressed, isOpen

Honest == Types /\ NotStale /\ IInv /\ HonestHandles

LEMMA OwnNumber ==
    ASSUME Honest, NEW p \in Objects, isOpen(p)
    PROVE  fd[p] \in Fds /\ files[fd[p]] = p /\ p # Free /\ IsLive(fd[p])
BY TableAssumption
   DEF Honest, NotStale, HonestHandles, IInv, ControlTypeOK, TableTypeOK, isOpen, IsLive,
       Fds, NoFd

(* In a test no close reports an error on a number it released. *)
LEMMA NoLateError ==
    ASSUME Honest, NEW o \in Objects, CloseThrows(o), UNCHANGED staleKept
    PROVE  ~isOpen(o)'
<1>1. ~isOpen(o)
    BY OwnNumber DEF CloseThrows, Honest, NotStale
<1> QED
    BY <1>1 DEF CloseThrows, isOpen

LEMMA FollowKeepsAddress ==
    ASSUME Honest, Honest', NEW p \in Senders, fd'[p] = fd[p], isOpen(p), Snd!KernelFollows
    PROVE  local'[fd[p]] = local[fd[p]]
<1>1. p \in Objects /\ isOpen(p)'
    BY HostAssumption DEF isOpen
<1>2. files'[fd[p]] = p /\ p # Free
    BY <1>1, OwnNumber, TableAssumption
       DEF Honest, NotStale, HonestHandles
<1>3. fd[p] \in Fds
    BY <1>1, OwnNumber
<1> QED
    BY <1>2, <1>3 DEF Snd!KernelFollows, Snd!Fds, Fds

LEMMA OthersKnow ==
    ASSUME Honest, Honest', SendersKnow, NEW o \in Objects, ObjectStep(o),
           NEW p \in Senders \ {o}
    PROVE  Knows(p)'
<1>1. p \in Objects /\ Knows(p)
    BY HostAssumption DEF SendersKnow
<1>2. Effect(o) /\ InTurn(o)
    BY ObjectEffect DEF Honest
<1>3. fd'[p] = fd[p] /\ pc'[p] = pc[p]
    BY <1>1, <1>2, EffectKeeps DEF Honest, IInv, ControlTypeOK
<1>4. pc[p] \notin {"socket", "bind"}
    <2>1. Ended => line.object = "test"
        BY PresentLine DEF Honest, Types, ScriptTypes
    <2> QED
        BY <1>1, <1>2, <2>1, LineAssumption DEF InTurn, Honest, IInv, OneAtATime
<1>5. SenderTypes /\ o \in Objects
    BY DEF Honest, Types
<1>6. CASE SendersFollow
    BY <1>1, <1>3, <1>4, <1>6, FollowKeepsAddress, StillKnows DEF SendersFollow
<1>7. CASE o \in Senders /\ SenderStep(o)
    <2>1. asked'[p] = asked[p] /\ dest'[p] = dest[p]
        BY <1>1, <1>5, <1>7
           DEF SenderStep, OfSender, Multicast, SenderTypes, Snd!Begin, Snd!CallSend,
               Snd!Destroy, Snd!Renew, Snd!Socket, Snd!Bind, Snd!SetMulticastIf, Snd!Fail,
               Snd!Interrupted, Snd!Send
    <2>2. ASSUME isOpen(p)
          PROVE  local'[fd[p]] = local[fd[p]]
        <3>1. CASE Snd!KernelFollows
            BY <1>3, <2>2, <3>1, FollowKeepsAddress
        <3>2. CASE Snd!Bind(o)
            <4>1. Snd!IsLive(fd[o]) => fd[o] # fd[p]
                <5>1. Snd!IsLive(fd[o]) => isOpen(o)
                    BY DEF Snd!IsLive, Snd!Fds, isOpen
                <5> QED
                    BY <1>1, <2>2, <5>1, OwnNumber
            <4> QED
                BY <1>1, <1>5, <2>2, <3>2, <4>1, OwnNumber DEF Snd!Bind, SenderTypes
        <3>3. CASE UNCHANGED local
            BY <3>3
        <3> QED
            BY <1>7, <3>1, <3>2, <3>3
               DEF SenderStep, OfSender, Multicast, Snd!Begin, Snd!CallSend, Snd!Destroy,
                   Snd!Socket, Snd!SetMulticastIf, Snd!Fail, Snd!Interrupted, Snd!Send,
                   Snd!kernelVars
    <2> QED
        BY <1>1, <1>3, <1>4, <2>1, <2>2, StillKnows
<1> QED
    BY <1>6, <1>7
       DEF ObjectStep, InheritedStep, SocketStep, ReceiverStep, OfSocket, OfReceiver, SendTo

(* A sender's own steps: what bind() was given is what the present line    *)
(* asks for, and a failure closes.                                         *)
LEMMA SenderKnows ==
    ASSUME Honest, Honest', NEW o \in Senders, Knows(o), ObjectStep(o)
    PROVE  Knows(o)'
<1>1. o \in Objects /\ PassesOn(line)
    BY HostAssumption, PresentLine DEF Honest, Types, ScriptTypes
<1>2. SenderTypes /\ pc \in [Objects -> AllCalls] /\ ret \in [Objects -> AllResults]
    BY DEF Honest, Types, IInv, ControlTypeOK
<1>3. staleKept' = staleKept /\ (pc'[o] # "idle" => line' = line)
    BY DEF ObjectStep, Granted, Advances, line, Ended, Script
<1>4. /\ CloseOk(o) => ~isOpen(o)'
      /\ CloseThrows(o) => ~isOpen(o)'
      /\ Destructor(o) => ~isOpen(o)'
    BY <1>1, <1>3, NoLateError
       DEF CloseOk, Destructor, isOpen, NoFd, Honest, IInv, ControlTypeOK, TableTypeOK
<1>5. ASSUME pc'[o] \in {"idle", "fail"}, ~isOpen(o)'
      PROVE  Knows(o)'
    BY <1>5 DEF Knows
<1>6. ASSUME UNCHANGED <<fd, asked, dest>>, isOpen(o) => local'[fd[o]] = local[fd[o]],
             isOpen(o) => Addressed(o), pc'[o] \in {"idle", "send", "setfl", "fail"}
      PROVE  Knows(o)'
    BY <1>6 DEF Knows, Addressed, isOpen
<1>7. CASE InheritedStep(o)
    <2>1. UNCHANGED <<fd, asked, dest>> /\ Snd!KernelFollows
        BY <1>7 DEF InheritedStep, OfSocket, SendersFollow, Sock!GetFl, Sock!SetFl,
                    Sock!tableVars
    <2>2. pc[o] \in {"idle", "setfl"} /\ pc'[o] \in {"idle", "setfl"}
        BY <1>1, <1>2, <1>7
           DEF InheritedStep, OfSocket, Sock!GetFl, Sock!SetFl, Sock!Goto, Sock!Return
    <2> QED
        BY <1>6, <2>1, <2>2, FollowKeepsAddress DEF Knows
<1> USE <1>1, <1>2, SenderTable DEF Snd!Goto, Snd!Return
<1>8. CASE Calls(o, "openSender") /\ Snd!Begin(o, line.arg)
    <2>1. \/ pc'[o] = "idle" /\ ~isOpen(o)'
          \/ pc'[o] = "socket" /\ asked'[o] = line.arg
        BY <1>4, <1>8 DEF Snd!Begin, SenderTypes
    <2> QED
        BY <1>3, <1>5, <1>8, <2>1 DEF Knows, Calls
<1>9. CASE Snd!Destroy(o) \/ Snd!Fail(o)
    <2>1. pc'[o] = "idle" /\ ~isOpen(o)'
        BY <1>4, <1>9 DEF Snd!Destroy, Snd!Fail, isOpen, tableVars
    <2> QED
        BY <1>5, <2>1
<1>10. CASE Snd!Socket(o)
    <2>1. line.call = "openSender" /\ asked[o] = line.arg /\ asked[o] # None
        BY <1>10 DEF Snd!Socket, Knows, PassesOn
    <2>2. \/ pc'[o] = "bind" /\ asked' = asked
          \/ pc'[o] = "idle" /\ SocketFails(o)
        BY <1>10, <2>1 DEF Snd!Socket
    <2>3. SocketFails(o) => ~isOpen(o)'
        BY DEF SocketFails, isOpen, NoFd, Honest, IInv, ControlTypeOK, TableTypeOK
    <2> QED
        BY <1>3, <1>5, <2>1, <2>2, <2>3 DEF Knows
<1>11. CASE Snd!Bind(o)
    <2>1. line.call = "openSender" /\ asked[o] = line.arg /\ asked[o] \in SendRequests
        BY <1>11 DEF Snd!Bind, Knows, PassesOn
    <2>2. CASE pc'[o] = "fail"
        BY <2>2 DEF Knows
    <2>3. CASE pc'[o] # "fail"
        <3>1. /\ Snd!IsLive(fd[o]) /\ pc'[o] = "multicastIf" /\ ret'[o] = "running"
              /\ local' = [local EXCEPT ![fd[o]] = asked[o].iface]
              /\ dest' = [dest EXCEPT ![o] = asked[o].group]
              /\ UNCHANGED <<fd, asked>>
            BY <1>11, <2>3 DEF Snd!Bind, Snd!tableVars
        <3>2. asked[o].iface \in Ifaces
            <4>1. Syscall(o) = "bind"
                BY <1>11 DEF Snd!Bind, Syscall
            <4>2. ret'[o] \notin Errors /\ pc'[o] \notin Failing
                BY <3>1 DEF Errors, Failing
            <4> QED
                BY <4>1, <4>2 DEF ObjectStep, Granted, Refused
        <3>3. fd[o] \in Fds /\ isOpen(o)
            BY <3>1 DEF Snd!IsLive, Snd!Fds, Fds, isOpen
        <3> QED
            BY <2>1, <3>1, <3>2, <3>3 DEF Knows, Addressed, isOpen, SenderTypes
    <2> QED
        BY <2>2, <2>3
<1>12. CASE Snd!SetMulticastIf(o)
    <2>1. pc'[o] \in {"idle", "fail"} /\ UNCHANGED <<fd, asked, dest, local>>
        BY <1>12 DEF Snd!SetMulticastIf, Snd!tableVars
    <2> QED
        BY <1>6, <1>12, <2>1 DEF Snd!SetMulticastIf, Knows
<1>13. CASE Snd!CallSend(o) \/ Snd!Send(o) \/ Snd!Interrupted(o)
    <2>1. pc[o] \in {"idle", "send"} /\ pc'[o] \in {"idle", "send"}
          /\ UNCHANGED <<fd, asked, dest, local>>
        BY <1>13 DEF Snd!CallSend, Snd!Send, Snd!Interrupted, Snd!tableVars, Snd!kernelVars
    <2> QED
        BY <1>6, <2>1 DEF Knows
<1>14. o \notin Sockets /\ o \notin Receivers
    BY HostAssumption
<1> QED
    BY <1>7, <1>8, <1>9, <1>10, <1>11, <1>12, <1>13, <1>14
       DEF ObjectStep, SenderStep, OfSender, Multicast

LEMMA SendersKnowStep ==
    ASSUME Honest, Honest', SendersKnow, [Next]_vars
    PROVE  SendersKnow'
<1> SUFFICES ASSUME NEW p \in Senders
             PROVE  Knows(p)'
    BY DEF SendersKnow
<1>1. p \in Objects /\ Knows(p)
    BY HostAssumption DEF SendersKnow
<1>2. ASSUME NEW o \in Objects, ObjectStep(o)
      PROVE  Knows(p)'
    BY <1>1, <1>2, OthersKnow, SenderKnows
<1>3. ASSUME UNCHANGED <<fd, pc, asked, dest>>, UNCHANGED local \/ Snd!KernelFollows,
             UNCHANGED <<test, at>> \/ line.object \in {"test", "waiter", "lookup"}
      PROVE  Knows(p)'
    <2>1. isOpen(p) => local'[fd[p]] = local[fd[p]]
        BY <1>3, FollowKeepsAddress
    <2>2. pc[p] \in {"socket", "bind"} => line' = line
        <3>1. pc[p] # "idle" => line.object = p
            BY <1>1 DEF Honest, IInv, OneAtATime
        <3>2. p \notin {"test", "waiter", "lookup"}
            BY <1>1, LineAssumption
        <3> QED
            BY <1>3, <3>1, <3>2 DEF line, Ended, Script
    <2> QED
        BY <1>1, <1>3, <2>1, <2>2, StillKnows
<1>4. CASE WaiterStep \/ Tick
    <2>1. UNCHANGED test /\ (UNCHANGED at \/ line.object = "waiter")
        BY <1>4, WaiterEffect, <1>1 DEF Honest, IInv, OneAtATime
    <2> QED
        BY <1>3, <1>4, <2>1
           DEF WaiterStep, Tick, OfWaiter, objectVars, tableVars, senderVars
<1>5. CASE LookupStep
    <2>1. /\ UNCHANGED <<fd, test>>
          /\ UNCHANGED at \/ line.object = "lookup"
        BY <1>5, LookupEffect DEF tableVars, Honest
    <2>2. CASE UNCHANGED <<objectVars, senderVars>>
        BY <1>3, <2>1, <2>2 DEF objectVars, tableVars, senderVars
    <2>3. ASSUME NEW o \in Listing, UseLookup(o)
          PROVE  Knows(p)'
        <3>1. /\ Rcv!ListInterfaces(o) /\ Snd!KernelFollows /\ UNCHANGED <<dest, asked>>
            BY <2>3 DEF UseLookup, OfReceiver, SendersFollow
        <3>2. pc'[p] = pc[p]
            <4>1. p # o
                BY HostAssumption DEF Listing
            <4> QED
                BY <1>1, <3>1, <4>1
                   DEF Rcv!ListInterfaces, Rcv!Throw, Rcv!Goto, Rcv!Return, Honest, IInv,
                       ControlTypeOK
        <3>3. isOpen(p) => local'[fd[p]] = local[fd[p]]
            BY <2>1, <3>1, FollowKeepsAddress
        <3>4. pc[p] \in {"socket", "bind"} => line' = line
            <4>1. pc[p] # "idle" => line.object = p
                BY <1>1 DEF Honest, IInv, OneAtATime
            <4>2. p \notin {"test", "waiter", "lookup"}
                BY <1>1, LineAssumption
            <4> QED
                BY <2>1, <4>1, <4>2 DEF line, Ended, Script
        <3> QED
            BY <1>1, <2>1, <3>1, <3>2, <3>3, <3>4, StillKnows
    <2> QED
        BY <1>5, <2>2, <2>3 DEF LookupStep, LookUp, OfLookup
<1>6. CASE TestStep
    BY <1>3, <1>6 DEF TestStep, Calls, hostVars, objectVars, tableVars, senderVars
<1>7. CASE (Arrive /\ UNCHANGED <<test, at, signals, calls>>) \/ UNCHANGED vars
    BY <1>3, <1>7 DEF Arrive, vars, hostVars, objectVars, tableVars, senderVars
<1> QED
    BY <1>2, <1>4, <1>5, <1>6, <1>7 DEF Next

LEMMA TypesStep ==
    ASSUME TInv, IInv, IInv', [Next]_vars
    PROVE  Types' /\ NotStale'
<1>1. NotStale'
    <2>1. UNCHANGED staleKept
        BY LookupEffect
           DEF Next, ObjectStep, Granted, WaiterStep, Tick, OfWaiter, TestStep, Arrive, vars,
               hostVars, objectVars, tableVars
    <2> QED
        BY <2>1 DEF TInv, NotStale
<1>2. CASE UNCHANGED vars
    BY <1>1, <1>2
       DEF TInv, Types, vars, hostVars, objectVars, socketVars, receiverVars, senderVars,
           waiterVars, lookupVars, ScriptTypes, Script, CallTypes, SocketTypes, ReceiverTypes,
           SenderTypes, WaiterTypes, LookupTypes, If!TypeOK, NetTypes
<1> USE DEF TInv
<1>3. ASSUME NEW o \in Objects, ObjectStep(o)
      PROVE  Types'
    BY <1>3, ObjectTypes
<1>4. CASE WaiterStep \/ Tick \/ LookupStep
    BY <1>1, <1>4, OtherTypes
<1>5. CASE TestStep
    BY <1>1, <1>5, TestTypes
<1>6. CASE Arrive /\ UNCHANGED <<test, at, signals, calls>>
    BY <1>1, <1>6, ArriveTypes
<1> QED
    BY <1>1, <1>2, <1>3, <1>4, <1>5, <1>6 DEF Next

LEMMA TInvStep == TInv /\ IInv /\ IInv' /\ HonestHandles /\ HonestHandles' /\ [Next]_vars => TInv'
BY TypesStep, SendersKnowStep DEF TInv, Honest

THEOREM AlwaysTInv == Spec => []TInv
<1>1. Spec => []HonestHandles
    BY KeepsContract, TableHandlesHonest
<1> QED
    BY <1>1, TypesInit, TInvStep, AlwaysIInv, PTL DEF Spec

(* In the composed process, too, an open sender has the destination and    *)
(* the socket the local address that its open() asked for, whatever was    *)
(* opened and closed around it; no closed object keeps a number.           *)
THEOREM SendersStayAddressed == Spec => [](SendersKnow /\ NotStale)
BY AlwaysTInv, PTL DEF TInv

(* Type correctness of the whole process: every queue stays in its bound,  *)
(* every datagram that waits or is under way names an interface of the     *)
(* host as its source, and no script runs over its end.                    *)
THEOREM TypeCorrect == Spec => []TypeOK
<1>1. TInv /\ IInv => TypeOK
    <2> SUFFICES ASSUME TInv, IInv PROVE TypeOK
        OBVIOUS
    <2> USE DEF TInv, Types
    <2>1. TableTypeOK
        BY DEF IInv, ControlTypeOK
    <2>2. Wtr!TypeOK
        <3>1. Wtr!TableTypeOK
            BY <2>1 DEF TableTypeOK, Wtr!TableTypeOK, Wtr!Fds, Fds, Wtr!NoFd, NoFd
        <3>2. Ready \in SUBSET (Fds \X Wtr!Dirs)
            BY DEF Ready, Wtr!Dirs
        <3>3. Wtr!Fds = Fds
            BY DEF Wtr!Fds, Fds
        <3> QED
            BY <3>1, <3>2, <3>3 DEF WaiterTypes, Wtr!TypeOK
    <2>3. \A o \in Objects : config[o] \in JoinRequests \cup {Rcv!Fresh}
        BY DEF ReceiverTypes, Asked
    <2> QED
        BY <2>1, <2>2, <2>3
           DEF TypeOK, HostTypeOK, SocketTypes, ReceiverTypes, CallTypes, LookupTypes,
               ScriptTypes
<1> QED
    BY <1>1, AlwaysTInv, AlwaysIInv, PTL
=============================================================================

---------------------- MODULE CUdpMulticastReceiverProofs ----------------------
(***************************************************************************)
(* CUdpMulticastReceiver keeps the contract of DescriptorTable through     *)
(* every failure of open() and inside its copy constructor; the socket it  *)
(* then has is the one its getters describe; and open() and receive()      *)
(* together are the queue of Subscription.  For every number of receivers, *)
(* descriptors, interfaces, datagrams and requests, and queues of any      *)
(* length.                                                                 *)
(***************************************************************************)
EXTENDS CUdpMulticastReceiver, DescriptorTableProofs, SequenceTheorems

(* Whoever is about to call socket() holds no number. *)
SocketNeedsNoNumber == \A o \in Objects : pc[o] = "socket" => ~isOpen(o)

(* A newly constructed object is closed: the copy constructor calls open() *)
(* without the close, and needs no one.                                    *)
NewIsClosed == \A o \in Objects : ret[o] = "new" => pc[o] = "idle" /\ ~isOpen(o)

(* What is shown inductive first. *)
CoreInv == TypeOK /\ SocketNeedsNoNumber /\ NewIsClosed

-----------------------------------------------------------------------------
LEMMA RequestType ==
    ASSUME NEW r \in Requests
    PROVE  r \in [source : Addresses, port : PortArgs, group : Groups]
<1>1. r.source \in Addresses /\ r.port \in PortArgs /\ r.group \in Groups
    BY DEF Addresses, PortArgs, Groups
<1> QED
    BY <1>1, ReceiverAssumption

LEMMA KernelFollowsType ==
    ASSUME TypeOK, KernelFollows
    PROVE  /\ nonblock' \in SUBSET Fds
           /\ bound' \in SUBSET Fds
           /\ members' \in [Fds -> SUBSET [group : Groups, source : Addresses, iface : Ifaces]]
           /\ inbox' \in [Fds -> Seq(Datagrams)]
           /\ \A f \in Fds : Len(inbox'[f]) <= MaxInbox
<1>1. <<>> \in Seq(Datagrams) /\ Len(<<>>) = 0
    OBVIOUS
<1> QED
    BY <1>1, ReceiverAssumption DEF TypeOK, KernelFollows, PortsFollow

LEMMA ReturnType ==
    ASSUME TypeOK, NEW o \in Objects, NEW r \in Results, Return(o, r)
    PROVE  /\ pc' \in [Objects -> Calls]
           /\ ret' \in [Objects -> Results]
           /\ pc'[o] = "idle"
           /\ ret'[o] = r
           /\ \A p \in Objects \ {o} : pc'[p] = pc[p] /\ ret'[p] = ret[p]
BY DEF TypeOK, Return, Calls, Results

LEMMA GotoType ==
    ASSUME TypeOK, NEW o \in Objects, NEW c \in Calls, Goto(o, c)
    PROVE  /\ pc' \in [Objects -> Calls]
           /\ ret' \in [Objects -> Results]
           /\ pc'[o] = c
           /\ ret'[o] = "running"
           /\ \A p \in Objects \ {o} : pc'[p] = pc[p] /\ ret'[p] = ret[p]
BY DEF TypeOK, Goto, Calls, Results

(* What a method does to pc and ret, by where it goes next. *)
Moves(o, calls, results) ==
    /\ pc' \in [Objects -> Calls]
    /\ ret' \in [Objects -> Results]
    /\ \/ pc'[o] \in calls /\ ret'[o] = "running"
       \/ pc'[o] = "idle" /\ ret'[o] \in results
    /\ \A p \in Objects \ {o} : pc'[p] = pc[p] /\ ret'[p] = ret[p]

LEMMA ReturnMoves ==
    ASSUME TypeOK, NEW o \in Objects, NEW calls, NEW results,
           NEW r \in Results, r \in results, Return(o, r)
    PROVE  Moves(o, calls, results)
BY ReturnType DEF Moves

LEMMA GotoMoves ==
    ASSUME TypeOK, NEW o \in Objects, NEW calls, NEW results,
           NEW c \in Calls, c \in calls, Goto(o, c)
    PROVE  Moves(o, calls, results)
BY GotoType DEF Moves

LEMMA ThrowMoves ==
    ASSUME TypeOK, NEW o \in Objects, NEW r \in Results, Throw(o, r)
    PROVE  Moves(o, {"unwind"}, {r})
<1>1. "unwind" \in Calls
    BY DEF Calls
<1> QED
    BY <1>1, ReturnMoves, GotoMoves DEF Throw

-----------------------------------------------------------------------------
(* The steps that leave the table alone: the system calls of open() after  *)
(* socket(), setNonBlocking(), and receive().                              *)
Configures(o) ==
    \/ SetReuseAddr(o) \/ Bind(o) \/ ListInterfaces(o) \/ Join(o) \/ SetMulticastAll(o)

Receives(o) ==
    \/ CallReceive(o) \/ Receive(o) \/ Skip(o) \/ NothingThere(o) \/ ReceiveError(o)

QuietStep(o) == Configures(o) \/ SetNonBlocking(o) \/ Receives(o)

(* The steps that close. *)
Renews(o) == Destroy(o) \/ Unwind(o)

LEMMA QuietTable ==
    ASSUME NEW o \in Objects, QuietStep(o)
    PROVE  UNCHANGED <<tableVars, files, fd, staleKept>>
BY DEF QuietStep, Configures, Receives, SetReuseAddr, Bind, ListInterfaces, Join,
       SetMulticastAll, SetNonBlocking, CallReceive, Receive, Skip, NothingThere,
       ReceiveError, tableVars, vars

(* What every step does to the table: a step of the contract, or nothing. *)
LEMMA TableStep ==
    CoreInv /\ [Next]_vars => [TableNext]_tableVars
<1> SUFFICES ASSUME CoreInv, [Next]_vars
             PROVE  [TableNext]_tableVars
    OBVIOUS
<1>1. ASSUME NEW o \in Objects, NEW r \in Requests, Open(o, r)
      PROVE  [TableNext]_tableVars
    BY <1>1 DEF Open, TableNext
<1>2. ASSUME NEW o \in Objects, NEW orig \in Objects, Copy(o, orig)
      PROVE  UNCHANGED tableVars
    BY <1>2 DEF Copy
<1>3. ASSUME NEW o \in Objects, Socket(o)
      PROVE  [TableNext]_tableVars
    BY <1>3 DEF CoreInv, SocketNeedsNoNumber, Socket, Acquire, TableNext
<1>4. ASSUME NEW o \in Objects, Fail(o) \/ CloseUdpSocket(o)
      PROVE  [TableNext]_tableVars
    BY <1>4 DEF Fail, CloseUdpSocket, TableNext
<1>5. ASSUME NEW o \in Objects, Renews(o)
      PROVE  [TableNext]_tableVars
    BY <1>5 DEF Renews, Destroy, Unwind, Renew, TableNext
<1>6. ASSUME NEW o \in Objects, QuietStep(o)
      PROVE  UNCHANGED tableVars
    BY <1>6, QuietTable
<1>7. CASE RestOfProcess
    BY <1>7 DEF RestOfProcess, TableNext
<1>8. CASE Arrive \/ UNCHANGED vars
    BY <1>8 DEF Arrive, vars, tableVars
<1> QED
    BY <1>1, <1>2, <1>3, <1>4, <1>5, <1>6, <1>7, <1>8
       DEF Next, Method, Renews, QuietStep, Configures, Receives

(* The list of an open() is a list, and its own. *)
LEMMA ListGone ==
    ASSUME TypeOK, NEW o \in Objects, ListIsGone(o)
    PROVE  /\ todo' \in [Objects -> Lists]
           /\ \A p \in Objects \ {o} : todo'[p] = todo[p]
<1>1. Nothing \in Lists
    BY DEF Nothing, Lists
<1> QED
    BY <1>1 DEF ListIsGone, TypeOK

LEMMA JoinOnList ==
    ASSUME TypeOK, NEW o \in Objects, NEW i, JoinOn(o, i)
    PROVE  /\ todo' \in [Objects -> Lists]
           /\ \A p \in Objects \ {o} : todo'[p] = todo[p]
           /\ todo'[o].all = todo[o].all
           /\ todo'[o].rest = todo[o].rest \ {i}
<1> DEFINE shorter == [todo[o] EXCEPT !.rest = @ \ {i}]
<1>1. todo[o] \in Lists
    BY DEF TypeOK
<1>2. /\ shorter \in Lists
      /\ shorter.all = todo[o].all
      /\ shorter.rest = todo[o].rest \ {i}
    BY <1>1 DEF Lists
<1>3. todo' = [todo EXCEPT ![o] = shorter]
    BY DEF JoinOn
<1> HIDE DEF shorter
<1> QED
    BY <1>2, <1>3 DEF TypeOK

(* A method that changes what object o holds leaves the other objects as   *)
(* they are.                                                               *)
LEMMA OthersKeep ==
    ASSUME TypeOK, NEW o \in Objects,
           \/ CloseOk(o) \/ CloseThrows(o) \/ SocketOk(o) \/ SocketFails(o)
           \/ Destructor(o) \/ UNCHANGED tableVars
    PROVE  \A p \in Objects \ {o} : fd'[p] = fd[p]
BY DEF TypeOK, TableTypeOK, CloseOk, CloseThrows, SocketOk, SocketFails, Destructor,
       tableVars

-----------------------------------------------------------------------------
LEMMA CoreInit == Init => CoreInv
<1> SUFFICES ASSUME Init PROVE CoreInv
    OBVIOUS
<1>1. TableTypeOK
    BY TableAssumption DEF Init, TableInit, TableTypeOK
<1>2. <<>> \in Seq(Datagrams) /\ Len(<<>>) = 0
    OBVIOUS
<1>3. Fresh \in [source : Addresses, port : PortArgs, group : Groups]
    BY DEF Fresh, Addresses, PortArgs, Groups
<1>4. Nothing \in Lists
    BY DEF Nothing, Lists
<1>5. TypeOK
    BY <1>1, <1>2, <1>3, <1>4, ReceiverAssumption DEF Init, TypeOK, Calls, Results
<1> QED
    BY <1>5 DEF Init, TableInit, CoreInv, SocketNeedsNoNumber, NewIsClosed, isOpen, NoFd

(* The steps of open() after socket() keep the types, and do not go back.  *)
LEMMA ConfiguresType ==
    ASSUME CoreInv, TableTypeOK', NEW o \in Objects, Configures(o)
    PROVE  /\ TypeOK'
           /\ Moves(o, {"bind", "list", "join", "all", "fail", "unwind"},
                       {"listThrew", "opened"})
<1> DEFINE C == {"bind", "list", "join", "all", "fail", "unwind"}
           R == {"listThrew", "opened"}
<1> USE DEF CoreInv
<1>0. C \subseteq Calls /\ R \subseteq Results
    BY DEF Calls, Results
<1>1. CASE SetReuseAddr(o)
    <2>1. Moves(o, C, R)
        BY <1>1, <1>0, GotoMoves DEF SetReuseAddr
    <2> QED
        BY <1>1, <2>1 DEF SetReuseAddr, Moves, kernelVars, TypeOK
<1>2. CASE Bind(o)
    <2>1. Moves(o, C, R)
        BY <1>2, <1>0, GotoMoves DEF Bind
    <2> QED
        BY <1>2, <2>1 DEF Bind, IsLive, Moves, TypeOK
<1>3. CASE ListInterfaces(o)
    <2>1. Moves(o, C, R)
        <3>1. CASE \E up \in SUBSET Ifaces : Goto(o, IF up = {} THEN "all" ELSE "join")
            BY <3>1, <1>0, GotoMoves
        <3>2. CASE Throw(o, "listThrew")
            BY <3>2, <1>0, ThrowMoves DEF Moves
        <3> QED
            BY <1>3, <3>1, <3>2 DEF ListInterfaces
    <2>2. \A up \in SUBSET Ifaces : [all |-> up, rest |-> up] \in Lists
        BY DEF Lists
    <2>3. todo' \in [Objects -> Lists]
        BY <1>3, <2>2 DEF ListInterfaces, TypeOK
    <2> QED
        BY <1>3, <2>1, <2>3 DEF ListInterfaces, Moves, kernelVars, TypeOK
<1>4. CASE Join(o)
    <2>1. Moves(o, C, R)
        BY <1>4, <1>0, GotoMoves DEF Join
    <2>2. config[o].group \in Groups /\ config[o].source \in Addresses
        BY DEF TypeOK
    <2>3. members' \in [Fds -> SUBSET [group : Groups, source : Addresses, iface : Ifaces]]
        <3> DEFINE M == [group : Groups, source : Addresses, iface : Ifaces]
        <3>1. CASE UNCHANGED members
            BY <3>1 DEF TypeOK
        <3>2. ASSUME NEW i \in todo[o].rest, JoinOn(o, i)
              PROVE  members' \in [Fds -> SUBSET M]
            <4>1. Membership(o, i) \in M
                BY <2>2, <3>2 DEF Membership, TypeOK, Lists
            <4>2. fd[o] \in Fds /\ members \in [Fds -> SUBSET M]
                BY <3>2 DEF JoinOn, IsLive, TypeOK
            <4>3. members[fd[o]] \cup {Membership(o, i)} \in SUBSET M
                BY <4>1, <4>2
            <4> HIDE DEF M
            <4> QED
                BY <3>2, <4>2, <4>3 DEF JoinOn
        <3> QED
            BY <1>4, <3>1, <3>2 DEF Join
    <2>4. todo' \in [Objects -> Lists]
        BY <1>4, ListGone, JoinOnList DEF Join
    <2> QED
        BY <1>4, <2>1, <2>3, <2>4 DEF Join, Moves, TypeOK
<1>5. CASE SetMulticastAll(o)
    <2>1. Moves(o, C, R)
        BY <1>5, <1>0, GotoMoves, ReturnMoves DEF SetMulticastAll
    <2> QED
        BY <1>5, <2>1 DEF SetMulticastAll, Moves, kernelVars, TypeOK
<1> QED
    BY <1>1, <1>2, <1>3, <1>4, <1>5 DEF Configures

(* So do receive() and setNonBlocking(). *)
LEMMA ReceivesType ==
    ASSUME CoreInv, TableTypeOK', NEW o \in Objects, Receives(o) \/ SetNonBlocking(o)
    PROVE  /\ TypeOK'
           /\ \/ UNCHANGED <<pc, ret>>
              \/ Moves(o, {"recv"}, {"message", "zero", "threw", "returned"})
<1> DEFINE C == {"recv"}
           R == {"message", "zero", "threw", "returned"}
<1> USE DEF CoreInv
<1>0. C \subseteq Calls /\ R \subseteq Results
    BY DEF Calls, Results
<1>1. CASE CallReceive(o)
    <2>1. Moves(o, C, R)
        BY <1>1, <1>0, GotoMoves DEF CallReceive
    <2> QED
        BY <1>1, <2>1 DEF CallReceive, Moves, kernelVars, TypeOK
<1>2. ASSUME HasDatagram(fd[o]), TakeFrom(fd[o])
      PROVE  /\ Head(inbox[fd[o]]) \in Datagrams
             /\ inbox' \in [Fds -> Seq(Datagrams)]
             /\ \A f \in Fds : Len(inbox'[f]) <= MaxInbox
    <2> DEFINE q == inbox[fd[o]]
    <2>1. fd[o] \in Fds /\ q \in Seq(Datagrams) /\ q # <<>> /\ Len(q) <= MaxInbox
        BY <1>2 DEF HasDatagram, IsLive, TypeOK
    <2>2. Head(q) \in Datagrams /\ Tail(q) \in Seq(Datagrams) /\ Len(Tail(q)) = Len(q) - 1
        BY <2>1
    <2>3. Len(q) \in Nat
        BY <2>1
    <2>4. Len(Tail(q)) <= MaxInbox
        BY <2>1, <2>2, <2>3, ReceiverAssumption
    <2>5. inbox' = [inbox EXCEPT ![fd[o]] = Tail(q)]
        BY <1>2 DEF TakeFrom
    <2> HIDE DEF q
    <2> QED
        BY <2>1, <2>2, <2>4, <2>5 DEF TypeOK, q
<1>3. CASE Receive(o)
    <2> DEFINE d == Head(inbox[fd[o]])
    <2>1. PICK r \in {"zero", "message"} : Return(o, r)
        BY <1>3 DEF Receive
    <2>2. Moves(o, C, R)
        BY <2>1, <1>0, ReturnMoves
    <2>3. d \in Datagrams
        BY <1>2, <1>3 DEF Receive
    <2>4. config' \in [Objects -> [source : Addresses, port : PortArgs, group : Groups]]
        BY <1>3, <2>3 DEF Receive, TypeOK, PortArgs
    <2>5. last' \in [Objects -> Datagrams \cup {None}]
        BY <1>3, <2>3 DEF Receive, TypeOK
    <2> QED
        BY <1>2, <1>3, <2>2, <2>4, <2>5 DEF Receive, Moves, TypeOK
<1>4. CASE Skip(o)
    BY <1>2, <1>4 DEF Skip, TypeOK
<1>5. CASE NothingThere(o) \/ ReceiveError(o)
    <2>1. Moves(o, C, R)
        BY <1>5, <1>0, ReturnMoves DEF NothingThere, ReceiveError
    <2> QED
        BY <1>5, <2>1 DEF NothingThere, ReceiveError, Moves, kernelVars, TypeOK
<1>6. CASE SetNonBlocking(o)
    <2>1. Moves(o, C, R)
        BY <1>6, <1>0, ReturnMoves DEF SetNonBlocking
    <2> QED
        BY <1>6, <2>1 DEF SetNonBlocking, IsLive, Moves, TypeOK
<1> QED
    BY <1>1, <1>3, <1>4, <1>5, <1>6 DEF Receives

(* Each method keeps the types, reaches socket() without a number and      *)
(* leaves a new object closed.                                             *)
LEMMA CoreStep == CoreInv /\ [Next]_vars => CoreInv'
<1> SUFFICES ASSUME CoreInv, [Next]_vars
             PROVE  CoreInv'
    OBVIOUS
<1> USE DEF CoreInv
<1>a. TableTypeOK'
    BY TableStep, TableTypeStep DEF TypeOK
<1>1. ASSUME NEW o \in Objects, NEW r \in Requests, Open(o, r)
      PROVE  CoreInv'
    <2>1. TypeOK'
        BY <1>1, <1>a, RequestType, KernelFollowsType, ListGone, ReturnType, GotoType
           DEF Open, TypeOK, Calls, Results
    <2>2. /\ pc'[o] = "idle" \/ (pc'[o] = "socket" /\ ~isOpen(o)')
          /\ ret'[o] \in {"running", "openThrew"}
        <3>1. CASE isOpen(o) /\ CloseOk(o) /\ Goto(o, "socket")
            BY <3>1, GotoType DEF CloseOk, isOpen, NoFd, TypeOK, TableTypeOK, Calls
        <3>2. CASE isOpen(o) /\ CloseThrows(o) /\ Return(o, "openThrew")
            BY <3>2, ReturnType DEF Results
        <3>3. CASE ~isOpen(o) /\ UNCHANGED tableVars /\ Goto(o, "socket")
            BY <3>3, GotoType DEF isOpen, tableVars, Calls
        <3> QED
            BY <1>1, <3>1, <3>2, <3>3 DEF Open
    <2>3. \A p \in Objects \ {o} : fd'[p] = fd[p] /\ pc'[p] = pc[p] /\ ret'[p] = ret[p]
        BY <1>1, OthersKeep, ReturnType, GotoType DEF Open, Calls, Results
    <2> QED
        BY <2>1, <2>2, <2>3 DEF SocketNeedsNoNumber, NewIsClosed, isOpen
<1>2. ASSUME NEW o \in Objects, NEW orig \in Objects, Copy(o, orig)
      PROVE  CoreInv'
    <2>1. TypeOK'
        BY <1>2, <1>a, ReturnType, GotoType
           DEF Copy, kernelVars, TypeOK, Calls, Results
    <2>2. ret'[o] # "new"
        BY <1>2, ReturnType, GotoType DEF Copy, Calls, Results
    <2>3. \A p \in Objects \ {o} : pc'[p] = pc[p] /\ ret'[p] = ret[p]
        BY <1>2, ReturnType, GotoType DEF Copy, Calls, Results
    <2> QED
        BY <1>2, <2>1, <2>2, <2>3
           DEF Copy, SocketNeedsNoNumber, NewIsClosed, isOpen, tableVars
<1>3. ASSUME NEW o \in Objects, Socket(o)
      PROVE  CoreInv'
    <2>1. Moves(o, {"reuse", "unwind"}, {"openThrew"})
        <3>1. CASE Goto(o, "reuse")
            BY <3>1, GotoMoves DEF Calls
        <3>2. CASE Throw(o, "openThrew")
            BY <3>2, ThrowMoves DEF Moves, Results
        <3> QED
            BY <1>3, <3>1, <3>2 DEF Socket
    <2>2. TypeOK'
        BY <1>3, <2>1, <1>a, KernelFollowsType DEF Socket, Moves, TypeOK
    <2>3. \A p \in Objects \ {o} : fd'[p] = fd[p]
        BY <1>3, OthersKeep DEF Socket
    <2> QED
        BY <2>1, <2>2, <2>3 DEF Moves, SocketNeedsNoNumber, NewIsClosed, isOpen
<1>4. ASSUME NEW o \in Objects, Fail(o) \/ CloseUdpSocket(o)
      PROVE  CoreInv'
    <2>1. Moves(o, {"unwind"}, {"openThrew", "returned", "threw"})
        <3>1. CASE Throw(o, "openThrew")
            BY <3>1, ThrowMoves DEF Moves, Results
        <3>2. CASE Return(o, "returned") \/ Return(o, "threw")
            BY <3>2, ReturnMoves DEF Results
        <3> QED
            BY <1>4, <3>1, <3>2 DEF Fail, CloseUdpSocket
    <2>2. TypeOK'
        BY <1>4, <2>1, <1>a, KernelFollowsType, ListGone DEF Fail, CloseUdpSocket, Moves, TypeOK
    <2>3. \A p \in Objects \ {o} : fd'[p] = fd[p]
        BY <1>4, OthersKeep DEF Fail, CloseUdpSocket
    <2> QED
        BY <2>1, <2>2, <2>3 DEF Moves, SocketNeedsNoNumber, NewIsClosed, isOpen
<1>5. ASSUME NEW o \in Objects, Renews(o)
      PROVE  CoreInv'
    <2>1. Renew(o)
        BY <1>5 DEF Renews, Destroy, Unwind
    <2>2. Fresh \in [source : Addresses, port : PortArgs, group : Groups]
        BY DEF Fresh, Addresses, PortArgs, Groups
    <2>3. TypeOK'
        BY <2>1, <2>2, <1>a, KernelFollowsType, ListGone, ReturnType DEF Renew, TypeOK, Results
    <2>4. ~isOpen(o)'
        BY <2>1 DEF Renew, Destructor, isOpen, NoFd, tableVars, TypeOK, TableTypeOK
    <2>5. \A p \in Objects \ {o} : fd'[p] = fd[p]
        BY <2>1, OthersKeep DEF Renew
    <2> QED
        BY <2>1, <2>3, <2>4, <2>5, ReturnType
           DEF Renew, SocketNeedsNoNumber, NewIsClosed, isOpen, Results
<1>6. ASSUME NEW o \in Objects, QuietStep(o)
      PROVE  CoreInv'
    <2>1. UNCHANGED fd
        BY <1>6, QuietTable
    <2>2. TypeOK' /\ (UNCHANGED <<pc, ret>> \/ Moves(o, Calls \ {"socket"}, Results \ {"new"}))
        BY <1>6, <1>a, ConfiguresType, ReceivesType DEF QuietStep, Moves, Calls, Results
    <2> QED
        BY <2>1, <2>2 DEF Moves, SocketNeedsNoNumber, NewIsClosed, isOpen
<1>7. CASE Arrive
    <2>1. PICK d \in Datagrams, i \in Ifaces : Deliver(d, i)
        BY <1>7 DEF Arrive
    <2>2. ASSUME NEW q \in Seq(Datagrams), Len(q) < MaxInbox
          PROVE  Append(q, d) \in Seq(Datagrams) /\ Len(Append(q, d)) <= MaxInbox
        <3>1. Append(q, d) \in Seq(Datagrams) /\ Len(Append(q, d)) = Len(q) + 1
            OBVIOUS
        <3>2. Len(q) \in Nat
            OBVIOUS
        <3> QED
            BY <2>2, <3>1, <3>2, ReceiverAssumption
    <2>3. /\ inbox' \in [Fds -> Seq(Datagrams)]
          /\ \A f \in Fds : Len(inbox'[f]) <= MaxInbox
        BY <2>1, <2>2 DEF Deliver, TypeOK
    <2> QED
        BY <1>7, <1>a, <2>3
           DEF Arrive, TypeOK, SocketNeedsNoNumber, NewIsClosed, isOpen, tableVars
<1>8. CASE RestOfProcess
    BY <1>8, <1>a, KernelFollowsType
       DEF RestOfProcess, ForeignOpen, ForeignClose, TypeOK, SocketNeedsNoNumber,
           NewIsClosed, isOpen
<1>9. CASE UNCHANGED vars
    BY <1>9 DEF vars, tableVars, kernelVars, TypeOK, TableTypeOK, SocketNeedsNoNumber,
                NewIsClosed, isOpen
<1> QED
    BY <1>1, <1>2, <1>3, <1>4, <1>5, <1>6, <1>7, <1>8, <1>9
       DEF Next, Method, Renews, QuietStep, Configures, Receives

THEOREM CoreCorrect == Spec => []CoreInv
BY CoreInit, CoreStep, PTL DEF Spec

(* Type correctness of CUdpMulticastReceiver. *)
THEOREM TypeCorrect == Spec => []TypeOK
<1>1. CoreInv => TypeOK
    BY DEF CoreInv
<1> QED
    BY <1>1, CoreCorrect, PTL

(* The receiver keeps the ownership contract through every failure of      *)
(* open(), in the copy constructor and in its unwinding.                   *)
THEOREM KeepsContract == Spec => TableSpec
<1>1. Init => TableInit
    BY DEF Init
<1> QED
    BY <1>1, TableStep, CoreCorrect, PTL DEF Spec, TableSpec

(* Hence no failure of open(), in a constructor or not, leaks a descriptor, *)
THEOREM NeverLeaks == Spec => []NoLeak
BY KeepsContract, TableNeverLeaks

(* isOpen() is truthful until closeUdpSocket() throws on a released number, *)
THEOREM HandlesHonest == Spec => []HonestHandles
BY KeepsContract, TableHandlesHonest

(* and a receiver closes no descriptor but its own. *)
THEOREM ClosesOwn == Spec => NoStrangerClose
BY KeepsContract, TableNoStrangerClose

-----------------------------------------------------------------------------
(* What the object and its socket have to agree on at each point of open() *)
(* and after it.                                                           *)
Described(o) ==
    isOpen(o) => \A m \in members[fd[o]] :
                     m.group = config[o].group /\ m.source = config[o].source

(* The socket is a member on the interfaces of the list that the loop has  *)
(* come to, and on no other.                                               *)
JoinedSoFar(o) ==
    /\ todo[o].rest \subseteq todo[o].all
    /\ members[fd[o]] = {Membership(o, i) : i \in todo[o].all \ todo[o].rest}

Agrees(o) ==
    /\ Described(o)
    /\ pc[o] \in {"reuse", "bind", "list"} => isOpen(o) /\ members[fd[o]] = {}
    /\ pc[o] \in {"join", "all"} \/ ret[o] = "opened" => JoinedSoFar(o)
    /\ pc[o] \in {"list", "join", "all"} \/ ret[o] = "opened" => fd[o] \in bound
    /\ pc[o] = "all" \/ ret[o] = "opened" => todo[o].rest = {}
    /\ ret[o] = "openThrew" => ~isOpen(o)

Agreement == staleKept \/ \A o \in Objects : Agrees(o)

(* A number that nobody has brings nothing to its next holder: no          *)
(* membership, no binding and no datagram of the socket that had it.       *)
FreeIsEmpty ==
    \A f \in Fds : files[f] = Free => members[f] = {} /\ inbox[f] = <<>> /\ f \notin bound

LEMMA FreeIsEmptyStep == CoreInv /\ FreeIsEmpty /\ [Next]_vars => FreeIsEmpty'
<1> SUFFICES ASSUME CoreInv, FreeIsEmpty, [Next]_vars
             PROVE  FreeIsEmpty'
    OBVIOUS
<1>1. KernelFollows => FreeIsEmpty'
    BY DEF KernelFollows, PortsFollow, FreeIsEmpty
<1>2. ASSUME UNCHANGED files,
             \A f \in Fds : files[f] = Free =>
                 /\ members'[f] = members[f]
                 /\ inbox'[f] = inbox[f]
                 /\ f \in bound' => f \in bound
      PROVE  FreeIsEmpty'
    BY <1>2 DEF FreeIsEmpty
<1>3. ASSUME NEW o \in Objects, Join(o)
      PROVE  FreeIsEmpty'
    <2>1. UNCHANGED members \/
          (IsLive(fd[o]) /\ \A f \in Fds : f # fd[o] => members'[f] = members[f])
        BY <1>3 DEF Join, JoinOn, CoreInv, TypeOK
    <2>2. UNCHANGED <<files, inbox, bound>>
        BY <1>3 DEF Join, tableVars
    <2> QED
        BY <1>2, <2>1, <2>2 DEF IsLive
<1>4. ASSUME NEW o \in Objects, Bind(o)
      PROVE  FreeIsEmpty'
    <2>1. UNCHANGED <<files, members, inbox>>
        BY <1>4 DEF Bind, tableVars
    <2>2. UNCHANGED bound \/ (IsLive(fd[o]) /\ bound' = bound \cup {fd[o]})
        BY <1>4 DEF Bind
    <2> QED
        BY <1>2, <2>1, <2>2 DEF IsLive
<1>5. ASSUME NEW o \in Objects, Receive(o) \/ Skip(o)
      PROVE  FreeIsEmpty'
    <2>1. UNCHANGED <<files, members, bound>>
        BY <1>5 DEF Receive, Skip, tableVars
    <2>2. IsLive(fd[o]) /\ \A f \in Fds : f # fd[o] => inbox'[f] = inbox[f]
        BY <1>5 DEF Receive, Skip, HasDatagram, TakeFrom, CoreInv, TypeOK
    <2> QED
        BY <1>2, <2>1, <2>2 DEF IsLive
<1>6. CASE Arrive
    <2>1. UNCHANGED <<files, members, bound>>
        BY <1>6 DEF Arrive, tableVars
    <2>2. \A f \in Fds : f \notin bound => inbox'[f] = inbox[f]
        BY <1>6 DEF Arrive, Deliver, Accepts
    <2> QED
        BY <1>2, <2>1, <2>2 DEF FreeIsEmpty
<1>7. ASSUME NEW o \in Objects,
             \/ SetReuseAddr(o) \/ ListInterfaces(o) \/ SetMulticastAll(o)
             \/ SetNonBlocking(o) \/ CallReceive(o) \/ NothingThere(o) \/ ReceiveError(o)
             \/ \E orig \in Objects : Copy(o, orig)
      PROVE  UNCHANGED <<files, members, inbox, bound>>
    BY <1>7 DEF SetReuseAddr, ListInterfaces, SetMulticastAll, SetNonBlocking, CallReceive,
                NothingThere, ReceiveError, Copy, kernelVars, tableVars
<1>8. ASSUME NEW o \in Objects,
             \/ \E r \in Requests : Open(o, r)
             \/ Socket(o) \/ Fail(o) \/ CloseUdpSocket(o) \/ Renews(o)
      PROVE  KernelFollows
    BY <1>8 DEF Open, Socket, Fail, CloseUdpSocket, Renews, Destroy, Unwind, Renew
<1>9. CASE RestOfProcess
    BY <1>1, <1>9 DEF RestOfProcess
<1>10. CASE UNCHANGED vars
    BY <1>2, <1>10 DEF vars, kernelVars, tableVars
<1> QED
    BY <1>1, <1>2, <1>3, <1>4, <1>5, <1>6, <1>7, <1>8, <1>9, <1>10 DEF Next, Method, Renews

LEMMA StaleStays ==
    CoreInv /\ [Next]_vars /\ staleKept => staleKept'
<1> SUFFICES ASSUME CoreInv, [TableNext]_tableVars, staleKept
             PROVE  staleKept'
    BY TableStep
<1> QED
    BY DEF TableNext, tableVars, Acquire, SocketOk, SocketFails, CloseOk, CloseThrows,
           Destructor, ForeignOpen, ForeignClose

(* A close leaves the object closed, or keeps a number that the kernel     *)
(* released: an honest number cannot make close() answer EBADF.            *)
LEMMA CloseCloses ==
    ASSUME TypeOK, HonestHandles, NEW o \in Objects, CloseOk(o) \/ CloseThrows(o)
    PROVE  ~isOpen(o)' \/ staleKept'
<1>1. CASE CloseOk(o)
    BY <1>1 DEF CloseOk, isOpen, NoFd, TypeOK, TableTypeOK
<1>2. CASE CloseThrows(o) /\ IsLive(fd[o])
    BY <1>2 DEF CloseThrows
<1>3. CASE CloseThrows(o) /\ ~IsLive(fd[o])
    <2>1. staleKept \/ ~isOpen(o)
        BY <1>3, TableAssumption
           DEF HonestHandles, IsLive, isOpen, TypeOK, TableTypeOK, NoFd
    <2> QED
        BY <1>3, <2>1 DEF CloseThrows, isOpen
<1> QED
    BY <1>1, <1>2, <1>3

-----------------------------------------------------------------------------
(* An object whose members and whose socket stay as they are. *)
Undisturbed(o) ==
    /\ fd'[o] = fd[o]
    /\ config'[o] = config[o]
    /\ pc'[o] = pc[o]
    /\ ret'[o] = ret[o]
    /\ todo'[o] = todo[o]
    /\ isOpen(o) => /\ members'[fd[o]] = members[fd[o]]
                    /\ fd[o] \in bound => fd[o] \in bound'

LEMMA JoinedKept ==
    ASSUME NEW o \in Objects, JoinedSoFar(o),
           fd'[o] = fd[o], members'[fd[o]] = members[fd[o]], todo'[o] = todo[o],
           config'[o].group = config[o].group, config'[o].source = config[o].source
    PROVE  JoinedSoFar(o)'
<1>1. \A i : Membership(o, i)' = Membership(o, i)
    BY DEF Membership
<1> QED
    BY <1>1 DEF JoinedSoFar

LEMMA UndisturbedAgrees ==
    ASSUME TypeOK, NEW o \in Objects, Agrees(o), Undisturbed(o)
    PROVE  Agrees(o)'
<1>1. fd[o] \in bound => isOpen(o)
    <2>1. fd[o] \in bound => fd[o] \in Fds
        BY DEF TypeOK
    <2>2. \A f \in Fds : f >= 0
        BY DEF Fds
    <2> QED
        BY <2>1, <2>2 DEF isOpen
<1>2. isOpen(o) /\ JoinedSoFar(o) => JoinedSoFar(o)'
    BY JoinedKept DEF Undisturbed
<1> QED
    BY <1>1, <1>2 DEF Agrees, Described, Undisturbed, isOpen

(* An object that is closed now, and did not just finish open(). *)
LEMMA ClosedAgrees ==
    ASSUME NEW o \in Objects, ~isOpen(o)',
           pc'[o] \notin {"reuse", "bind", "list", "join", "all"}, ret'[o] # "opened"
    PROVE  Agrees(o)'
BY DEF Agrees, Described

(* The kernel keeps the state of a socket as long as its number is in use, *)
(* which the number of an honest object is.                                *)
LEMMA HeldSocketKept ==
    ASSUME TypeOK', HonestHandles', ~staleKept', KernelFollows,
           NEW o \in Objects, isOpen(o)'
    PROVE  /\ members'[fd'[o]] = members[fd'[o]]
           /\ inbox'[fd'[o]] = inbox[fd'[o]]
           /\ fd'[o] \in bound => fd'[o] \in bound'
<1>1. fd'[o] \in Fds /\ files'[fd'[o]] # Free
    BY TableAssumption DEF HonestHandles, TypeOK, TableTypeOK, isOpen, NoFd
<1> QED
    BY <1>1 DEF KernelFollows, PortsFollow

(* The steps of open() after socket(): each adds what the next one needs.  *)
LEMMA ConfiguresAgrees ==
    ASSUME CoreInv, NEW o \in Objects, Agrees(o), Configures(o)
    PROVE  Agrees(o)'
<1> USE DEF CoreInv
<1>1. UNCHANGED <<files, fd, config>>
    BY DEF Configures, SetReuseAddr, Bind, ListInterfaces, Join, SetMulticastAll, tableVars
<1>2. CASE UNCHANGED members /\ (Goto(o, "fail") \/ Throw(o, "listThrew"))
    <2>1. pc'[o] \in {"fail", "unwind", "idle"} /\ ret'[o] \in {"running", "listThrew"}
        BY <1>2, GotoType, ThrowMoves DEF Moves, Calls, Results
    <2> QED
        BY <1>1, <1>2, <2>1 DEF Agrees, Described, isOpen
<1>3. CASE SetReuseAddr(o) /\ Goto(o, "bind")
    BY <1>1, <1>3, GotoType DEF SetReuseAddr, kernelVars, Agrees, Described, isOpen, Calls
<1>4. CASE Bind(o) /\ Goto(o, "list") /\ bound' = bound \cup {fd[o]}
    BY <1>1, <1>4, GotoType DEF Bind, Agrees, Described, isOpen, Calls
<1>5. ASSUME ListInterfaces(o), NEW up \in SUBSET Ifaces,
             todo' = [todo EXCEPT ![o] = [all |-> up, rest |-> up]],
             Goto(o, IF up = {} THEN "all" ELSE "join")
      PROVE  Agrees(o)'
    <2>1. todo'[o] = [all |-> up, rest |-> up]
        BY <1>5 DEF TypeOK
    <2>2. pc'[o] = (IF up = {} THEN "all" ELSE "join") /\ ret'[o] = "running"
        BY <1>5, GotoType DEF Calls
    <2>3. members'[fd'[o]] = {}
        BY <1>1, <1>5 DEF ListInterfaces, kernelVars, Agrees
    <2>4. JoinedSoFar(o)'
        BY <2>1, <2>3 DEF JoinedSoFar
    <2> QED
        BY <1>1, <1>5, <2>1, <2>2, <2>4
           DEF ListInterfaces, kernelVars, Agrees, Described, isOpen
<1>6. ASSUME Join(o), NEW i \in todo[o].rest, JoinOn(o, i),
             Goto(o, IF todo[o].rest = {i} THEN "all" ELSE "join")
      PROVE  Agrees(o)'
    <2>1. todo'[o].all = todo[o].all /\ todo'[o].rest = todo[o].rest \ {i}
        BY <1>6, JoinOnList
    <2>2. pc'[o] = (IF todo[o].rest = {i} THEN "all" ELSE "join") /\ ret'[o] = "running"
        BY <1>6, GotoType DEF Calls
    <2>3. members'[fd[o]] = members[fd[o]] \cup {Membership(o, i)}
        BY <1>6 DEF JoinOn, IsLive, TypeOK
    <2>4. Described(o)'
        BY <1>1, <2>3 DEF Agrees, Described, Membership, isOpen
    <2>5. fd'[o] \in bound'
        BY <1>1, <1>6 DEF Join, Agrees
    <2>6. JoinedSoFar(o)'
        <3>1. \A j : Membership(o, j)' = Membership(o, j)
            BY <1>1 DEF Membership
        <3>2. JoinedSoFar(o)
            BY <1>6 DEF Join, Agrees
        <3> QED
            BY <1>1, <1>6, <2>1, <2>3, <3>1, <3>2 DEF JoinedSoFar
    <2> QED
        BY <2>1, <2>2, <2>4, <2>5, <2>6 DEF Agrees
<1>7. CASE SetMulticastAll(o) /\ Return(o, "opened")
    <2>1. UNCHANGED <<fd, members, bound, todo, config>>
        BY <1>7 DEF SetMulticastAll, kernelVars, tableVars
    <2>2. pc'[o] = "idle" /\ ret'[o] = "opened"
        BY <1>7, ReturnType DEF Results
    <2>3. JoinedSoFar(o) /\ todo[o].rest = {} /\ fd[o] \in bound /\ Described(o)
        BY <1>7 DEF SetMulticastAll, Agrees
    <2>4. JoinedSoFar(o)'
        BY <2>1, <2>3, JoinedKept
    <2> QED
        BY <2>1, <2>2, <2>3, <2>4 DEF Agrees, Described, isOpen
<1> QED
    BY <1>2, <1>3, <1>4, <1>5, <1>6, <1>7
       DEF Configures, SetReuseAddr, Bind, ListInterfaces, Join, SetMulticastAll, kernelVars

(* They concern the socket of one object. *)
LEMMA ConfiguresOwn ==
    ASSUME CoreInv, HonestHandles, ~staleKept, NEW o \in Objects, Configures(o),
           NEW p \in Objects \ {o}
    PROVE  Undisturbed(p)
<1>1. UNCHANGED <<fd, config>>
    BY DEF Configures, SetReuseAddr, Bind, ListInterfaces, Join, SetMulticastAll, tableVars
<1>2. pc'[p] = pc[p] /\ ret'[p] = ret[p]
    <2>1. TableTypeOK'
        BY QuietTable, TableTypeStep DEF QuietStep, CoreInv, TypeOK
    <2> QED
        BY <2>1, ConfiguresType DEF Moves
<1>3. todo'[p] = todo[p]
    <2>1. CASE Join(o)
        BY <2>1, ListGone, JoinOnList DEF Join, CoreInv
    <2> QED
        BY <2>1 DEF Configures, SetReuseAddr, Bind, ListInterfaces, SetMulticastAll,
                    CoreInv, TypeOK
<1>4. isOpen(p) => members'[fd[p]] = members[fd[p]]
    <2>1. IsLive(fd[o]) /\ isOpen(p) => fd[o] # fd[p]
        BY DEF HonestHandles, IsLive, isOpen, Fds
    <2>2. isOpen(p) => fd[p] \in Fds
        BY DEF CoreInv, TypeOK, TableTypeOK, isOpen, NoFd
    <2>3. ASSUME NEW i, JoinOn(o, i), isOpen(p)
          PROVE  members'[fd[p]] = members[fd[p]]
        BY <2>1, <2>2, <2>3 DEF JoinOn, CoreInv, TypeOK
    <2> QED
        BY <2>3 DEF Configures, SetReuseAddr, Bind, ListInterfaces, Join, SetMulticastAll,
                    kernelVars
<1>5. bound \subseteq bound'
    BY DEF Configures, SetReuseAddr, Bind, ListInterfaces, Join, SetMulticastAll, kernelVars
<1> QED
    BY <1>1, <1>2, <1>3, <1>4, <1>5 DEF Undisturbed

(* receive() and setNonBlocking() change none of what is compared, but the *)
(* port, which no membership has.                                          *)
LEMMA ReceivesKeeps ==
    ASSUME CoreInv, NEW o \in Objects, Receives(o) \/ SetNonBlocking(o)
    PROVE  /\ UNCHANGED <<fd, members, bound, todo>>
           /\ \A p \in Objects : /\ config'[p].group = config[p].group
                                 /\ config'[p].source = config[p].source
           /\ \A p \in Objects \ {o} : config'[p] = config[p] /\ pc'[p] = pc[p] /\ ret'[p] = ret[p]
           /\ \/ UNCHANGED <<pc, ret>>
              \/ pc'[o] \in {"recv", "idle"} /\ ret'[o] \notin {"opened", "openThrew"}
<1>1. UNCHANGED <<fd, members, bound, todo>>
    BY DEF Receives, SetNonBlocking, CallReceive, Receive, Skip, NothingThere,
           ReceiveError, kernelVars, tableVars
<1>2. UNCHANGED config \/ \E n : config' = [config EXCEPT ![o].port = n]
    BY DEF Receives, SetNonBlocking, CallReceive, Receive, Skip, NothingThere, ReceiveError
<1>3. /\ \A p \in Objects : /\ config'[p].group = config[p].group
                            /\ config'[p].source = config[p].source
      /\ \A p \in Objects \ {o} : config'[p] = config[p]
    BY <1>2 DEF CoreInv, TypeOK
<1>4. TableTypeOK'
    BY QuietTable, TableTypeStep DEF QuietStep, CoreInv, TypeOK
<1>5. UNCHANGED <<pc, ret>> \/ Moves(o, {"recv"}, {"message", "zero", "threw", "returned"})
    BY <1>4, ReceivesType
<1> QED
    BY <1>1, <1>3, <1>5 DEF Moves

LEMMA AgreementStep ==
    CoreInv /\ HonestHandles /\ HonestHandles' /\ FreeIsEmpty /\ Agreement /\ [Next]_vars
        => Agreement'
<1> SUFFICES ASSUME CoreInv, HonestHandles, HonestHandles', FreeIsEmpty, Agreement,
                    [Next]_vars, ~staleKept', NEW p \in Objects
             PROVE  Agrees(p)'
    BY DEF Agreement
<1>a. TypeOK /\ TypeOK' /\ ~staleKept /\ Agrees(p)
    BY StaleStays, CoreStep DEF CoreInv, Agreement
<1>b. fd'[p] = fd[p] /\ KernelFollows /\ isOpen(p) =>
          members'[fd[p]] = members[fd[p]] /\ (fd[p] \in bound => fd[p] \in bound')
    BY <1>a, HeldSocketKept DEF isOpen
<1>1. ASSUME NEW o \in Objects, NEW r \in Requests, Open(o, r)
      PROVE  Agrees(p)'
    <2>1. CASE p = o
        <3>1. /\ pc'[p] \in {"idle", "socket"}
              /\ ret'[p] \in {"running", "openThrew"}
            BY <1>1, <1>a, <2>1, GotoType, ReturnType DEF Open, Calls, Results
        <3>2. ~isOpen(p)'
            BY <1>1, <1>a, <2>1, CloseCloses DEF Open, isOpen, tableVars
        <3> QED
            BY <3>1, <3>2, ClosedAgrees
    <2>2. CASE p # o
        <3>1. fd'[p] = fd[p]
            BY <1>1, <1>a, <2>2, OthersKeep DEF Open
        <3>2. Undisturbed(p)
            BY <1>1, <1>a, <1>b, <2>2, <3>1, ListGone, ReturnType, GotoType
               DEF Open, Undisturbed, TypeOK, Calls, Results
        <3> QED
            BY <1>a, <3>2, UndisturbedAgrees
    <2> QED
        BY <2>1, <2>2
<1>2. ASSUME NEW o \in Objects, NEW orig \in Objects, Copy(o, orig)
      PROVE  Agrees(p)'
    <2>1. CASE p = o
        <3>1. pc'[p] \in {"idle", "socket"} /\ ret'[p] \in {"running", "returned"}
            BY <1>2, <1>a, <2>1, GotoType, ReturnType DEF Copy, Calls, Results
        <3>2. ~isOpen(p)'
            BY <1>2, <2>1 DEF Copy, CoreInv, NewIsClosed, isOpen, tableVars
        <3> QED
            BY <3>1, <3>2, ClosedAgrees
    <2>2. CASE p # o
        <3>1. Undisturbed(p)
            BY <1>2, <1>a, <2>2, ReturnType, GotoType
               DEF Copy, Undisturbed, kernelVars, tableVars, TypeOK, Calls, Results
        <3> QED
            BY <1>a, <3>1, UndisturbedAgrees
    <2> QED
        BY <2>1, <2>2
<1>3. ASSUME NEW o \in Objects, Socket(o)
      PROVE  Agrees(p)'
    <2>1. CASE p = o
        <3>1. CASE SocketOk(o) /\ Goto(o, "reuse")
            <4>1. fd'[p] \in Fds /\ files[fd'[p]] = Free
                BY <1>a, <2>1, <3>1 DEF SocketOk, LowestFree, FreeFds, TypeOK, TableTypeOK
            <4>2. members'[fd'[p]] = {}
                BY <1>3, <4>1 DEF Socket, KernelFollows, PortsFollow, FreeIsEmpty
            <4>3. isOpen(p)'
                BY <4>1 DEF isOpen, Fds
            <4> QED
                BY <1>a, <2>1, <3>1, <4>2, <4>3, GotoType DEF Agrees, Described, Calls
        <3>2. CASE SocketFails(o) /\ Throw(o, "openThrew")
            <4>1. ~isOpen(p)'
                BY <1>a, <2>1, <3>2 DEF SocketFails, isOpen, NoFd, TypeOK, TableTypeOK
            <4>2. pc'[p] \in {"idle", "unwind"} /\ ret'[p] \in {"running", "openThrew"}
                BY <1>a, <2>1, <3>2, ThrowMoves DEF Moves, Results
            <4> QED
                BY <4>1, <4>2, ClosedAgrees
        <3> QED
            BY <1>3, <3>1, <3>2 DEF Socket
    <2>2. CASE p # o
        <3>1. fd'[p] = fd[p]
            BY <1>3, <1>a, <2>2, OthersKeep DEF Socket
        <3>2. pc'[p] = pc[p] /\ ret'[p] = ret[p]
            BY <1>3, <1>a, <2>2, GotoType, ThrowMoves DEF Socket, Moves, Calls, Results
        <3>3. Undisturbed(p)
            BY <1>3, <1>b, <3>1, <3>2 DEF Socket, Undisturbed
        <3> QED
            BY <1>a, <3>3, UndisturbedAgrees
    <2> QED
        BY <2>1, <2>2
<1>4. ASSUME NEW o \in Objects, Fail(o) \/ CloseUdpSocket(o)
      PROVE  Agrees(p)'
    <2>1. /\ pc'[o] \in {"idle", "unwind"}
          /\ ret'[o] \in {"running", "openThrew", "returned", "threw"}
          /\ \A q \in Objects \ {o} : pc'[q] = pc[q] /\ ret'[q] = ret[q]
        BY <1>4, <1>a, ThrowMoves, ReturnType DEF Fail, CloseUdpSocket, Moves, Results
    <2>2. CASE p = o
        <3>1. ~isOpen(p)'
            BY <1>4, <1>a, <2>2, CloseCloses DEF Fail, CloseUdpSocket
        <3> QED
            BY <2>1, <2>2, <3>1, ClosedAgrees
    <2>3. CASE p # o
        <3>1. fd'[p] = fd[p]
            BY <1>4, <1>a, <2>3, OthersKeep DEF Fail, CloseUdpSocket
        <3>2. Undisturbed(p)
            BY <1>4, <1>a, <1>b, <2>1, <2>3, <3>1, ListGone DEF Fail, CloseUdpSocket, Undisturbed
        <3> QED
            BY <1>a, <3>2, UndisturbedAgrees
    <2> QED
        BY <2>2, <2>3
<1>5. ASSUME NEW o \in Objects, Renews(o)
      PROVE  Agrees(p)'
    <2>1. Renew(o)
        BY <1>5 DEF Renews, Destroy, Unwind
    <2>2. CASE p = o
        <3>1. ~isOpen(p)'
            BY <1>a, <2>1, <2>2
               DEF Renew, Destructor, isOpen, NoFd, tableVars, TypeOK, TableTypeOK
        <3>2. pc'[p] = "idle" /\ ret'[p] = "new"
            BY <1>a, <2>1, <2>2, ReturnType DEF Renew, Results
        <3> QED
            BY <3>1, <3>2, ClosedAgrees
    <2>3. CASE p # o
        <3>1. fd'[p] = fd[p]
            BY <1>a, <2>1, <2>3, OthersKeep DEF Renew
        <3>2. Undisturbed(p)
            BY <1>a, <1>b, <2>1, <2>3, <3>1, ListGone, ReturnType
               DEF Renew, Undisturbed, TypeOK, Results
        <3> QED
            BY <1>a, <3>2, UndisturbedAgrees
    <2> QED
        BY <2>2, <2>3
<1>6. ASSUME NEW o \in Objects, Configures(o)
      PROVE  Agrees(p)'
    BY <1>6, <1>a, ConfiguresAgrees, ConfiguresOwn, UndisturbedAgrees
<1>7. ASSUME NEW o \in Objects, Receives(o) \/ SetNonBlocking(o)
      PROVE  Agrees(p)'
    <2>1. /\ UNCHANGED <<fd, members, bound, todo>>
          /\ config'[p].group = config[p].group
          /\ config'[p].source = config[p].source
        BY <1>7, ReceivesKeeps
    <2>2. \/ pc'[p] = pc[p] /\ ret'[p] = ret[p]
          \/ pc'[p] \in {"recv", "idle"} /\ ret'[p] \notin {"opened", "openThrew"}
        BY <1>7, ReceivesKeeps
    <2>3. JoinedSoFar(p) => JoinedSoFar(p)'
        BY <2>1, JoinedKept
    <2> QED
        BY <1>a, <2>1, <2>2, <2>3 DEF Agrees, Described, isOpen
<1>8. CASE RestOfProcess
    <2>1. fd'[p] = fd[p]
        BY <1>8 DEF RestOfProcess, ForeignOpen, ForeignClose
    <2>2. Undisturbed(p)
        BY <1>8, <1>b, <2>1 DEF RestOfProcess, Undisturbed
    <2> QED
        BY <1>a, <2>2, UndisturbedAgrees
<1>9. CASE Arrive \/ UNCHANGED vars
    <2>1. Undisturbed(p)
        BY <1>9 DEF Arrive, Undisturbed, vars, kernelVars, tableVars
    <2> QED
        BY <1>a, <2>1, UndisturbedAgrees
<1> QED
    BY <1>1, <1>2, <1>3, <1>4, <1>5, <1>6, <1>7, <1>8, <1>9
       DEF Next, Method, Renews, Configures, Receives

THEOREM FreeNumbersEmpty == Spec => []FreeIsEmpty
<1>1. Init => FreeIsEmpty
    BY DEF Init, FreeIsEmpty
<1> QED
    BY <1>1, FreeIsEmptyStep, CoreCorrect, PTL DEF Spec

THEOREM AlwaysAgrees == Spec => []Agreement
<1>1. Init => Agreement
    BY DEF Init, TableInit, Agreement, Agrees, Described, isOpen, NoFd
<1> QED
    BY <1>1, AgreementStep, FreeNumbersEmpty, CoreCorrect, HandlesHonest, PTL DEF Spec

-----------------------------------------------------------------------------
(* An open() that throws leaves the object closed, unless a close error or *)
(* a failure of getifaddrs() came between.                                 *)
THEOREM FailureOfOpenCloses == Spec => []OpenFailureCloses
<1>1. Agreement => OpenFailureCloses
    BY DEF Agreement, Agrees, OpenFailureCloses
<1> QED
    BY <1>1, AlwaysAgrees, PTL

(* The socket an object holds is subscribed to what its getters answer,    *)
(* and to nothing else, at every moment of open(), failing ones included.  *)
THEOREM GettersDescribeSocket == Spec => []ConfigIsSubscription
<1>1. Agreement => ConfigIsSubscription
    BY DEF Agreement, Agrees, Described, ConfigIsSubscription
<1> QED
    BY <1>1, AlwaysAgrees, PTL

(* After an open() that returns the socket is bound, and its memberships   *)
(* are those on the interfaces of the list, one for each and no other.     *)
THEOREM OpenFinishes == Spec => []OpenedIsJoined
<1>1. Agreement => OpenedIsJoined
    <2>1. \A o \in Objects : JoinedSoFar(o) /\ todo[o].rest = {} =>
              members[fd[o]] = {Membership(o, i) : i \in todo[o].all}
        BY DEF JoinedSoFar
    <2> QED
        BY <2>1 DEF Agreement, Agrees, OpenedIsJoined
<1> QED
    BY <1>1, AlwaysAgrees, PTL
-----------------------------------------------------------------------------
(***************************************************************************)
(* What a filter leaves of a queue (module Selection), when the queue      *)
(* grows at its end, when its head is taken, and when it is filtered       *)
(* again.  Chosen is a recursive function: that it equals its body needs   *)
(* that functions with this property exist on every beginning of Nat       *)
(* (PrefixExists) and agree where they overlap (PrefixUnique).             *)
(***************************************************************************)

(* One turn of the recursion. *)
Turn(s, S, c, n) == IF s[n] \in S THEN Append(c, s[n]) ELSE c

Prefix(s, S, h, n) ==
    /\ h[0] = <<>>
    /\ \A i \in 1 .. n : h[i] = Turn(s, S, h[i - 1], i)

LEMMA PrefixExists ==
    ASSUME NEW s, NEW S
    PROVE  \A n \in Nat : \E h : h = [i \in 0 .. n |-> h[i]] /\ Prefix(s, S, h, n)
<1> DEFINE P == {n \in Nat : \E h : h = [i \in 0 .. n |-> h[i]] /\ Prefix(s, S, h, n)}
<1>1. 0 \in P
    <2> DEFINE h == [i \in 0 .. 0 |-> <<>>]
    <2>1. h = [i \in 0 .. 0 |-> h[i]] /\ Prefix(s, S, h, 0)
        BY DEF Prefix
    <2> QED
        BY <2>1
<1>2. ASSUME NEW n \in P
      PROVE  n + 1 \in P
    <2>1. PICK h : h = [i \in 0 .. n |-> h[i]] /\ Prefix(s, S, h, n)
        OBVIOUS
    <2> DEFINE g == [i \in 0 .. n + 1 |-> IF i = n + 1 THEN Turn(s, S, h[n], n + 1) ELSE h[i]]
    <2>2. g = [i \in 0 .. n + 1 |-> g[i]]
        OBVIOUS
    <2>3. g[0] = <<>>
        BY <2>1 DEF Prefix
    <2>4. \A i \in 1 .. n + 1 : g[i] = Turn(s, S, g[i - 1], i)
        BY <2>1 DEF Prefix
    <2>5. Prefix(s, S, g, n + 1)
        BY <2>3, <2>4 DEF Prefix
    <2> HIDE DEF g
    <2> QED
        BY <2>2, <2>5
<1>3. Nat \subseteq P
    <2> HIDE DEF P
    <2> QED
        BY <1>1, <1>2, Induction
<1> QED
    BY <1>3

LEMMA PrefixUnique ==
    ASSUME NEW s, NEW S, NEW m \in Nat, NEW n \in Nat, NEW g, NEW h,
           Prefix(s, S, g, m), Prefix(s, S, h, n), m <= n
    PROVE  g[m] = h[m]
<1> DEFINE P == {i \in Nat : i <= m => g[i] = h[i]}
<1>1. 0 \in P
    BY DEF Prefix
<1>2. ASSUME NEW i \in P
      PROVE  i + 1 \in P
    <2> SUFFICES ASSUME i + 1 <= m
                 PROVE  g[i + 1] = h[i + 1]
        OBVIOUS
    <2>1. g[i + 1] = Turn(s, S, g[i], i + 1) /\ h[i + 1] = Turn(s, S, h[i], i + 1)
        BY DEF Prefix
    <2> QED
        BY <2>1
<1>3. Nat \subseteq P
    <2> HIDE DEF P
    <2> QED
        BY <1>1, <1>2, Induction
<1> QED
    BY <1>3

LEMMA ChosenDef ==
    ASSUME NEW s, NEW S
    PROVE  /\ Chosen(s, S)[0] = <<>>
           /\ \A n \in Nat \ {0} : Chosen(s, S)[n] = Turn(s, S, Chosen(s, S)[n - 1], n)
<1> DEFINE H(n) == CHOOSE h : Prefix(s, S, h, n)
           g == [n \in Nat |-> H(n)[n]]
           IsChosen(c) == c = [n \in Nat |-> IF n = 0 THEN <<>>
                                   ELSE IF s[n] \in S THEN Append(c[n - 1], s[n])
                                   ELSE c[n - 1]]
<1>1. \A n \in Nat : Prefix(s, S, H(n), n)
    BY PrefixExists, Zenon
<1>2. g[0] = <<>>
    BY <1>1 DEF Prefix
<1>3. ASSUME NEW n \in Nat \ {0}
      PROVE  g[n] = Turn(s, S, g[n - 1], n)
    <2>1. H(n)[n] = Turn(s, S, H(n)[n - 1], n)
        BY <1>1 DEF Prefix
    <2>2. H(n - 1)[n - 1] = H(n)[n - 1]
        <3>1. n - 1 \in Nat /\ n - 1 <= n
            OBVIOUS
        <3>2. Prefix(s, S, H(n - 1), n - 1) /\ Prefix(s, S, H(n), n)
            BY <1>1, <3>1
        <3> HIDE DEF H
        <3> QED
            BY <3>1, <3>2, PrefixUnique
    <2> QED
        BY <2>1, <2>2
<1>4. IsChosen(g)
    <2> HIDE DEF g
    <2>1. g = [n \in Nat |-> g[n]]
        BY DEF g
    <2>2. \A n \in Nat : g[n] = IF n = 0 THEN <<>>
                                ELSE IF s[n] \in S THEN Append(g[n - 1], s[n]) ELSE g[n - 1]
        BY <1>2, <1>3 DEF Turn
    <2> QED
        BY <2>1, <2>2, Zenon
<1>5. Chosen(s, S) = CHOOSE c : IsChosen(c)
    BY DEF Chosen
<1>6. IsChosen(Chosen(s, S))
    <2> HIDE DEF IsChosen, g
    <2> QED
        BY <1>4, <1>5, Zenon
<1> DEFINE c == Chosen(s, S)
<1>7. c[0] = <<>>
    BY <1>6
<1>8. ASSUME NEW n \in Nat \ {0}
      PROVE  c[n] = Turn(s, S, c[n - 1], n)
    BY <1>6 DEF Turn
<1> QED
    BY <1>7, <1>8

LEMMA SelectEmpty ==
    ASSUME NEW S
    PROVE  Select(<<>>, S) = <<>>
BY ChosenDef DEF Select

LEMMA ChosenType ==
    ASSUME NEW D, NEW s \in Seq(D), NEW S
    PROVE  \A n \in 0 .. Len(s) : Chosen(s, S)[n] \in Seq(D)
<1> DEFINE P == {n \in Nat : n <= Len(s) => Chosen(s, S)[n] \in Seq(D)}
<1>1. 0 \in P
    <2>1. Chosen(s, S)[0] = <<>> /\ <<>> \in Seq(D)
        BY ChosenDef, EmptySeq
    <2> QED
        BY <2>1
<1>2. ASSUME NEW n \in P
      PROVE  n + 1 \in P
    <2> SUFFICES ASSUME n + 1 <= Len(s)
                 PROVE  Chosen(s, S)[n + 1] \in Seq(D)
        OBVIOUS
    <2>1. s[n + 1] \in D /\ Chosen(s, S)[n] \in Seq(D)
        OBVIOUS
    <2>2. Chosen(s, S)[n + 1] = Turn(s, S, Chosen(s, S)[n], n + 1)
        BY ChosenDef
    <2> QED
        BY <2>1, <2>2 DEF Turn
<1>3. Nat \subseteq P
    <2> HIDE DEF P
    <2> QED
        BY <1>1, <1>2, Induction
<1> QED
    BY <1>3

LEMMA SelectType ==
    ASSUME NEW D, NEW s \in Seq(D), NEW S
    PROVE  Select(s, S) \in Seq(D)
BY ChosenType DEF Select

(* What is chosen from a beginning of s does not depend on the rest. *)
LEMMA ChosenOfAppend ==
    ASSUME NEW D, NEW s \in Seq(D), NEW t \in Seq(D), NEW S,
           \A i \in 1 .. Len(s) : t[i] = s[i]
    PROVE  \A n \in 0 .. Len(s) : Chosen(t, S)[n] = Chosen(s, S)[n]
<1> DEFINE P == {n \in Nat : n <= Len(s) => Chosen(t, S)[n] = Chosen(s, S)[n]}
<1>1. 0 \in P
    BY ChosenDef
<1>2. ASSUME NEW n \in P
      PROVE  n + 1 \in P
    <2> SUFFICES ASSUME n + 1 <= Len(s)
                 PROVE  Chosen(t, S)[n + 1] = Chosen(s, S)[n + 1]
        OBVIOUS
    <2>1. /\ Chosen(s, S)[n + 1] = Turn(s, S, Chosen(s, S)[n], n + 1)
          /\ Chosen(t, S)[n + 1] = Turn(t, S, Chosen(t, S)[n], n + 1)
        BY ChosenDef
    <2> QED
        BY <2>1 DEF Turn
<1>3. Nat \subseteq P
    <2> HIDE DEF P
    <2> QED
        BY <1>1, <1>2, Induction
<1> QED
    BY <1>3

LEMMA SelectAppend ==
    ASSUME NEW D, NEW s \in Seq(D), NEW e \in D, NEW S
    PROVE  Select(Append(s, e), S) =
               IF e \in S THEN Append(Select(s, S), e) ELSE Select(s, S)
<1>1. PICK t \in Seq(D) : t = Append(s, e)
    BY AppendProperties
<1>2. /\ Len(s) \in Nat
      /\ Len(t) = Len(s) + 1
      /\ t[Len(s) + 1] = e
      /\ \A i \in 1 .. Len(s) : t[i] = s[i]
    BY <1>1, AppendProperties
<1>3. Chosen(t, S)[Len(s)] = Select(s, S)
    BY <1>2, ChosenOfAppend DEF Select
<1>4. Chosen(t, S)[Len(s) + 1] = Turn(t, S, Chosen(t, S)[Len(s)], Len(s) + 1)
    BY <1>2, ChosenDef
<1> QED
    BY <1>1, <1>2, <1>3, <1>4 DEF Select, Turn

(* \o as an operator of its own, which the provers do not look into. *)
Joined(s, t) == s \o t

(* The first element is chosen or not; what is chosen of the rest follows. *)
LEMMA ChosenOfTail ==
    ASSUME NEW D, NEW s \in Seq(D), NEW t \in Seq(D), NEW S, NEW first \in Seq(D),
           first = Turn(s, S, <<>>, 1),
           \A i \in 1 .. Len(t) : s[i + 1] = t[i]
    PROVE  \A n \in 0 .. Len(t) : Chosen(s, S)[n + 1] = Joined(first, Chosen(t, S)[n])
<1> DEFINE P == {n \in Nat : n <= Len(t) => Chosen(s, S)[n + 1] = Joined(first, Chosen(t, S)[n])}
<1>1. 0 \in P
    <2>1. /\ Chosen(s, S)[0] = <<>> /\ Chosen(t, S)[0] = <<>>
          /\ Chosen(s, S)[1] = Turn(s, S, Chosen(s, S)[0], 1)
        BY ChosenDef
    <2>2. Joined(first, <<>>) = first
        BY ConcatEmptySeq DEF Joined
    <2> QED
        BY <2>1, <2>2
<1>2. ASSUME NEW n \in P
      PROVE  n + 1 \in P
    <2> SUFFICES ASSUME n + 1 <= Len(t)
                 PROVE  Chosen(s, S)[n + 2] = Joined(first, Chosen(t, S)[n + 1])
        OBVIOUS
    <2>1. /\ n \in 0 .. Len(t) /\ n + 1 \in 1 .. Len(t)
          /\ Chosen(s, S)[n + 1] = Joined(first, Chosen(t, S)[n])
        OBVIOUS
    <2> HIDE DEF P
    <2>2. s[n + 2] = t[n + 1] /\ t[n + 1] \in D /\ Chosen(t, S)[n] \in Seq(D)
        BY <2>1, ChosenType
    <2>3. /\ Chosen(s, S)[n + 2] = Turn(s, S, Chosen(s, S)[n + 1], n + 2)
          /\ Chosen(t, S)[n + 1] = Turn(t, S, Chosen(t, S)[n], n + 1)
        BY <2>1, ChosenDef
    <2>4. Append(Joined(first, Chosen(t, S)[n]), t[n + 1]) =
              Joined(first, Append(Chosen(t, S)[n], t[n + 1]))
        <3>1. PICK c \in Seq(D), e \in D : c = Chosen(t, S)[n] /\ e = t[n + 1]
            BY <2>2
        <3>2. <<e>> \in Seq(D) /\ first \o c \in Seq(D)
            BY ConcatProperties
        <3>3. Append(first \o c, e) = (first \o c) \o <<e>> /\ Append(c, e) = c \o <<e>>
            BY <3>2, AppendIsConcat
        <3>4. (first \o c) \o <<e>> = first \o (c \o <<e>>)
            BY <3>2, ConcatAssociative
        <3> QED
            BY <3>1, <3>3, <3>4 DEF Joined
    <2> QED
        BY <2>1, <2>2, <2>3, <2>4 DEF Turn
<1>3. Nat \subseteq P
    <2> HIDE DEF P
    <2> QED
        BY <1>1, <1>2, Induction
<1> QED
    BY <1>3

LEMMA SelectTail ==
    ASSUME NEW D, NEW s \in Seq(D), s # <<>>, NEW S
    PROVE  /\ Head(s) \in S => /\ Select(s, S) # <<>>
                               /\ Head(Select(s, S)) = Head(s)
                               /\ Tail(Select(s, S)) = Select(Tail(s), S)
           /\ Head(s) \notin S => Select(s, S) = Select(Tail(s), S)
<1>1. PICK t \in Seq(D) : t = Tail(s)
    BY HeadTailProperties
<1>2. /\ Len(t) \in Nat /\ Len(s) = Len(t) + 1
      /\ \A i \in 1 .. Len(t) : s[i + 1] = t[i]
      /\ s[1] = Head(s) /\ Head(s) \in D
    BY <1>1, HeadTailProperties
<1>3. PICK first \in Seq(D) : first = Turn(s, S, <<>>, 1)
    BY <1>2, EmptySeq, AppendProperties DEF Turn
<1>4. \A n \in 0 .. Len(t) : Chosen(s, S)[n + 1] = Joined(first, Chosen(t, S)[n])
    BY <1>2, <1>3, ChosenOfTail
<1>5. Select(s, S) = first \o Select(t, S)
    BY <1>2, <1>4 DEF Select, Joined
<1>6. Select(t, S) \in Seq(D)
    BY SelectType
<1>7. \A u \in Seq(D) : /\ <<Head(s)>> \o u # <<>>
                        /\ Head(<<Head(s)>> \o u) = Head(s)
                        /\ Tail(<<Head(s)>> \o u) = u
                        /\ <<>> \o u = u
    <2> SUFFICES ASSUME NEW u \in Seq(D)
                 PROVE  /\ <<Head(s)>> \o u # <<>>
                        /\ Head(<<Head(s)>> \o u) = Head(s)
                        /\ Tail(<<Head(s)>> \o u) = u
                        /\ <<>> \o u = u
        OBVIOUS
    <2>0. <<Head(s)>> \in Seq(D) /\ Len(<<Head(s)>>) = 1 /\ <<Head(s)>>[1] = Head(s)
        BY <1>2
    <2>1. PICK w \in Seq(D) : w = <<Head(s)>> \o u
        BY <2>0, ConcatProperties
    <2>2. Len(w) = Len(u) + 1 /\ w[1] = Head(s) /\ \A i \in 1 .. Len(u) : w[i + 1] = u[i]
        BY <2>0, <2>1, ConcatProperties
    <2>3. Tail(w) \in Seq(D) /\ Len(Tail(w)) = Len(u) /\ \A i \in 1 .. Len(u) : Tail(w)[i] = u[i]
        BY <2>2
    <2>4. Tail(w) = u
        BY <2>3, SeqEqual
    <2>5. w # <<>> /\ Head(w) = Head(s)
        BY <2>2
    <2> QED
        BY <2>1, <2>4, <2>5, ConcatEmptySeq
<1>8. first = IF Head(s) \in S THEN <<Head(s)>> ELSE <<>>
    BY <1>2, <1>3 DEF Turn
<1> QED
    BY <1>1, <1>5, <1>6, <1>7, <1>8

(* Choosing twice is choosing once, when the second choice is narrower. *)
LEMMA SelectTwice ==
    ASSUME NEW D, NEW s \in Seq(D), NEW S, NEW T \in SUBSET S
    PROVE  Select(Select(s, S), T) = Select(s, T)
<1> DEFINE P == {n \in Nat : n <= Len(s) => Select(Chosen(s, S)[n], T) = Chosen(s, T)[n]}
<1>1. 0 \in P
    <2>1. Chosen(s, S)[0] = <<>> /\ Chosen(s, T)[0] = <<>>
        BY ChosenDef
    <2> QED
        BY <2>1, SelectEmpty
<1>2. ASSUME NEW n \in P
      PROVE  n + 1 \in P
    <2> SUFFICES ASSUME n + 1 <= Len(s)
                 PROVE  Select(Chosen(s, S)[n + 1], T) = Chosen(s, T)[n + 1]
        OBVIOUS
    <2>0. n \in 0 .. Len(s) /\ Select(Chosen(s, S)[n], T) = Chosen(s, T)[n]
        OBVIOUS
    <2> HIDE DEF P
    <2>1. s[n + 1] \in D /\ Chosen(s, S)[n] \in Seq(D)
        BY <2>0, ChosenType
    <2>2. /\ Chosen(s, S)[n + 1] = Turn(s, S, Chosen(s, S)[n], n + 1)
          /\ Chosen(s, T)[n + 1] = Turn(s, T, Chosen(s, T)[n], n + 1)
        BY <2>0, ChosenDef
    <2>3. Select(Append(Chosen(s, S)[n], s[n + 1]), T) =
              IF s[n + 1] \in T THEN Append(Select(Chosen(s, S)[n], T), s[n + 1])
              ELSE Select(Chosen(s, S)[n], T)
        <3>1. PICK c \in Seq(D), e \in D : c = Chosen(s, S)[n] /\ e = s[n + 1]
            BY <2>1
        <3>2. Select(Append(c, e), T) = IF e \in T THEN Append(Select(c, T), e) ELSE Select(c, T)
            BY SelectAppend
        <3> QED
            BY <3>1, <3>2
    <2> QED
        BY <2>0, <2>2, <2>3 DEF Turn
<1>3. Nat \subseteq P
    <2> HIDE DEF P
    <2> QED
        BY <1>1, <1>2, Induction
<1> QED
    BY <1>3 DEF Select

-----------------------------------------------------------------------------
(* An object that was not opened since it was made received nothing. *)
NewForgets == \A o \in Objects : ret[o] = "new" => last[o] = None

LEMMA NewForgetsStep == CoreInv /\ NewForgets /\ [Next]_vars => NewForgets'
<1> SUFFICES ASSUME CoreInv, NewForgets, [Next]_vars
             PROVE  NewForgets'
    OBVIOUS
<1>0. TypeOK /\ TypeOK'
    BY CoreStep DEF CoreInv
<1>1. ASSUME NEW o \in Objects,
             \A p \in Objects \ {o} : last'[p] = last[p] /\ ret'[p] = ret[p],
             ret'[o] # "new" \/ last'[o] = None
      PROVE  NewForgets'
    BY <1>1 DEF NewForgets
<1>2. ASSUME NEW o \in Objects, NEW r \in Requests, Open(o, r)
      PROVE  NewForgets'
    BY <1>0, <1>1, <1>2 DEF Open, Goto, Return, TypeOK
<1>3. ASSUME NEW o \in Objects, NEW orig \in Objects, Copy(o, orig)
      PROVE  NewForgets'
    BY <1>0, <1>1, <1>3 DEF Copy, Goto, Return, TypeOK
<1>4. ASSUME NEW o \in Objects, Socket(o) \/ Fail(o) \/ CloseUdpSocket(o)
      PROVE  NewForgets'
    BY <1>0, <1>1, <1>4 DEF Socket, Fail, CloseUdpSocket, Throw, Goto, Return, TypeOK
<1>5. ASSUME NEW o \in Objects, Renews(o)
      PROVE  NewForgets'
    BY <1>0, <1>1, <1>5 DEF Renews, Destroy, Unwind, Renew, Return, TypeOK
<1>6. ASSUME NEW o \in Objects, QuietStep(o)
      PROVE  NewForgets'
    <2>1. TableTypeOK'
        BY <1>0 DEF TypeOK
    <2>2. UNCHANGED <<pc, ret>> \/ Moves(o, Calls, Results \ {"new"})
        BY <1>6, <2>1, ConfiguresType, ReceivesType DEF QuietStep, Moves, Calls, Results
    <2>3. UNCHANGED last \/ Receive(o)
        BY <1>6 DEF QuietStep, Configures, Receives, SetReuseAddr, Bind, ListInterfaces,
                    Join, SetMulticastAll, SetNonBlocking, CallReceive, Skip, NothingThere,
                    ReceiveError
    <2>4. Receive(o) =>
              ret'[o] # "new" /\ \A p \in Objects \ {o} : last'[p] = last[p] /\ ret'[p] = ret[p]
        BY <1>0 DEF Receive, Return, TypeOK
    <2> QED
        BY <1>1, <2>2, <2>3, <2>4 DEF Moves, NewForgets
<1>7. CASE RestOfProcess \/ Arrive \/ UNCHANGED vars
    BY <1>7 DEF RestOfProcess, Arrive, vars, NewForgets
<1> QED
    BY <1>2, <1>3, <1>4, <1>5, <1>6, <1>7
       DEF Next, Method, Renews, QuietStep, Configures, Receives

-----------------------------------------------------------------------------
(* The abstract filter of what an object is configured for, and the        *)
(* datagrams it lets pass.                                                 *)
Configs     == [source : Addresses, port : PortArgs, group : Groups]
Filter(cfg) == [source |-> cfg.source, port |-> cfg.port]
Fit(cfg)    == {d \in Datagrams : Wanted(cfg, d)}

LEMMA SelectIsOne ==
    ASSUME NEW s, NEW S
    PROVE  Promise!Select(s, S) = Select(s, S)
BY DEF Promise!Select, Promise!Chosen, Select, Chosen

LEMMA PortsAreNumbers == PortArgs \subseteq Nat \cup {-1}
BY ReceiverAssumption DEF PortArgs

(* The two nested tests of receive() are the test of the promise. *)
LEMMA PassingIsFit ==
    ASSUME NEW cfg \in Configs
    PROVE  Promise!Passing(Filter(cfg)) = Fit(cfg)
<1>1. cfg.port \in Nat \cup {-1}
    BY PortsAreNumbers DEF Configs
<1>2. ASSUME NEW d \in Datagrams
      PROVE  Promise!Passes(Filter(cfg), d) <=> Wanted(cfg, d)
    BY <1>1, ReceiverAssumption DEF Filter, Wanted, Promise!Passes
<1> QED
    BY <1>2 DEF Promise!Passing, Fit

LEMMA ClosedWaits ==
    ASSUME NEW o \in Objects, ~isOpen(o)
    PROVE  Waiting(o) = <<>>
BY DEF Waiting

LEMMA HeldWaits ==
    ASSUME TypeOK, ~staleKept, NEW o \in Objects, isOpen(o)
    PROVE  fd[o] \in Fds /\ Waiting(o) = Select(inbox[fd[o]], Fit(config[o]))
<1>1. fd[o] \in Fds
    BY DEF TypeOK, TableTypeOK, isOpen, NoFd
<1> QED
    BY <1>1 DEF Waiting, Fit

(* To the promise nothing happened to o. *)
Calm(o) == config'[o] = config[o] /\ last'[o] = last[o] /\ Waiting(o)' = Waiting(o)

LEMMA SameSocketWaits ==
    ASSUME ~staleKept, ~staleKept', NEW o \in Objects,
           fd'[o] = fd[o], config'[o] = config[o],
           isOpen(o) => inbox'[fd[o]] = inbox[fd[o]]
    PROVE  Waiting(o)' = Waiting(o)
BY DEF Waiting, isOpen

LEMMA KernelFollowsWaits ==
    ASSUME TypeOK', HonestHandles', ~staleKept, ~staleKept', KernelFollows,
           NEW o \in Objects, fd'[o] = fd[o], config'[o] = config[o]
    PROVE  Waiting(o)' = Waiting(o)
<1>1. isOpen(o) => inbox'[fd[o]] = inbox[fd[o]]
    BY HeldSocketKept DEF isOpen
<1> QED
    BY <1>1, SameSocketWaits

-----------------------------------------------------------------------------
(* The steps of the promise, from what happens to each object. *)
LEMMA StutterStep ==
    ASSUME TypeOK, TypeOK', ~staleKept, ~staleKept', \A p \in Objects : Calm(p)
    PROVE  UNCHANGED Promise!subscriptionVars
<1>1. last' = last
    BY DEF Calm, TypeOK
<1> QED
    BY <1>1 DEF Calm, Promise!subscriptionVars, TypeOK, TableTypeOK

LEMMA SubscribeStep ==
    ASSUME TypeOK, TypeOK', NEW o \in Objects, \A p \in Objects \ {o} : Calm(p),
           Waiting(o)' = <<>>, last'[o] = None
    PROVE  Promise!Subscribe(o)
<1>1. Filter(config'[o]) \in [source : Addresses, port : PortArgs]
    BY DEF TypeOK, Filter
<1>2. last' = [last EXCEPT ![o] = None]
    BY DEF Calm, TypeOK
<1>3. [p \in Objects |-> Filter(config'[p])] =
          [[p \in Objects |-> Filter(config[p])] EXCEPT ![o] = Filter(config'[o])]
    BY DEF Calm
<1>4. [p \in Objects |-> Waiting(p)'] = [[p \in Objects |-> Waiting(p)] EXCEPT ![o] = <<>>]
    BY DEF Calm
<1> QED
    BY <1>1, <1>2, <1>3, <1>4 DEF Filter, Promise!Subscribe

LEMMA LeaveStep ==
    ASSUME TypeOK, TypeOK', NEW o \in Objects, \A p \in Objects \ {o} : Calm(p),
           Waiting(o)' = <<>>, config'[o] = config[o], last'[o] = last[o]
    PROVE  Promise!Leave(o)
<1>1. last' = last
    BY DEF Calm, TypeOK
<1> QED
    BY <1>1 DEF Calm, Promise!Leave

LEMMA TakeStep ==
    ASSUME TypeOK, TypeOK', NEW o \in Objects, \A p \in Objects \ {o} : Calm(p),
           Waiting(o) # <<>>, last'[o] = Head(Waiting(o)),
           config'[o] = [config[o] EXCEPT !.port =
                             IF @ = -1 THEN Head(Waiting(o)).port ELSE @],
           Waiting(o)' = Select(Tail(Waiting(o)), Fit(config'[o]))
    PROVE  Promise!Take(o)
<1>1. last' = [last EXCEPT ![o] = Head(Waiting(o))]
    BY DEF Calm, TypeOK
<1>2. Filter(config'[o]) =
          [Filter(config[o]) EXCEPT !.port = IF @ = -1 THEN Head(Waiting(o)).port ELSE @]
    BY DEF Filter, TypeOK
<1>3. [p \in Objects |-> Filter(config'[p])] =
          [[p \in Objects |-> Filter(config[p])] EXCEPT ![o] = Filter(config'[o])]
    BY DEF Calm
<1>4. Waiting(o)' = Promise!Select(Tail(Waiting(o)), Promise!Passing(Filter(config'[o])))
    BY PassingIsFit, SelectIsOne DEF TypeOK, Configs
<1>5. [p \in Objects |-> Waiting(p)'] =
          [[p \in Objects |-> Waiting(p)] EXCEPT ![o] = Waiting(o)']
    BY DEF Calm
<1> QED
    BY <1>1, <1>2, <1>3, <1>4, <1>5 DEF Filter, Promise!Take

(* What an arrival of d does to the queue of an object: it is appended,    *)
(* and then it passes the filter, or nothing changes.                      *)
LEMMA ArriveStep ==
    ASSUME TypeOK, TypeOK', ~staleKept, ~staleKept', Arrive
    PROVE  Promise!Arrive
<1>1. PICK d \in Datagrams, i \in Ifaces : Deliver(d, i)
    BY DEF Arrive
<1> DEFINE got(f) == Accepts(f, d, i) /\ Len(inbox[f]) < MaxInbox
           S == {o \in Objects : isOpen(o) /\ got(fd[o]) /\ Wanted(config[o], d)}
<1>2. UNCHANGED <<fd, config, last>>
    BY DEF Arrive, tableVars
<1>3. \A o \in S : Promise!Passes(Filter(config[o]), d)
    <2> SUFFICES ASSUME NEW o \in Objects, Wanted(config[o], d)
                 PROVE  d \in Promise!Passing(Filter(config[o]))
        BY DEF Promise!Passing
    <2> QED
        BY PassingIsFit DEF Fit, TypeOK, Configs
<1>4. ASSUME NEW o \in Objects
      PROVE  Waiting(o)' = IF o \in S THEN Append(Waiting(o), d) ELSE Waiting(o)
    <2>1. CASE ~isOpen(o)
        BY <1>2, <2>1 DEF Waiting, isOpen
    <2>2. CASE isOpen(o)
        <3>1. /\ fd[o] \in Fds /\ fd'[o] = fd[o]
              /\ Waiting(o) = Select(inbox[fd[o]], Fit(config[o]))
            BY <1>2, <2>2, HeldWaits
        <3>2. Waiting(o)' = Select(inbox'[fd[o]], Fit(config[o]))
            BY <1>2, <2>2, <3>1 DEF Waiting, Fit, isOpen
        <3>3. inbox'[fd[o]] = IF got(fd[o]) THEN Append(inbox[fd[o]], d) ELSE inbox[fd[o]]
            BY <1>1, <3>1 DEF Deliver
        <3>4. PICK q \in Seq(Datagrams) : q = inbox[fd[o]]
            BY <3>1 DEF TypeOK
        <3>5. Select(Append(q, d), Fit(config[o])) =
                  IF d \in Fit(config[o]) THEN Append(Select(q, Fit(config[o])), d)
                                           ELSE Select(q, Fit(config[o]))
            BY SelectAppend
        <3>6. d \in Fit(config[o]) <=> Wanted(config[o], d)
            BY DEF Fit
        <3>7. o \in S <=> got(fd[o]) /\ Wanted(config[o], d)
            BY <2>2
        <3> HIDE DEF got, S
        <3> QED
            BY <3>1, <3>2, <3>3, <3>4, <3>5, <3>6, <3>7
    <2> QED
        BY <2>1, <2>2
<1>5. S \in SUBSET Objects
    OBVIOUS
<1> HIDE DEF S
<1> QED
    BY <1>2, <1>3, <1>4, <1>5 DEF Filter, Promise!Arrive

(* receive() takes the head of its queue, which passes the filter and so   *)
(* is the head of the abstract one.  When it fixes the port, what waits is *)
(* filtered once more.                                                     *)
LEMMA ReceiveTakes ==
    ASSUME TypeOK, TypeOK', ~staleKept, ~staleKept', NEW o \in Objects, Receive(o)
    PROVE  /\ Waiting(o) # <<>>
           /\ last'[o] = Head(Waiting(o))
           /\ config'[o] = [config[o] EXCEPT !.port =
                                IF @ = -1 THEN Head(Waiting(o)).port ELSE @]
           /\ Waiting(o)' = Select(Tail(Waiting(o)), Fit(config'[o]))
<1>1. fd[o] \in Fds /\ isOpen(o) /\ inbox[fd[o]] # <<>>
    BY DEF Receive, HasDatagram, IsLive, isOpen, Fds
<1>2. PICK q \in Seq(Datagrams) : q = inbox[fd[o]] /\ q # <<>>
    BY <1>1 DEF TypeOK
<1> DEFINE d == Head(q)
           Old == Fit(config[o])
           New == Fit(config'[o])
<1>3. /\ d \in Old
      /\ last'[o] = d
      /\ config'[o] = [config[o] EXCEPT !.port = IF @ = -1 THEN d.port ELSE @]
      /\ inbox'[fd[o]] = Tail(q)
      /\ fd'[o] = fd[o]
    <2>1. d \in Datagrams
        BY <1>2, HeadTailProperties
    <2> QED
        BY <1>1, <1>2, <2>1 DEF Receive, TakeFrom, Fit, TypeOK, tableVars
<1>4. New \subseteq Old
    BY <1>3, PortsAreNumbers DEF Fit, Wanted, TypeOK
<1>5. PICK w : w = Waiting(o) /\ w = Select(q, Old)
    BY <1>1, <1>2, HeldWaits
<1>6. w # <<>> /\ Head(w) = d /\ Tail(w) = Select(Tail(q), Old)
    BY <1>2, <1>3, <1>5, SelectTail
<1>7. Waiting(o)' = Select(Tail(q), New)
    BY <1>1, <1>3 DEF Waiting, Fit, isOpen
<1>8. Select(Select(Tail(q), Old), New) = Select(Tail(q), New)
    <2>1. PICK r \in Seq(Datagrams) : r = Tail(q)
        BY <1>2, HeadTailProperties
    <2> HIDE DEF Old, New
    <2>2. Select(Select(r, Old), New) = Select(r, New)
        BY <1>4, SelectTwice
    <2> QED
        BY <2>1, <2>2
<1> QED
    BY <1>3, <1>5, <1>6, <1>7, <1>8

(* Skipping what is not wanted is nothing to the promise. *)
LEMMA SkipWaits ==
    ASSUME TypeOK, ~staleKept, ~staleKept', NEW o \in Objects, Skip(o)
    PROVE  Waiting(o)' = Waiting(o)
<1>1. fd[o] \in Fds /\ isOpen(o) /\ inbox[fd[o]] # <<>>
    BY DEF Skip, HasDatagram, IsLive, isOpen, Fds
<1>2. PICK q \in Seq(Datagrams) : q = inbox[fd[o]] /\ q # <<>>
    BY <1>1 DEF TypeOK
<1>3. /\ Head(q) \notin Fit(config[o])
      /\ inbox'[fd[o]] = Tail(q)
      /\ UNCHANGED <<fd, config>>
    BY <1>1, <1>2 DEF Skip, TakeFrom, Fit, TypeOK, tableVars
<1>4. Select(q, Fit(config[o])) = Select(Tail(q), Fit(config[o]))
    BY <1>2, <1>3, SelectTail
<1>5. Waiting(o) = Select(q, Fit(config[o]))
    BY <1>1, <1>2, HeldWaits
<1>6. Waiting(o)' = Select(Tail(q), Fit(config[o]))
    BY <1>1, <1>3 DEF Waiting, Fit, isOpen
<1> QED
    BY <1>4, <1>5, <1>6

-----------------------------------------------------------------------------
(* Two objects that hold a number hold different ones. *)
LEMMA HeldDiffer ==
    ASSUME HonestHandles, ~staleKept, NEW o \in Objects, NEW p \in Objects \ {o},
           isOpen(o), isOpen(p)
    PROVE  fd[o] # fd[p]
BY DEF HonestHandles

(* A method that may close, or get a number, is nothing to other objects.  *)
LEMMA OthersCalm ==
    ASSUME CoreInv, CoreInv', HonestHandles', ~staleKept, ~staleKept',
           NEW o \in Objects,
           \/ \E r \in Requests : Open(o, r)
           \/ \E orig \in Objects : Copy(o, orig)
           \/ Socket(o) \/ Fail(o) \/ CloseUdpSocket(o) \/ Renews(o)
    PROVE  \A p \in Objects \ {o} : Calm(p)
<1> SUFFICES ASSUME NEW p \in Objects \ {o}
             PROVE  Calm(p)
    OBVIOUS
<1>1. config'[p] = config[p] /\ last'[p] = last[p]
    BY DEF Open, Copy, Socket, Fail, CloseUdpSocket, Renews, Destroy, Unwind, Renew,
           CoreInv, TypeOK
<1>2. fd'[p] = fd[p]
    BY OthersKeep DEF Open, Copy, Socket, Fail, CloseUdpSocket, Renews, Destroy, Unwind,
                      Renew, CoreInv
<1>3. KernelFollows \/ UNCHANGED inbox
    BY DEF Open, Copy, Socket, Fail, CloseUdpSocket, Renews, Destroy, Unwind, Renew, kernelVars
<1>4. Waiting(p)' = Waiting(p)
    BY <1>1, <1>2, <1>3, KernelFollowsWaits, SameSocketWaits DEF CoreInv
<1> QED
    BY <1>1, <1>4 DEF Calm

(* Every step is a step of the promise, or nothing to it. *)
LEMMA PromiseStep ==
    /\ CoreInv /\ CoreInv' /\ HonestHandles /\ HonestHandles'
    /\ FreeIsEmpty /\ NewForgets
    /\ [Next]_vars
    => [Promise!Next]_(Promise!subscriptionVars)
<1> SUFFICES ASSUME CoreInv, CoreInv', HonestHandles, HonestHandles', FreeIsEmpty,
                    NewForgets, [Next]_vars, ~staleKept'
             PROVE  [Promise!Next]_(Promise!subscriptionVars)
    BY DEF Promise!Next
<1>a. TypeOK /\ TypeOK' /\ ~staleKept
    BY StaleStays DEF CoreInv
<1>b. UNCHANGED staleKept
    BY <1>a DEF CoreInv, TypeOK, TableTypeOK
<1> DEFINE Good == [Promise!Next]_(Promise!subscriptionVars)
<1>c. (\A p \in Objects : Calm(p)) => Good
    BY <1>a, StutterStep
<1>d. ASSUME NEW o \in Objects,
             Promise!Subscribe(o) \/ Promise!Leave(o) \/ Promise!Take(o)
      PROVE  Good
    BY <1>b, <1>d DEF Promise!Next
<1>1. ASSUME NEW o \in Objects, NEW r \in Requests, Open(o, r)
      PROVE  Good
    <2>1. ~isOpen(o)'
        BY <1>1, <1>a, CloseCloses DEF Open, isOpen, tableVars
    <2>2. last'[o] = None
        BY <1>1, <1>a DEF Open, TypeOK
    <2>3. Waiting(o)' = <<>>
        BY <2>1 DEF Waiting
    <2> QED
        BY <1>1, <1>a, <1>d, <2>2, <2>3, OthersCalm, SubscribeStep
<1>2. ASSUME NEW o \in Objects, NEW orig \in Objects, Copy(o, orig)
      PROVE  Good
    <2>1. ~isOpen(o)' /\ last'[o] = None
        BY <1>2 DEF Copy, CoreInv, NewIsClosed, NewForgets, isOpen, tableVars
    <2>2. Waiting(o)' = <<>>
        BY <2>1 DEF Waiting
    <2> QED
        BY <1>2, <1>a, <1>d, <2>1, <2>2, OthersCalm, SubscribeStep
<1>3. ASSUME NEW o \in Objects, Socket(o)
      PROVE  Good
    <2>1. UNCHANGED <<config, last>>
        BY <1>3 DEF Socket
    <2>2. Waiting(o) = <<>>
        BY <1>3, ClosedWaits DEF Socket, CoreInv, SocketNeedsNoNumber
    <2>3. Waiting(o)' = <<>>
        <3>1. CASE SocketOk(o)
            <4>1. fd'[o] \in Fds /\ files[fd'[o]] = Free
                BY <1>a, <3>1 DEF SocketOk, LowestFree, FreeFds, TypeOK, TableTypeOK
            <4>2. inbox'[fd'[o]] = <<>>
                BY <1>3, <4>1 DEF Socket, KernelFollows, PortsFollow, FreeIsEmpty
            <4> QED
                BY <4>2, SelectEmpty DEF Waiting
        <3>2. CASE SocketFails(o)
            BY <1>a, <3>2 DEF SocketFails, Waiting, isOpen, NoFd, TypeOK, TableTypeOK
        <3> QED
            BY <1>3, <3>1, <3>2 DEF Socket
    <2> QED
        BY <1>3, <1>a, <1>c, <2>1, <2>2, <2>3, OthersCalm DEF Calm
<1>4. ASSUME NEW o \in Objects, Fail(o) \/ CloseUdpSocket(o)
      PROVE  Good
    <2>1. ~isOpen(o)'
        BY <1>4, <1>a, CloseCloses DEF Fail, CloseUdpSocket
    <2>2. Waiting(o)' = <<>>
        BY <2>1 DEF Waiting
    <2>3. UNCHANGED <<config, last>>
        BY <1>4 DEF Fail, CloseUdpSocket
    <2> QED
        BY <1>4, <1>a, <1>d, <2>2, <2>3, OthersCalm, LeaveStep
<1>5. ASSUME NEW o \in Objects, Renews(o)
      PROVE  Good
    <2>1. Renew(o)
        BY <1>5 DEF Renews, Destroy, Unwind
    <2>2. ~isOpen(o)' /\ last'[o] = None
        BY <2>1, <1>a
           DEF Renew, Destructor, isOpen, NoFd, tableVars, TypeOK, TableTypeOK
    <2>3. Waiting(o)' = <<>>
        BY <2>2 DEF Waiting
    <2> QED
        BY <1>5, <1>a, <1>d, <2>2, <2>3, OthersCalm, SubscribeStep
<1>6. ASSUME NEW o \in Objects,
             \/ Configures(o) \/ SetNonBlocking(o) \/ CallReceive(o)
             \/ NothingThere(o) \/ ReceiveError(o)
      PROVE  Good
    <2>1. UNCHANGED <<fd, config, inbox, last>>
        BY <1>6 DEF Configures, SetReuseAddr, Bind, ListInterfaces, Join, SetMulticastAll,
                    SetNonBlocking, CallReceive, NothingThere, ReceiveError, kernelVars,
                    tableVars
    <2> QED
        BY <1>a, <1>c, <2>1, SameSocketWaits DEF Calm
<1>7. ASSUME NEW o \in Objects, Receive(o) \/ Skip(o), NEW p \in Objects \ {o}
      PROVE  Calm(p)
    <2>1. /\ fd'[p] = fd[p] /\ config'[p] = config[p] /\ last'[p] = last[p]
          /\ isOpen(o) /\ \A f \in Fds \ {fd[o]} : inbox'[f] = inbox[f]
        BY <1>7, <1>a DEF Receive, Skip, HasDatagram, IsLive, isOpen, Fds, TakeFrom,
                          TypeOK, tableVars
    <2>2. isOpen(p) => fd[p] \in Fds /\ fd[p] # fd[o]
        BY <1>a, <2>1, HeldDiffer, HeldWaits
    <2> QED
        BY <1>a, <2>1, <2>2, SameSocketWaits DEF Calm
<1>8. ASSUME NEW o \in Objects, Receive(o)
      PROVE  Good
    BY <1>8, <1>7, <1>a, <1>d, ReceiveTakes, TakeStep
<1>9. ASSUME NEW o \in Objects, Skip(o)
      PROVE  Good
    <2>1. Calm(o)
        BY <1>9, <1>a, SkipWaits DEF Skip, Calm
    <2> QED
        BY <1>9, <1>7, <1>c, <2>1
<1>10. CASE Arrive
    BY <1>10, <1>a, <1>b, ArriveStep DEF Promise!Next
<1>11. CASE RestOfProcess
    <2>1. UNCHANGED <<fd, config, last>> /\ KernelFollows
        BY <1>11 DEF RestOfProcess, ForeignOpen, ForeignClose
    <2> QED
        BY <1>a, <1>c, <2>1, KernelFollowsWaits DEF Calm
<1>12. CASE UNCHANGED vars
    <2>1. UNCHANGED <<fd, config, inbox, last>>
        BY <1>12 DEF vars, kernelVars, tableVars
    <2> QED
        BY <1>a, <1>c, <2>1, SameSocketWaits DEF Calm
<1> QED
    BY <1>1, <1>2, <1>3, <1>4, <1>5, <1>6, <1>8, <1>9, <1>10, <1>11, <1>12
       DEF Next, Method, Renews, Configures

(* open() and receive() implement the queue of Subscription: every         *)
(* datagram that passes the filter is returned once and in order, the      *)
(* port that is fixed on the way included, for any number of receivers     *)
(* and any traffic, until a close error is met.                            *)
THEOREM KeepsPromise == Spec => Subscribes
<1>1. Init => Promise!Init
    BY DEF Init, TableInit, Promise!Init, Waiting, isOpen, NoFd, Fresh
<1>2. Init => NewForgets
    BY DEF Init, NewForgets
<1>3. Spec => []NewForgets
    BY <1>2, NewForgetsStep, CoreCorrect, PTL DEF Spec
<1> QED
    BY <1>1, <1>3, PromiseStep, CoreCorrect, HandlesHonest, FreeNumbersEmpty, PTL
       DEF Spec, Subscribes, Promise!Spec
=============================================================================

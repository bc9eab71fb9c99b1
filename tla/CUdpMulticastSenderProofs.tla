----------------------- MODULE CUdpMulticastSenderProofs -----------------------
(***************************************************************************)
(* CUdpMulticastSender keeps the contract of DescriptorTable, its open()   *)
(* does all or nothing, and what it sends goes where open() asked.  For    *)
(* every number of senders, descriptors and requests.                      *)
(***************************************************************************)
EXTENDS CUdpMulticastSender, DescriptorTableProofs

(* Whoever is about to call socket() holds no number. *)
SocketNeedsNoNumber == \A o \in Objects : pc[o] = "socket" => ~isOpen(o)

(* The calls that follow socket() in open() have arguments to use: an      *)
(* openUdpSocket() without a request ends before them.                     *)
RequestKnown == \A o \in Objects : pc[o] \in {"bind", "multicastIf"} => asked[o] # None

(* What is shown inductive first. *)
CoreInv == TypeOK /\ SocketNeedsNoNumber /\ RequestKnown

-----------------------------------------------------------------------------
LEMMA KernelFollowsType ==
    ASSUME TypeOK, KernelFollows
    PROVE  /\ local' \in [Fds -> Ifaces \cup {Default}]
           /\ outIf' \in [Fds -> Ifaces \cup {Default}]
BY DEF TypeOK, KernelFollows

LEMMA ReturnType ==
    ASSUME TypeOK, NEW o \in Objects, NEW r \in Results, Return(o, r)
    PROVE  /\ pc' \in [Objects -> Calls]
           /\ ret' \in [Objects -> Results]
           /\ pc'[o] = "idle"
           /\ ret'[o] = r
           /\ \A p \in Objects \ {o} : pc'[p] = pc[p] /\ ret'[p] = ret[p]
BY DEF TypeOK, Return, Calls, Results

LEMMA GotoType ==
    ASSUME TypeOK, NEW o \in Objects, NEW c \in Calls, Goto(o, c)
    PROVE  /\ pc' \in [Objects -> Calls]
           /\ ret' \in [Objects -> Results]
           /\ pc'[o] = c
           /\ ret'[o] = "running"
           /\ \A p \in Objects \ {o} : pc'[p] = pc[p] /\ ret'[p] = ret[p]
BY DEF TypeOK, Goto, Calls, Results

(* A request asks for a group and an interface. *)
LEMMA RequestType ==
    ASSUME NEW r \in Requests
    PROVE  r.group \in Groups /\ r.iface \in Ifaces
BY DEF Groups, Ifaces

-----------------------------------------------------------------------------
(* The steps between two system calls that concern the table. *)
QuietStep(o) == Bind(o) \/ SetMulticastIf(o) \/ CallSend(o) \/ Send(o) \/ Interrupted(o)

(* What every step does to the table: a step of the contract, or nothing. *)
LEMMA TableStep ==
    CoreInv /\ [Next]_vars => [TableNext]_tableVars
<1> SUFFICES ASSUME CoreInv, [Next]_vars
             PROVE  [TableNext]_tableVars
    OBVIOUS
<1>1. ASSUME NEW o \in Objects, NEW r, Begin(o, r)
      PROVE  [TableNext]_tableVars
    BY <1>1 DEF Begin, TableNext
<1>2. ASSUME NEW o \in Objects, Socket(o)
      PROVE  [TableNext]_tableVars
    BY <1>2 DEF CoreInv, SocketNeedsNoNumber, Socket, Acquire, TableNext
<1>3. ASSUME NEW o \in Objects, Fail(o) \/ CloseUdpSocket(o)
      PROVE  [TableNext]_tableVars
    BY <1>3 DEF Fail, CloseUdpSocket, TableNext
<1>4. ASSUME NEW o \in Objects, Destroy(o)
      PROVE  [TableNext]_tableVars
    BY <1>4 DEF Destroy, TableNext
<1>5. ASSUME NEW o \in Objects, QuietStep(o)
      PROVE  UNCHANGED tableVars
    BY <1>5 DEF QuietStep, Bind, SetMulticastIf, CallSend, Send, Interrupted, tableVars
<1>6. CASE RestOfProcess
    BY <1>6 DEF RestOfProcess, TableNext
<1>7. CASE UNCHANGED vars
    BY <1>7 DEF vars, tableVars
<1> QED
    BY <1>1, <1>2, <1>3, <1>4, <1>5, <1>6, <1>7
       DEF Next, Method, Open, OpenUdpSocket, QuietStep

(* A method that changes what object o holds leaves the other objects as   *)
(* they are.                                                               *)
LEMMA OthersKeep ==
    ASSUME TypeOK, NEW o \in Objects,
           \/ CloseOk(o) \/ CloseThrows(o) \/ SocketOk(o) \/ SocketFails(o)
           \/ Destructor(o) \/ UNCHANGED tableVars
    PROVE  \A p \in Objects \ {o} : fd'[p] = fd[p]
BY DEF TypeOK, TableTypeOK, CloseOk, CloseThrows, SocketOk, SocketFails, Destructor,
       tableVars

-----------------------------------------------------------------------------
LEMMA CoreInit == Init => CoreInv
<1> SUFFICES ASSUME Init PROVE CoreInv
    OBVIOUS
<1>1. TableTypeOK
    BY TableAssumption DEF Init, TableInit, TableTypeOK
<1>2. TypeOK
    BY <1>1 DEF Init, TypeOK, Calls, Results
<1> QED
    BY <1>2 DEF Init, CoreInv, SocketNeedsNoNumber, RequestKnown

(* Each method keeps the types, reaches socket() without a number and      *)
(* bind() with a request.                                                  *)
LEMMA CoreStep == CoreInv /\ [Next]_vars => CoreInv'
<1> SUFFICES ASSUME CoreInv, [Next]_vars
             PROVE  CoreInv'
    OBVIOUS
<1> USE DEF CoreInv
<1>a. TableTypeOK'
    BY TableStep, TableTypeStep DEF TypeOK
<1>1. ASSUME NEW o \in Objects, NEW r \in Requests \cup {None}, Begin(o, r)
      PROVE  CoreInv'
    <2>1. TypeOK'
        BY <1>1, <1>a, KernelFollowsType, ReturnType, GotoType
           DEF Begin, Quiet, TypeOK, Calls, Results
    <2>2. pc'[o] = "idle" \/ (pc'[o] = "socket" /\ ~isOpen(o)')
        <3>1. CASE isOpen(o) /\ CloseOk(o) /\ Goto(o, "socket")
            BY <3>1, GotoType DEF CloseOk, isOpen, NoFd, TypeOK, TableTypeOK, Calls
        <3>2. CASE isOpen(o) /\ CloseThrows(o) /\ Return(o, "openThrew")
            BY <3>2, ReturnType DEF Results
        <3>3. CASE ~isOpen(o) /\ UNCHANGED tableVars /\ Goto(o, "socket")
            BY <3>3, GotoType DEF isOpen, tableVars, Calls
        <3> QED
            BY <1>1, <3>1, <3>2, <3>3 DEF Begin
    <2>3. \A p \in Objects \ {o} : fd'[p] = fd[p] /\ pc'[p] = pc[p] /\ asked'[p] = asked[p]
        BY <1>1, OthersKeep, ReturnType, GotoType DEF Begin, TypeOK, Calls, Results
    <2> QED
        BY <2>1, <2>2, <2>3 DEF SocketNeedsNoNumber, RequestKnown, isOpen
<1>2. ASSUME NEW o \in Objects, Socket(o)
      PROVE  CoreInv'
    <2>1. TypeOK'
        BY <1>2, <1>a, KernelFollowsType, ReturnType, GotoType
           DEF Socket, Quiet, TypeOK, Calls, Results
    <2>2. pc'[o] = "idle" \/ (pc'[o] = "bind" /\ asked[o] # None)
        BY <1>2, ReturnType, GotoType DEF Socket, Calls, Results
    <2>3. \A p \in Objects \ {o} : fd'[p] = fd[p] /\ pc'[p] = pc[p]
        BY <1>2, OthersKeep, ReturnType, GotoType DEF Socket, Calls, Results
    <2> QED
        BY <1>2, <2>1, <2>2, <2>3 DEF Socket, SocketNeedsNoNumber, RequestKnown, isOpen
<1>3. ASSUME NEW o \in Objects, Fail(o) \/ CloseUdpSocket(o)
      PROVE  CoreInv'
    <2>1. PICK r \in Results : Return(o, r)
        BY <1>3 DEF Fail, CloseUdpSocket, Results
    <2>2. TypeOK'
        BY <1>3, <2>1, <1>a, KernelFollowsType, ReturnType
           DEF Fail, CloseUdpSocket, Quiet, TypeOK
    <2>3. \A p \in Objects \ {o} : fd'[p] = fd[p]
        BY <1>3, OthersKeep DEF Fail, CloseUdpSocket
    <2> QED
        BY <1>3, <2>1, <2>2, <2>3, ReturnType
           DEF Fail, CloseUdpSocket, SocketNeedsNoNumber, RequestKnown, isOpen
<1>4. ASSUME NEW o \in Objects, Destroy(o)
      PROVE  CoreInv'
    <2>1. TypeOK'
        BY <1>4, <1>a, KernelFollowsType DEF Destroy, Renew, Quiet, TypeOK, Results
    <2>2. \A p \in Objects \ {o} : fd'[p] = fd[p] /\ asked'[p] = asked[p]
        BY <1>4, OthersKeep DEF Destroy, Renew, TypeOK
    <2> QED
        BY <1>4, <2>1, <2>2 DEF Destroy, SocketNeedsNoNumber, RequestKnown, isOpen
<1>5. ASSUME NEW o \in Objects, QuietStep(o)
      PROVE  CoreInv'
    <2>1. UNCHANGED <<tableVars, asked>>
        BY <1>5 DEF QuietStep, Bind, SetMulticastIf, CallSend, Send, Interrupted
    <2>2. CASE Bind(o)
        <3>1. asked[o].group \in Groups /\ asked[o].iface \in Ifaces
            BY <2>2, RequestType DEF Bind, RequestKnown, TypeOK
        <3>2. TypeOK'
            BY <2>2, <3>1, <1>a, GotoType DEF Bind, Quiet, TypeOK, Calls
        <3> QED
            BY <2>1, <2>2, <3>2, GotoType
               DEF Bind, SocketNeedsNoNumber, RequestKnown, isOpen, tableVars, Calls
    <2>3. CASE SetMulticastIf(o)
        <3>1. asked[o].iface \in Ifaces
            BY <2>3, RequestType DEF SetMulticastIf, RequestKnown, TypeOK
        <3>2. TypeOK'
            BY <2>3, <3>1, <1>a, GotoType, ReturnType
               DEF SetMulticastIf, Quiet, TypeOK, Calls, Results
        <3> QED
            BY <2>1, <2>3, <3>2, GotoType, ReturnType
               DEF SetMulticastIf, SocketNeedsNoNumber, RequestKnown, isOpen, tableVars,
                   Calls, Results
    <2>4. CASE CallSend(o) \/ Interrupted(o)
        <3>1. TypeOK'
            BY <2>4, <1>a, GotoType
               DEF CallSend, Interrupted, Quiet, kernelVars, TypeOK, Calls
        <3> QED
            BY <2>1, <2>4, <3>1, GotoType
               DEF CallSend, Interrupted, SocketNeedsNoNumber, RequestKnown, isOpen,
                   tableVars, Calls
    <2>5. CASE Send(o)
        <3>1. PICK r \in Results : Return(o, r)
            BY <2>5 DEF Send, Results
        <3>2. wire' = None \/ wire' \in [asked  : Requests \cup {None},
                                         group  : Groups \cup {Unset},
                                         iface  : Ifaces \cup {Default},
                                         source : Ifaces \cup {Default}]
            BY <2>5 DEF Send, Quiet, IsLive, TypeOK
        <3>3. TypeOK'
            BY <2>5, <3>1, <3>2, <1>a, ReturnType DEF Send, kernelVars, TypeOK
        <3> QED
            BY <2>1, <3>1, <3>3, ReturnType
               DEF SocketNeedsNoNumber, RequestKnown, isOpen, tableVars
    <2> QED
        BY <1>5, <2>2, <2>3, <2>4, <2>5 DEF QuietStep
<1>6. CASE RestOfProcess
    BY <1>6, <1>a, KernelFollowsType
       DEF RestOfProcess, ForeignOpen, ForeignClose, Quiet, TypeOK, SocketNeedsNoNumber,
           RequestKnown, isOpen
<1>7. CASE UNCHANGED vars
    BY <1>7 DEF vars, tableVars, kernelVars, TypeOK, TableTypeOK, SocketNeedsNoNumber,
                RequestKnown, isOpen
<1> QED
    BY <1>1, <1>2, <1>3, <1>4, <1>5, <1>6, <1>7
       DEF Next, Method, Open, OpenUdpSocket, QuietStep

THEOREM CoreCorrect == Spec => []CoreInv
BY CoreInit, CoreStep, PTL DEF Spec

(* Type correctness of CUdpMulticastSender. *)
THEOREM TypeCorrect == Spec => []TypeOK
<1>1. CoreInv => TypeOK
    BY DEF CoreInv
<1> QED
    BY <1>1, CoreCorrect, PTL

(* The sender keeps the ownership contract through every failure of open(), *)
(* and when openUdpSocket() is called over its head.                        *)
THEOREM KeepsContract == Spec => TableSpec
<1>1. Init => TableInit
    BY DEF Init
<1> QED
    BY <1>1, TableStep, CoreCorrect, PTL DEF Spec, TableSpec

(* Hence no failure of open() or of the clean-up leaks a descriptor, *)
THEOREM NeverLeaks == Spec => []NoLeak
BY KeepsContract, TableNeverLeaks

(* isOpen() is truthful until closeUdpSocket() throws on a released number, *)
THEOREM HandlesHonest == Spec => []HonestHandles
BY KeepsContract, TableHandlesHonest

(* and a sender closes no descriptor but its own. *)
THEOREM ClosesOwn == Spec => NoStrangerClose
BY KeepsContract, TableNoStrangerClose

-----------------------------------------------------------------------------
(* What the object and its socket have to agree on, at each point of       *)
(* open() and after it.  The three are set by different system calls, live *)
(* in different places, and only the last clause is what a user sees.      *)
Addressed(o) == dest[o] = asked[o].group /\ local[fd[o]] = asked[o].iface

Agrees(o) ==
    /\ pc[o] = "multicastIf" /\ isOpen(o) => Addressed(o)
    /\ pc[o] \in {"idle", "send"} /\ isOpen(o) /\ asked[o] # None =>
           Addressed(o) /\ outIf[fd[o]] = asked[o].iface
    /\ ret[o] = "openThrew" => ~isOpen(o)
    /\ ret[o] = "opened" => isOpen(o) /\ pc[o] = "idle" /\ asked[o] # None

Agreement == staleKept \/ \A o \in Objects : Agrees(o)

(* An object whose members and whose socket stay as they are. *)
Undisturbed(o) ==
    /\ fd'[o] = fd[o]
    /\ dest'[o] = dest[o]
    /\ asked'[o] = asked[o]
    /\ pc'[o] = pc[o]
    /\ ret'[o] = ret[o]
    /\ isOpen(o) => local'[fd[o]] = local[fd[o]] /\ outIf'[fd[o]] = outIf[fd[o]]

LEMMA UndisturbedAgrees ==
    ASSUME NEW o \in Objects, Agrees(o), Undisturbed(o)
    PROVE  Agrees(o)'
BY DEF Agrees, Addressed, Undisturbed, isOpen

LEMMA StaleStays ==
    CoreInv /\ [Next]_vars /\ staleKept => staleKept'
<1> SUFFICES ASSUME CoreInv, [TableNext]_tableVars, staleKept
             PROVE  staleKept'
    BY TableStep
<1> QED
    BY DEF TableNext, tableVars, Acquire, SocketOk, SocketFails, CloseOk, CloseThrows,
           Destructor, ForeignOpen, ForeignClose

(* A close leaves the object closed, or keeps a number that the kernel     *)
(* released: an honest number cannot make close() answer EBADF.            *)
LEMMA CloseCloses ==
    ASSUME TypeOK, HonestHandles, NEW o \in Objects, CloseOk(o) \/ CloseThrows(o)
    PROVE  ~isOpen(o)' \/ staleKept'
<1>1. CASE CloseOk(o)
    BY <1>1 DEF CloseOk, isOpen, NoFd, TypeOK, TableTypeOK
<1>2. CASE CloseThrows(o) /\ IsLive(fd[o])
    BY <1>2 DEF CloseThrows
<1>3. CASE CloseThrows(o) /\ ~IsLive(fd[o])
    <2>1. staleKept \/ ~isOpen(o)
        BY <1>3, TableAssumption
           DEF HonestHandles, IsLive, isOpen, TypeOK, TableTypeOK, NoFd
    <2> QED
        BY <1>3, <2>1 DEF CloseThrows, isOpen
<1> QED
    BY <1>1, <1>2, <1>3

(* The kernel keeps the state of a socket as long as its number is in use, *)
(* which the number of an honest object is.                                *)
LEMMA HeldSocketKept ==
    ASSUME TypeOK', HonestHandles', ~staleKept', KernelFollows,
           NEW o \in Objects, isOpen(o)'
    PROVE  local'[fd'[o]] = local[fd'[o]] /\ outIf'[fd'[o]] = outIf[fd'[o]]
<1>1. fd'[o] \in Fds /\ files'[fd'[o]] # Free
    BY TableAssumption DEF HonestHandles, TypeOK, TableTypeOK, isOpen, NoFd
<1> QED
    BY <1>1 DEF KernelFollows

(* No two objects have the same number. *)
LEMMA NumbersDiffer ==
    ASSUME HonestHandles, ~staleKept, NEW o \in Objects, NEW p \in Objects, p # o,
           isOpen(o), isOpen(p)
    PROVE  fd[o] # fd[p]
BY DEF HonestHandles

LEMMA AgreementStep ==
    CoreInv /\ HonestHandles /\ HonestHandles' /\ Agreement /\ [Next]_vars
        => Agreement'
<1> SUFFICES ASSUME CoreInv, HonestHandles, HonestHandles', Agreement, [Next]_vars,
                    ~staleKept', NEW p \in Objects
             PROVE  Agrees(p)'
    BY DEF Agreement
<1>a. TypeOK /\ TypeOK' /\ ~staleKept /\ Agrees(p)
    BY StaleStays, CoreStep DEF CoreInv, Agreement
<1>b. fd'[p] = fd[p] /\ KernelFollows /\ isOpen(p)
          => local'[fd[p]] = local[fd[p]] /\ outIf'[fd[p]] = outIf[fd[p]]
    BY <1>a, HeldSocketKept DEF isOpen
<1>1. ASSUME NEW o \in Objects, NEW r \in Requests \cup {None}, Begin(o, r)
      PROVE  Agrees(p)'
    <2>1. CASE p = o
        <3>1. CASE isOpen(o) /\ CloseOk(o) /\ Goto(o, "socket")
            BY <1>a, <2>1, <3>1, GotoType DEF Agrees, Calls
        <3>2. CASE isOpen(o) /\ CloseThrows(o) /\ Return(o, "openThrew")
            BY <1>a, <2>1, <3>2, ReturnType, CloseCloses DEF Agrees, Results
        <3>3. CASE ~isOpen(o) /\ UNCHANGED tableVars /\ Goto(o, "socket")
            BY <1>a, <2>1, <3>3, GotoType DEF Agrees, Calls
        <3> QED
            BY <1>1, <3>1, <3>2, <3>3 DEF Begin
    <2>2. CASE p # o
        <3>1. fd'[p] = fd[p]
            BY <1>1, <1>a, <2>2, OthersKeep DEF Begin
        <3>2. Undisturbed(p)
            BY <1>1, <1>a, <1>b, <2>2, <3>1, ReturnType, GotoType
               DEF Begin, Undisturbed, TypeOK, Calls, Results
        <3> QED
            BY <1>a, <3>2, UndisturbedAgrees
    <2> QED
        BY <2>1, <2>2
<1>2. ASSUME NEW o \in Objects, Socket(o)
      PROVE  Agrees(p)'
    <2>1. CASE p = o
        <3>1. CASE SocketOk(o) /\ asked[o] = None /\ Return(o, "returned")
            BY <1>2, <1>a, <2>1, <3>1, ReturnType DEF Socket, Agrees, Results
        <3>2. CASE SocketOk(o) /\ Goto(o, "bind")
            BY <1>a, <2>1, <3>2, GotoType DEF Agrees, Calls
        <3>3. CASE SocketFails(o) /\ Return(o, "openThrew")
            BY <1>a, <2>1, <3>3, ReturnType
               DEF SocketFails, Agrees, isOpen, NoFd, TypeOK, TableTypeOK, Results
        <3> QED
            BY <1>2, <3>1, <3>2, <3>3 DEF Socket
    <2>2. CASE p # o
        <3>1. fd'[p] = fd[p]
            BY <1>2, <1>a, <2>2, OthersKeep DEF Socket
        <3>2. Undisturbed(p)
            BY <1>2, <1>a, <1>b, <2>2, <3>1, ReturnType, GotoType
               DEF Socket, Undisturbed, Calls, Results
        <3> QED
            BY <1>a, <3>2, UndisturbedAgrees
    <2> QED
        BY <2>1, <2>2
<1>3. ASSUME NEW o \in Objects, Fail(o) \/ CloseUdpSocket(o)
      PROVE  Agrees(p)'
    <2>1. PICK r \in {"openThrew", "returned", "threw"} : Return(o, r)
        BY <1>3 DEF Fail, CloseUdpSocket
    <2>2. CASE p = o
        <3>1. ~isOpen(p)'
            BY <1>3, <1>a, <2>2, CloseCloses DEF Fail, CloseUdpSocket
        <3> QED
            BY <1>a, <2>1, <2>2, <3>1, ReturnType DEF Agrees, Results
    <2>3. CASE p # o
        <3>1. fd'[p] = fd[p]
            BY <1>3, <1>a, <2>3, OthersKeep DEF Fail, CloseUdpSocket
        <3>2. Undisturbed(p)
            BY <1>3, <1>a, <1>b, <2>1, <2>3, <3>1, ReturnType
               DEF Fail, CloseUdpSocket, Undisturbed, Results
        <3> QED
            BY <1>a, <3>2, UndisturbedAgrees
    <2> QED
        BY <2>2, <2>3
<1>4. ASSUME NEW o \in Objects, Destroy(o)
      PROVE  Agrees(p)'
    <2>1. CASE p = o
        <3>1. ret'[p] = "new" /\ asked'[p] = None /\ pc'[p] = "idle"
            BY <1>4, <1>a, <2>1 DEF Destroy, Renew, TypeOK
        <3> QED
            BY <3>1 DEF Agrees
    <2>2. CASE p # o
        <3>1. fd'[p] = fd[p]
            BY <1>4, <1>a, <2>2, OthersKeep DEF Destroy
        <3>2. Undisturbed(p)
            BY <1>4, <1>a, <1>b, <2>2, <3>1 DEF Destroy, Renew, Undisturbed, TypeOK
        <3> QED
            BY <1>a, <3>2, UndisturbedAgrees
    <2> QED
        BY <2>1, <2>2
<1>5. ASSUME NEW o \in Objects, Bind(o)
      PROVE  Agrees(p)'
    <2>1. CASE p = o
        <3>1. CASE IsLive(fd[o]) /\ Goto(o, "multicastIf")
            BY <1>5, <1>a, <2>1, <3>1, GotoType
               DEF Bind, Agrees, Addressed, IsLive, TypeOK, tableVars, Calls
        <3>2. CASE Goto(o, "fail")
            BY <1>a, <2>1, <3>2, GotoType DEF Agrees, Calls
        <3> QED
            BY <1>5, <3>1, <3>2 DEF Bind
    <2>2. CASE p # o
        <3>1. isOpen(p) => local'[fd[p]] = local[fd[p]]
            BY <1>5, <1>a, <2>2, NumbersDiffer
               DEF Bind, IsLive, isOpen, Fds, NoFd, TypeOK, TableTypeOK
        <3>2. Undisturbed(p)
            BY <1>5, <1>a, <2>2, <3>1, GotoType
               DEF Bind, Undisturbed, TypeOK, tableVars, Calls
        <3> QED
            BY <1>a, <3>2, UndisturbedAgrees
    <2> QED
        BY <2>1, <2>2
<1>6. ASSUME NEW o \in Objects, SetMulticastIf(o)
      PROVE  Agrees(p)'
    <2>1. CASE p = o
        <3>1. CASE Return(o, "opened") /\ IsLive(fd[o])
                   /\ outIf' = [outIf EXCEPT ![fd[o]] = asked[o].iface]
            <4>1. isOpen(o) /\ asked[o] # None
                BY <1>6, <3>1 DEF SetMulticastIf, CoreInv, RequestKnown, IsLive, isOpen, Fds
            <4> QED
                BY <1>6, <1>a, <2>1, <3>1, <4>1, ReturnType
                   DEF SetMulticastIf, Agrees, Addressed, IsLive, isOpen, TypeOK,
                       tableVars, Results
        <3>2. CASE Goto(o, "fail")
            BY <1>a, <2>1, <3>2, GotoType DEF Agrees, Calls
        <3> QED
            BY <1>6, <3>1, <3>2 DEF SetMulticastIf
    <2>2. CASE p # o
        <3>1. isOpen(p) => outIf'[fd[p]] = outIf[fd[p]]
            BY <1>6, <1>a, <2>2, NumbersDiffer
               DEF SetMulticastIf, IsLive, isOpen, Fds, NoFd, TypeOK, TableTypeOK
        <3>2. Undisturbed(p)
            BY <1>6, <1>a, <2>2, <3>1, GotoType, ReturnType
               DEF SetMulticastIf, Undisturbed, tableVars, Calls, Results
        <3> QED
            BY <1>a, <3>2, UndisturbedAgrees
    <2> QED
        BY <2>1, <2>2
<1>7. ASSUME NEW o \in Objects, CallSend(o) \/ Send(o)
      PROVE  Agrees(p)'
    <2>1. UNCHANGED <<fd, dest, local, outIf, asked>>
        BY <1>7 DEF CallSend, Send, kernelVars, tableVars
    <2>2. CASE p = o
        <3>1. \/ pc[p] = "idle" /\ pc'[p] = "send" /\ ret'[p] = "running"
              \/ pc[p] = "send" /\ pc'[p] = "idle" /\ ret'[p] \in {"returned", "zero", "threw"}
            BY <1>7, <1>a, <2>2, GotoType, ReturnType DEF CallSend, Send, Calls, Results
        <3> QED
            BY <1>a, <2>1, <3>1 DEF Agrees, Addressed, isOpen
    <2>3. CASE p # o
        <3>1. pc'[p] = pc[p] /\ ret'[p] = ret[p]
            BY <1>7, <1>a, <2>3, GotoType, ReturnType DEF CallSend, Send, Calls, Results
        <3> QED
            BY <1>a, <2>1, <3>1, UndisturbedAgrees DEF Undisturbed
    <2> QED
        BY <2>2, <2>3
<1>8. ASSUME NEW o \in Objects, Interrupted(o)
      PROVE  Undisturbed(p)
    BY <1>8 DEF Interrupted, Undisturbed, kernelVars, tableVars
<1>9. CASE RestOfProcess
    <2>1. fd'[p] = fd[p]
        BY <1>9 DEF RestOfProcess, ForeignOpen, ForeignClose
    <2>2. Undisturbed(p)
        BY <1>9, <1>b, <2>1 DEF RestOfProcess, Undisturbed
    <2> QED
        BY <1>a, <2>2, UndisturbedAgrees
<1>10. CASE UNCHANGED vars
    BY <1>a, <1>10, UndisturbedAgrees DEF Undisturbed, vars, kernelVars, tableVars
<1> QED
    BY <1>a, <1>1, <1>2, <1>3, <1>4, <1>5, <1>6, <1>7, <1>8, <1>9, <1>10, UndisturbedAgrees
       DEF Next, Method, Open, OpenUdpSocket

THEOREM AlwaysAgrees == Spec => []Agreement
<1>1. Init => Agreement
    BY DEF Init, TableInit, Agreement, Agrees, isOpen, NoFd
<1> QED
    BY <1>1, AgreementStep, CoreCorrect, HandlesHonest, PTL DEF Spec

-----------------------------------------------------------------------------
(* An open() that throws leaves the object closed, one that returns leaves *)
(* it open, bound and with the destination and interface asked for.        *)
THEOREM OpensAllOrNothing == Spec => []OpenAllOrNothing
<1>1. Agreement => OpenAllOrNothing
    BY DEF Agreement, Agrees, Addressed, OpenAllOrNothing
<1> QED
    BY <1>1, AlwaysAgrees, PTL

(* Only send() puts something on the wire, and it does so after a          *)
(* successful open() of the socket the object has now.                     *)
LEMMA WireStep ==
    CoreInv /\ Agreement /\ SendsWhereAsked /\ [Next]_vars => SendsWhereAsked'
<1> SUFFICES ASSUME CoreInv, Agreement, SendsWhereAsked, [Next]_vars
             PROVE  SendsWhereAsked'
    OBVIOUS
<1>1. ASSUME NEW o \in Objects, Send(o), ~Quiet
      PROVE  SendsWhereAsked'
    <2>1. /\ IsLive(fd[o])
          /\ wire' = [asked |-> asked[o], group |-> dest[o],
                      iface |-> outIf[fd[o]], source |-> local[fd[o]]]
          /\ pc[o] = "send"
          /\ UNCHANGED staleKept
        BY <1>1 DEF Send, tableVars
    <2>2. asked[o] # None =>
              \/ staleKept
              \/ Addressed(o) /\ outIf[fd[o]] = asked[o].iface
        BY <2>1 DEF Agreement, Agrees, IsLive, isOpen, Fds
    <2> QED
        BY <2>1, <2>2 DEF SendsWhereAsked, Addressed
<1>2. CASE Quiet
    BY <1>2 DEF Quiet, SendsWhereAsked
<1>3. CASE UNCHANGED vars
    BY <1>3 DEF vars, tableVars, SendsWhereAsked
<1> QED
    BY <1>1, <1>2, <1>3
       DEF Next, Method, Open, OpenUdpSocket, Begin, Socket, Bind, SetMulticastIf, Fail,
           CallSend, Interrupted, CloseUdpSocket, Destroy, RestOfProcess

(* After open() was called, no datagram goes to another group, leaves by   *)
(* another interface or names another sender than open() asked for.        *)
THEOREM AlwaysSendsWhereAsked == Spec => []SendsWhereAsked
<1>1. Init => SendsWhereAsked
    BY DEF Init, SendsWhereAsked
<1> QED
    BY <1>1, WireStep, CoreCorrect, AlwaysAgrees, PTL DEF Spec
=============================================================================

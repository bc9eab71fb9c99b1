--------------------------- MODULE CUdpSocketProofs ----------------------------
(***************************************************************************)
(* CUdpSocket keeps the contract of DescriptorTable, and with it the two   *)
(* promises of its methods that rest on the contract: a failure leaves the *)
(* object closed, and the non-blocking flag stays on the socket it was set *)
(* on.  For every number of objects, descriptors and waiting datagrams.    *)
(***************************************************************************)
EXTENDS CUdpSocket, DescriptorTableProofs

(* The two halves of openUdpSocket() and closeAndThrowRuntimeException():  *)
(* whoever is about to call socket() holds no number.                      *)
SocketNeedsNoNumber == \A o \in Objects : pc[o] = "socket" => ~isOpen(o)

(* What is shown inductive first. *)
CoreInv == TypeOK /\ SocketNeedsNoNumber

-----------------------------------------------------------------------------
LEMMA KernelFollowsType ==
    ASSUME TypeOK, KernelFollows
    PROVE  /\ bound' \in SUBSET Fds
           /\ nonblock' \in SUBSET Fds
           /\ queue' \in [Fds -> 0 .. MaxQueue]
BY QueueAssumption DEF TypeOK, KernelFollows, PortsFollow

LEMMA ReturnType ==
    ASSUME TypeOK, NEW o \in Objects, NEW r \in Results, Return(o, r)
    PROVE  /\ pc' \in [Objects -> Calls]
           /\ ret' \in [Objects -> Results]
           /\ pc'[o] = "idle"
           /\ ret'[o] = r
           /\ \A p \in Objects \ {o} : pc'[p] = pc[p] /\ ret'[p] = ret[p]
BY DEF TypeOK, Return, Calls, Results

LEMMA GotoType ==
    ASSUME TypeOK, NEW o \in Objects, NEW c \in Calls, Goto(o, c)
    PROVE  /\ pc' \in [Objects -> Calls]
           /\ ret' \in [Objects -> Results]
           /\ pc'[o] = c
           /\ ret'[o] = "running"
           /\ \A p \in Objects \ {o} : pc'[p] = pc[p] /\ ret'[p] = ret[p]
BY DEF TypeOK, Goto, Calls, Results

-----------------------------------------------------------------------------
(* What every step does to the table: a step of the contract, or nothing. *)
LEMMA TableStep ==
    CoreInv /\ [Next]_vars => [TableNext]_tableVars
<1> SUFFICES ASSUME CoreInv, [Next]_vars
             PROVE  [TableNext]_tableVars
    OBVIOUS
<1> USE DEF CoreInv
<1>1. ASSUME NEW o \in Objects, OpenUdpSocket(o)
      PROVE  [TableNext]_tableVars
    BY <1>1 DEF OpenUdpSocket, TableNext
<1>2. ASSUME NEW o \in Objects, OpenSocket(o)
      PROVE  [TableNext]_tableVars
    BY <1>2 DEF OpenSocket, SocketNeedsNoNumber, Acquire, TableNext
<1>3. ASSUME NEW o \in Objects, CloseUdpSocket(o)
      PROVE  [TableNext]_tableVars
    BY <1>3 DEF CloseUdpSocket, TableNext
<1>4. ASSUME NEW o \in Objects, Destroy(o)
      PROVE  [TableNext]_tableVars
    BY <1>4 DEF Destroy, TableNext
<1>5. ASSUME NEW o \in Objects, CloseAndThrow(o)
      PROVE  [TableNext]_tableVars
    BY <1>5 DEF CloseAndThrow, TableNext
<1>6. ASSUME NEW o \in Objects,
             \/ Bind(o) \/ GetFl(o) \/ SetFl(o)
             \/ CallSendTo(o) \/ SendResult(o) \/ SendError(o)
             \/ CallReceiveFrom(o) \/ ReceiveResult(o) \/ ReceiveError(o)
             \/ Interrupted(o)
      PROVE  UNCHANGED tableVars
    BY <1>6 DEF Bind, GetFl, SetFl, CallSendTo, SendResult, SendError, CallReceiveFrom,
                ReceiveResult, ReceiveError, Interrupted, vars, tableVars
<1>7. CASE Arrive
    BY <1>7 DEF Arrive
<1>8. CASE RestOfProcess
    BY <1>8 DEF RestOfProcess, TableNext
<1>9. CASE UNCHANGED vars
    BY <1>9 DEF vars, tableVars
<1> QED
    BY <1>1, <1>2, <1>3, <1>4, <1>5, <1>6, <1>7, <1>8, <1>9 DEF Next, Method

-----------------------------------------------------------------------------
LEMMA CoreInit == Init => CoreInv
<1> SUFFICES ASSUME Init PROVE CoreInv
    OBVIOUS
<1>1. TableTypeOK
    BY TableAssumption DEF Init, TableInit, TableTypeOK
<1>2. TypeOK
    BY <1>1, QueueAssumption DEF Init, TypeOK, Calls, Results
<1> QED
    BY <1>2 DEF Init, CoreInv, SocketNeedsNoNumber

(* Each method keeps the types, and reaches socket() without a number. *)
LEMMA CoreStep == CoreInv /\ [Next]_vars => CoreInv'
<1> SUFFICES ASSUME CoreInv, [Next]_vars
             PROVE  CoreInv'
    OBVIOUS
<1> USE DEF CoreInv
<1>a. TableTypeOK'
    BY TableStep, TableTypeStep DEF TypeOK
<1>1. ASSUME NEW o \in Objects, OpenUdpSocket(o)
      PROVE  CoreInv'
    <2>1. TypeOK'
        BY <1>1, <1>a, KernelFollowsType, ReturnType, GotoType
           DEF OpenUdpSocket, TypeOK, Calls, Results
    <2>2. ASSUME NEW p \in Objects, pc'[p] = "socket"
          PROVE  ~isOpen(p)'
        <3>1. CASE isOpen(o) /\ CloseOk(o) /\ Goto(o, "socket")
            BY <2>2, <3>1, GotoType
               DEF SocketNeedsNoNumber, CloseOk, isOpen, NoFd, TypeOK, TableTypeOK, Calls
        <3>2. CASE isOpen(o) /\ CloseThrows(o) /\ Return(o, "openThrew")
            BY <2>2, <3>2, ReturnType
               DEF SocketNeedsNoNumber, CloseThrows, isOpen, Results
        <3>3. CASE ~isOpen(o) /\ UNCHANGED tableVars /\ Goto(o, "socket")
            BY <2>2, <3>3, GotoType
               DEF SocketNeedsNoNumber, isOpen, tableVars, Calls
        <3> QED
            BY <1>1, <3>1, <3>2, <3>3 DEF OpenUdpSocket
    <2> QED
        BY <2>1, <2>2 DEF SocketNeedsNoNumber
<1>2. ASSUME NEW o \in Objects, OpenSocket(o)
      PROVE  CoreInv'
    <2>1. PICK r \in Results : Return(o, r)
        BY <1>2 DEF OpenSocket, Results
    <2>2. TypeOK'
        BY <1>2, <2>1, <1>a, KernelFollowsType, ReturnType DEF OpenSocket, TypeOK
    <2>3. \A p \in Objects \ {o} : fd'[p] = fd[p]
        BY <1>2 DEF OpenSocket, SocketOk, SocketFails, TypeOK, TableTypeOK
    <2> QED
        BY <2>1, <2>2, <2>3, ReturnType DEF SocketNeedsNoNumber, isOpen
<1>3. ASSUME NEW o \in Objects, CloseUdpSocket(o) \/ CloseAndThrow(o)
      PROVE  CoreInv'
    <2>1. PICK r \in Results : Return(o, r)
        BY <1>3 DEF CloseUdpSocket, CloseAndThrow, Results
    <2>2. TypeOK'
        BY <1>3, <2>1, <1>a, KernelFollowsType, ReturnType
           DEF CloseUdpSocket, CloseAndThrow, TypeOK
    <2>3. \A p \in Objects \ {o} : fd'[p] = fd[p]
        BY <1>3 DEF CloseUdpSocket, CloseAndThrow, CloseOk, CloseThrows, TypeOK, TableTypeOK
    <2> QED
        BY <2>1, <2>2, <2>3, ReturnType DEF SocketNeedsNoNumber, isOpen
<1>4. ASSUME NEW o \in Objects, Destroy(o)
      PROVE  CoreInv'
    <2>1. TypeOK'
        BY <1>4, <1>a, KernelFollowsType DEF Destroy, TypeOK, Results
    <2>2. \A p \in Objects \ {o} : fd'[p] = fd[p]
        BY <1>4 DEF Destroy, Destructor, TypeOK, TableTypeOK
    <2> QED
        BY <1>4, <2>1, <2>2 DEF Destroy, SocketNeedsNoNumber, isOpen
<1>5. ASSUME NEW o \in Objects,
             \/ Bind(o) \/ GetFl(o) \/ SetFl(o)
             \/ CallSendTo(o) \/ SendResult(o) \/ SendError(o)
             \/ CallReceiveFrom(o) \/ ReceiveResult(o) \/ ReceiveError(o)
      PROVE  CoreInv'
    <2>1. UNCHANGED tableVars
        BY <1>5 DEF Bind, GetFl, SetFl, CallSendTo, SendResult, SendError,
                    CallReceiveFrom, ReceiveResult, ReceiveError, tableVars
    <2>2. \/ \E r \in Results : Return(o, r)
          \/ \E c \in Calls \ {"socket"} : Goto(o, c)
        BY <1>5 DEF Bind, GetFl, SetFl, CallSendTo, SendResult, SendError,
                    CallReceiveFrom, ReceiveResult, ReceiveError, Calls, Results
    <2>3. /\ bound' \in SUBSET Fds
          /\ nonblock' \in SUBSET Fds
          /\ queue' \in [Fds -> 0 .. MaxQueue]
          /\ mode' \in [Objects -> {"unset", "set"}]
        <3>1. CASE Bind(o) \/ GetFl(o) \/ SetFl(o)
            BY <3>1 DEF Bind, GetFl, SetFl, TypeOK, kernelVars, IsLive
        <3>2. CASE CallSendTo(o) \/ SendResult(o) \/ SendError(o) \/ CallReceiveFrom(o)
                   \/ ReceiveError(o)
            BY <3>2 DEF CallSendTo, SendResult, SendError, CallReceiveFrom, ReceiveError,
                        TypeOK, kernelVars, IsLive
        <3>3. CASE ReceiveResult(o)
            BY <3>3, QueueAssumption DEF ReceiveResult, HasDatagram, TypeOK, IsLive
        <3> QED
            BY <1>5, <3>1, <3>2, <3>3
    <2>4. TypeOK'
        BY <1>a, <2>2, <2>3, ReturnType, GotoType DEF TypeOK
    <2>5. \A p \in Objects : pc'[p] = "socket" => pc[p] = "socket"
        BY <2>2, ReturnType, GotoType
    <2> QED
        BY <2>1, <2>4, <2>5 DEF SocketNeedsNoNumber, isOpen, tableVars
<1>6. CASE Arrive
    <2>1. queue' \in [Fds -> 0 .. MaxQueue]
        BY <1>6, QueueAssumption DEF Arrive, Deliver, TypeOK
    <2> QED
        BY <1>6, <1>a, <2>1 DEF Arrive, TypeOK, SocketNeedsNoNumber, isOpen, tableVars
<1>7. CASE RestOfProcess
    BY <1>7, <1>a, KernelFollowsType
       DEF RestOfProcess, ForeignOpen, ForeignClose, TypeOK, SocketNeedsNoNumber, isOpen
<1>8. CASE UNCHANGED vars
    BY <1>8 DEF vars, TypeOK, TableTypeOK, SocketNeedsNoNumber, isOpen
<1>9. ASSUME NEW o \in Objects, Interrupted(o)
      PROVE  UNCHANGED vars
    BY <1>9 DEF Interrupted
<1> QED
    BY <1>1, <1>2, <1>3, <1>4, <1>5, <1>6, <1>7, <1>8, <1>9 DEF Next, Method

THEOREM CoreCorrect == Spec => []CoreInv
BY CoreInit, CoreStep, PTL DEF Spec

(* Type correctness of CUdpSocket. *)
THEOREM TypeCorrect == Spec => []TypeOK
<1>1. CoreInv => TypeOK
    BY DEF CoreInv
<1> QED
    BY <1>1, CoreCorrect, PTL

(* CUdpSocket implements the ownership contract: socket() is called only   *)
(* by an object that holds no number, on every path, failing ones too.     *)
THEOREM KeepsContract == Spec => TableSpec
<1>1. Init => TableInit
    BY DEF Init
<1> QED
    BY <1>1, TableStep, CoreCorrect, PTL DEF Spec, TableSpec

(* Hence no sequence of calls, failures and reuse of numbers leaks a       *)
(* descriptor,                                                             *)
THEOREM NeverLeaks == Spec => []NoLeak
BY KeepsContract, TableNeverLeaks

(* isOpen() is truthful until closeUdpSocket() throws on a released number, *)
THEOREM HandlesHonest == Spec => []HonestHandles
BY KeepsContract, TableHandlesHonest

(* and nobody closes what is not theirs. *)
THEOREM ClosesOwn == Spec => NoStrangerClose
BY KeepsContract, TableNoStrangerClose
-----------------------------------------------------------------------------
(* The steps of a method after which the object holds the number it held,  *)
(* and does not report a failure to open or to bind.                       *)
QuietStep(o) ==
    \/ GetFl(o) \/ SetFl(o) \/ CallSendTo(o) \/ SendResult(o) \/ SendError(o)
    \/ CallReceiveFrom(o) \/ ReceiveResult(o) \/ ReceiveError(o) \/ Bind(o)

LEMMA QuietStepReturns ==
    ASSUME TypeOK, NEW o \in Objects, QuietStep(o)
    PROVE  /\ UNCHANGED tableVars
           /\ ret'[o] \in {"running", "returned", "zero", "threw"}
           /\ \A p \in Objects \ {o} : ret'[p] = ret[p]
<1>1. \/ Return(o, "returned") \/ Return(o, "zero") \/ Return(o, "threw")
      \/ \E c \in Calls : Goto(o, c)
    BY DEF QuietStep, GetFl, SetFl, CallSendTo, SendResult, SendError, CallReceiveFrom,
           ReceiveResult, ReceiveError, Bind, Calls
<1>2. UNCHANGED tableVars
    BY DEF QuietStep, GetFl, SetFl, CallSendTo, SendResult, SendError, CallReceiveFrom,
           ReceiveResult, ReceiveError, Bind, tableVars
<1> QED
    BY <1>1, <1>2, ReturnType, GotoType DEF Results

(* A method that changes what object o holds leaves the other objects as   *)
(* they are.                                                               *)
LEMMA OthersKeep ==
    ASSUME TypeOK, NEW o \in Objects,
           CloseOk(o) \/ CloseThrows(o) \/ SocketOk(o) \/ SocketFails(o) \/ Destructor(o)
    PROVE  \A p \in Objects \ {o} : fd'[p] = fd[p]
BY DEF TypeOK, TableTypeOK, CloseOk, CloseThrows, SocketOk, SocketFails, Destructor

(* A close leaves the object closed, or keeps a number that the kernel     *)
(* released: an honest number cannot make close() answer EBADF.            *)
LEMMA CloseCloses ==
    ASSUME TypeOK, HonestHandles, NEW o \in Objects, CloseOk(o) \/ CloseThrows(o)
    PROVE  ~isOpen(o)' \/ staleKept'
<1>1. CASE CloseOk(o)
    BY <1>1 DEF CloseOk, isOpen, NoFd, TypeOK, TableTypeOK
<1>2. CASE CloseThrows(o)
    <2>1. CASE IsLive(fd[o])
        BY <1>2, <2>1 DEF CloseThrows
    <2>2. CASE ~IsLive(fd[o])
        <3>1. staleKept \/ ~isOpen(o)
            BY <2>2, TableAssumption
               DEF HonestHandles, IsLive, isOpen, TypeOK, TableTypeOK, NoFd
        <3> QED
            BY <1>2, <2>2, <3>1 DEF CloseThrows, isOpen
    <2> QED
        BY <2>1, <2>2
<1> QED
    BY <1>1, <1>2

LEMMA StaleStays ==
    CoreInv /\ [Next]_vars /\ staleKept => staleKept'
<1> SUFFICES ASSUME CoreInv, [TableNext]_tableVars, staleKept
             PROVE  staleKept'
    BY TableStep
<1> QED
    BY DEF TableNext, tableVars, Acquire, SocketOk, SocketFails, CloseOk, CloseThrows,
           Destructor, ForeignOpen, ForeignClose

LEMMA FailureStep ==
    CoreInv /\ HonestHandles /\ FailureCloses /\ [Next]_vars => FailureCloses'
<1> SUFFICES ASSUME CoreInv, HonestHandles, FailureCloses, [Next]_vars, ~staleKept',
                    NEW p \in Objects, ret'[p] \in {"openThrew", "bindThrew", "helperThrew"}
             PROVE  ~isOpen(p)'
    BY DEF FailureCloses
<1>a. TypeOK /\ ~staleKept
    BY StaleStays DEF CoreInv
<1>b. ret[p] = ret'[p] /\ fd'[p] = fd[p] => ~isOpen(p)'
    BY <1>a DEF FailureCloses, isOpen
<1>1. ASSUME NEW o \in Objects, OpenUdpSocket(o)
      PROVE  ~isOpen(p)'
    <2>1. CASE p = o
        BY <1>1, <1>a, <2>1, GotoType, CloseCloses DEF OpenUdpSocket, Calls
    <2>2. CASE p # o
        <3>1. fd'[p] = fd[p]
            BY <1>1, <1>a, <2>2, OthersKeep DEF OpenUdpSocket, tableVars
        <3> QED
            BY <1>1, <1>a, <1>b, <2>2, <3>1, ReturnType, GotoType
               DEF OpenUdpSocket, Calls, Results
    <2> QED
        BY <2>1, <2>2
<1>2. ASSUME NEW o \in Objects, OpenSocket(o)
      PROVE  ~isOpen(p)'
    <2>1. CASE p = o
        BY <1>2, <1>a, <2>1, ReturnType
           DEF OpenSocket, SocketFails, isOpen, NoFd, TypeOK, TableTypeOK, Results
    <2>2. CASE p # o
        BY <1>2, <1>a, <1>b, <2>2, OthersKeep, ReturnType DEF OpenSocket, Results
    <2> QED
        BY <2>1, <2>2
<1>3. ASSUME NEW o \in Objects, CloseUdpSocket(o) \/ CloseAndThrow(o)
      PROVE  ~isOpen(p)'
    <2>1. CASE p = o
        BY <1>3, <1>a, <2>1, CloseCloses DEF CloseUdpSocket, CloseAndThrow
    <2>2. CASE p # o
        BY <1>3, <1>a, <1>b, <2>2, OthersKeep, ReturnType
           DEF CloseUdpSocket, CloseAndThrow, Results
    <2> QED
        BY <2>1, <2>2
<1>4. ASSUME NEW o \in Objects, Destroy(o)
      PROVE  ~isOpen(p)'
    <2>1. CASE p = o
        BY <1>4, <1>a, <2>1 DEF Destroy, TypeOK
    <2>2. CASE p # o
        BY <1>4, <1>a, <1>b, <2>2, OthersKeep DEF Destroy, TypeOK
    <2> QED
        BY <2>1, <2>2
<1>5. ASSUME NEW o \in Objects, QuietStep(o)
      PROVE  ~isOpen(p)'
    BY <1>5, <1>a, <1>b, QuietStepReturns DEF tableVars
<1>6. CASE Arrive \/ RestOfProcess \/ UNCHANGED vars
    BY <1>6, <1>b DEF Arrive, RestOfProcess, ForeignOpen, ForeignClose, vars, tableVars
<1> QED
    BY <1>1, <1>2, <1>3, <1>4, <1>5, <1>6 DEF Next, Method, QuietStep, Interrupted

(* A failure to open or to bind leaves the object closed, unless close()   *)
(* failed on a number that the kernel had released.                        *)
THEOREM FailureLeavesClosed == Spec => []FailureCloses
<1>1. Init => FailureCloses
    BY DEF Init, FailureCloses
<1> QED
    BY <1>1, FailureStep, CoreCorrect, HandlesHonest, PTL DEF Spec

-----------------------------------------------------------------------------
(* The flag of a number that nobody has is gone. *)
LiveFlags == \A f \in nonblock : files[f] # Free

LEMMA LiveFlagsStep == CoreInv /\ LiveFlags /\ [Next]_vars => LiveFlags'
<1> SUFFICES ASSUME CoreInv, LiveFlags, [Next]_vars
             PROVE  LiveFlags'
    OBVIOUS
<1>1. KernelFollows => LiveFlags'
    BY DEF KernelFollows, LiveFlags
<1>2. UNCHANGED <<files, nonblock>> => LiveFlags'
    BY DEF LiveFlags
<1>3. ASSUME NEW o \in Objects,
             \/ OpenUdpSocket(o) \/ OpenSocket(o) \/ CloseUdpSocket(o)
             \/ Destroy(o) \/ CloseAndThrow(o)
      PROVE  KernelFollows
    BY <1>3 DEF OpenUdpSocket, OpenSocket, CloseUdpSocket, Destroy, CloseAndThrow
<1>4. ASSUME NEW o \in Objects, SetFl(o)
      PROVE  LiveFlags'
    BY <1>4, <1>2 DEF SetFl, LiveFlags, IsLive, tableVars
<1>5. ASSUME NEW o \in Objects, QuietStep(o), ~SetFl(o)
      PROVE  UNCHANGED <<files, nonblock>>
    BY <1>5 DEF QuietStep, GetFl, CallSendTo, SendResult, SendError, CallReceiveFrom,
                ReceiveResult, ReceiveError, Bind, kernelVars, tableVars
<1>6. CASE Arrive \/ UNCHANGED vars
    BY <1>6, <1>2 DEF Arrive, vars, tableVars
<1>7. CASE RestOfProcess
    BY <1>7, <1>1 DEF RestOfProcess
<1>8. ASSUME NEW o \in Objects, Interrupted(o)
      PROVE  UNCHANGED <<files, nonblock>>
    BY <1>8 DEF Interrupted, vars
<1> QED
    BY <1>1, <1>2, <1>3, <1>4, <1>5, <1>6, <1>7, <1>8 DEF Next, Method, QuietStep

(* The flag lives as long as the socket: a step that frees the number      *)
(* leaves no honest object that holds it, a number that is acquired anew   *)
(* has no flag, and setNonBlocking() sets that of nobody else.             *)
LEMMA NonBlockingStep ==
    CoreInv /\ HonestHandles' /\ LiveFlags /\ NonBlockingHolds /\ [Next]_vars
        => NonBlockingHolds'
<1> SUFFICES ASSUME CoreInv, HonestHandles', LiveFlags, NonBlockingHolds, [Next]_vars,
                    ~staleKept', NEW p \in Objects, isOpen(p)'
             PROVE  fd'[p] \in nonblock' <=> mode'[p] = "set"
    BY DEF NonBlockingHolds
<1>a. TypeOK /\ TypeOK' /\ ~staleKept
    BY StaleStays, CoreStep DEF CoreInv
<1>b. files'[fd'[p]] = p /\ p # Free
    BY TableAssumption DEF HonestHandles
<1>c. fd'[p] = fd[p] => (fd'[p] \in nonblock <=> mode[p] = "set")
    BY <1>a DEF NonBlockingHolds, isOpen
<1>d. fd'[p] = fd[p] /\ mode'[p] = mode[p] /\ KernelFollows
          => (fd'[p] \in nonblock' <=> mode'[p] = "set")
    BY <1>b, <1>c DEF KernelFollows
<1>1. ASSUME NEW o \in Objects, OpenUdpSocket(o) \/ CloseUdpSocket(o) \/ CloseAndThrow(o)
      PROVE  fd'[p] \in nonblock' <=> mode'[p] = "set"
    <2>1. fd'[p] = fd[p]
        BY <1>1, <1>a, OthersKeep
           DEF OpenUdpSocket, CloseUdpSocket, CloseAndThrow, CloseOk, CloseThrows,
               tableVars, isOpen, NoFd, TypeOK, TableTypeOK
    <2> QED
        BY <1>1, <1>d, <2>1 DEF OpenUdpSocket, CloseUdpSocket, CloseAndThrow
<1>2. ASSUME NEW o \in Objects, OpenSocket(o)
      PROVE  fd'[p] \in nonblock' <=> mode'[p] = "set"
    <2>1. CASE p = o
        <3>1. SocketOk(o) /\ mode' = [mode EXCEPT ![o] = "unset"] /\ KernelFollows
            BY <1>2, <1>a, <2>1
               DEF OpenSocket, SocketFails, isOpen, NoFd, TypeOK, TableTypeOK
        <3>2. files[fd'[p]] = Free
            BY <3>1, <1>a, <2>1 DEF SocketOk, LowestFree, FreeFds, TypeOK, TableTypeOK
        <3>3. fd'[p] \notin nonblock'
            BY <3>1, <3>2 DEF LiveFlags, KernelFollows
        <3> QED
            BY <3>1, <3>3, <1>a, <2>1 DEF TypeOK
    <2>2. CASE p # o
        BY <1>2, <1>a, <1>d, <2>2, OthersKeep DEF OpenSocket, TypeOK
    <2> QED
        BY <2>1, <2>2
<1>3. ASSUME NEW o \in Objects, Destroy(o)
      PROVE  fd'[p] \in nonblock' <=> mode'[p] = "set"
    <2>1. p # o
        BY <1>3, <1>a DEF Destroy, Destructor, isOpen, NoFd, TypeOK, TableTypeOK
    <2> QED
        BY <1>3, <1>a, <1>d, <2>1, OthersKeep DEF Destroy, TypeOK
<1>4. ASSUME NEW o \in Objects, QuietStep(o)
      PROVE  fd'[p] \in nonblock' <=> mode'[p] = "set"
    <2>1. fd'[p] = fd[p] /\ UNCHANGED <<files, fd>>
        BY <1>4, <1>a, QuietStepReturns DEF tableVars
    <2>2. CASE SetFl(o) /\ p = o
        BY <1>a, <1>c, <2>1, <2>2 DEF SetFl, TypeOK
    <2>3. CASE SetFl(o) /\ p # o
        <3>1. IsLive(fd[o]) => files'[fd[o]] = o
            BY <2>1, <1>a DEF IsLive, HonestHandles, isOpen, Fds
        <3>2. IsLive(fd[o]) => fd[o] # fd'[p]
            BY <3>1, <2>3, <1>b
        <3> QED
            BY <1>a, <1>c, <2>1, <2>3, <3>2 DEF SetFl, TypeOK
    <2>4. CASE ~SetFl(o)
        BY <1>4, <1>c, <2>1, <2>4
           DEF QuietStep, GetFl, CallSendTo, SendResult, SendError, CallReceiveFrom,
               ReceiveResult, ReceiveError, Bind, kernelVars
    <2> QED
        BY <2>2, <2>3, <2>4
<1>5. CASE Arrive \/ UNCHANGED vars
    BY <1>5, <1>c DEF Arrive, vars, tableVars
<1>6. CASE RestOfProcess
    BY <1>6, <1>d DEF RestOfProcess, ForeignOpen, ForeignClose
<1> QED
    BY <1>1, <1>2, <1>3, <1>4, <1>5, <1>6 DEF Next, Method, QuietStep, Interrupted

(* A socket is non-blocking exactly when setNonBlocking() succeeded since  *)
(* its object acquired it.                                                 *)
THEOREM NonBlockingStays == Spec => []NonBlockingHolds
<1>1. Init => NonBlockingHolds /\ LiveFlags
    BY TableAssumption DEF Init, TableInit, NonBlockingHolds, LiveFlags, isOpen, NoFd
<1> QED
    BY <1>1, NonBlockingStep, LiveFlagsStep, CoreCorrect, HandlesHonest, PTL DEF Spec
=============================================================================

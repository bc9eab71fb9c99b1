------------------------------- MODULE CUdpSocket -------------------------------
(***************************************************************************)
(* CUdpSocket: open, close, bind, setNonBlocking, sendTo, receiveFrom and  *)
(* the helper closeAndThrowRuntimeException, over the descriptor table.    *)
(*                                                                         *)
(* Each object is used by one thread.  A method is cut at its system       *)
(* calls, because between two of them other objects and the rest of the    *)
(* process may use the descriptor table; an action is one system call with *)
(* the code that runs on its result, and pc[o] says which call is next.    *)
(*                                                                         *)
(* Of an open socket the kernel keeps here what the methods depend on:     *)
(* whether it is bound, its O_NONBLOCK flag and how many datagrams wait.   *)
(***************************************************************************)
EXTENDS DescriptorTable

CONSTANT MaxQueue   \* bound on the datagrams that wait in one socket

ASSUME QueueAssumption == MaxQueue \in Nat

VARIABLES
    bound,     \* the descriptors bound to a port
    nonblock,  \* the descriptors with O_NONBLOCK set
    queue,     \* queue[f]: the number of datagrams that wait in f
    pc,        \* pc[o]: "idle", or the next system call of the method that runs
    ret,       \* ret[o]: how the last method of o ended, or "running"
    mode       \* history: "set" when setNonBlocking() succeeded on the socket o
               \* holds now, else "unset"

kernelVars == <<bound, nonblock, queue>>
vars == <<files, fd, staleKept, bound, nonblock, queue, pc, ret, mode>>

Calls   == {"idle", "socket", "closeAndThrow", "setfl", "send", "recv"}
Results == {"running", "returned", "zero", "threw", "openThrew", "bindThrew", "helperThrew"}

-----------------------------------------------------------------------------
Goto(o, call) ==
    /\ pc' = [pc EXCEPT ![o] = call]
    /\ ret' = [ret EXCEPT ![o] = "running"]

Return(o, result) ==
    /\ pc' = [pc EXCEPT ![o] = "idle"]
    /\ ret' = [ret EXCEPT ![o] = result]

(* A socket that is closed takes its state with it; a new one starts       *)
(* unbound, blocking and empty.                                            *)
PortsFollow ==
    /\ bound' = {f \in bound : files'[f] # Free}
    /\ queue' = [f \in Fds |-> IF files'[f] = Free THEN 0 ELSE queue[f]]

KernelFollows ==
    /\ nonblock' = {f \in nonblock : files'[f] # Free}
    /\ PortsFollow

-----------------------------------------------------------------------------
(* openUdpSocket(), first half: a number that is held is closed first, and *)
(* when that throws so does openUdpSocket().                               *)
OpenWithoutClosing(o) ==
    /\ pc[o] = "idle"
    /\ Goto(o, "socket")
    /\ UNCHANGED tableVars
    /\ KernelFollows
    /\ UNCHANGED mode

OpenUdpSocket(o) ==
    /\ pc[o] = "idle"
    /\ \/ isOpen(o)  /\ CloseOk(o)          /\ Goto(o, "socket")
       \/ isOpen(o)  /\ CloseThrows(o)      /\ Return(o, "openThrew")
       \/ ~isOpen(o) /\ UNCHANGED tableVars /\ Goto(o, "socket")
    /\ KernelFollows
    /\ UNCHANGED mode

(* openUdpSocket(), second half. *)
OpenSocket(o) ==
    /\ pc[o] = "socket"
    /\ \/ /\ SocketOk(o)
          /\ Return(o, "returned")
          /\ mode' = [mode EXCEPT ![o] = "unset"]
       \/ /\ SocketFails(o)
          /\ Return(o, "openThrew")
          /\ UNCHANGED mode
    /\ KernelFollows

CloseUdpSocket(o) ==
    /\ pc[o] = "idle"
    /\ \/ CloseOk(o)     /\ Return(o, "returned")
       \/ CloseThrows(o) /\ Return(o, "threw")
    /\ KernelFollows
    /\ UNCHANGED mode

(* ~CUdpSocket(), and a new object in its place. *)
Destroy(o) ==
    /\ pc[o] = "idle"
    /\ Destructor(o)
    /\ KernelFollows
    /\ mode' = [mode EXCEPT ![o] = "unset"]
    /\ ret' = [ret EXCEPT ![o] = "returned"]
    /\ UNCHANGED pc

-----------------------------------------------------------------------------
(* bind() fails when the number is not a socket or already bound, and for  *)
(* reasons of the system (port in use, no permission) at any time.         *)
Bind(o) ==
    /\ pc[o] = "idle"
    /\ \/ /\ IsLive(fd[o])
          /\ fd[o] \notin bound
          /\ bound' = bound \cup {fd[o]}
          /\ Return(o, "returned")
       \/ Goto(o, "closeAndThrow") /\ UNCHANGED bound
    /\ UNCHANGED <<tableVars, nonblock, queue, mode>>

(* closeAndThrowRuntimeException(): reached from a failed bind(), and      *)
(* public.  An exception of closeUdpSocket() is absorbed into the message, *)
(* which leaves fd as closeUdpSocket() left it.                            *)
ThrowWithoutClosing(o) ==
    /\ pc[o] \in {"idle", "closeAndThrow"}
    /\ UNCHANGED tableVars
    /\ Return(o, IF pc[o] = "idle" THEN "helperThrew" ELSE "bindThrew")
    /\ KernelFollows
    /\ UNCHANGED mode

CloseAndThrow(o) ==
    /\ pc[o] \in {"idle", "closeAndThrow"}
    /\ CloseOk(o) \/ CloseThrows(o)
    /\ Return(o, IF pc[o] = "idle" THEN "helperThrew" ELSE "bindThrew")
    /\ KernelFollows
    /\ UNCHANGED mode

-----------------------------------------------------------------------------
(* setNonBlocking(): F_GETFL, then F_SETFL with O_NONBLOCK added. *)
GetFl(o) ==
    /\ pc[o] = "idle"
    /\ \/ IsLive(fd[o]) /\ Goto(o, "setfl")
       \/ Return(o, "threw")
    /\ UNCHANGED <<tableVars, kernelVars, mode>>

SetFlWithoutFlag(o) ==
    /\ pc[o] = "setfl"
    /\ mode' = [mode EXCEPT ![o] = "set"]
    /\ Return(o, "returned")
    /\ UNCHANGED <<tableVars, kernelVars>>

SetFl(o) ==
    /\ pc[o] = "setfl"
    /\ \/ /\ IsLive(fd[o])
          /\ nonblock' = nonblock \cup {fd[o]}
          /\ mode' = [mode EXCEPT ![o] = "set"]
          /\ Return(o, "returned")
       \/ Return(o, "threw") /\ UNCHANGED <<nonblock, mode>>
    /\ UNCHANGED <<tableVars, bound, queue>>

-----------------------------------------------------------------------------
(* sendTo() and receiveFrom() issue their system call until its outcome is *)
(* not EINTR.  SendResult and ReceiveResult are the answers the kernel     *)
(* owes the call; SendError and ReceiveError are failures it may report    *)
(* instead, at any time.                                                   *)
CallSendTo(o) ==
    /\ pc[o] = "idle"
    /\ Goto(o, "send")
    /\ UNCHANGED <<tableVars, kernelVars, mode>>

(* EAGAIN: a non-blocking socket whose buffer is full, or a socket that is *)
(* not bound when no port is free.                                         *)
WouldBlock(f) == IsLive(f) /\ (f \in nonblock \/ f \notin bound)

(* A sendto() that succeeds binds a socket that was not bound; one that    *)
(* would block returns 0 and does nothing.                                 *)
SendResult(o) ==
    /\ pc[o] = "send"
    /\ \/ IsLive(fd[o]) /\ Return(o, "returned") /\ bound' = bound \cup {fd[o]}
       \/ WouldBlock(fd[o]) /\ Return(o, "zero") /\ UNCHANGED bound
       \/ ~IsLive(fd[o]) /\ Return(o, "threw") /\ UNCHANGED bound
    /\ UNCHANGED <<tableVars, nonblock, queue, mode>>

SendError(o) ==
    /\ pc[o] = "send"
    /\ Return(o, "threw")
    /\ UNCHANGED <<tableVars, kernelVars, mode>>

CallReceiveFrom(o) ==
    /\ pc[o] = "idle"
    /\ Goto(o, "recv")
    /\ UNCHANGED <<tableVars, kernelVars, mode>>

HasDatagram(f) == IsLive(f) /\ queue[f] > 0

(* EAGAIN taken for EINTR: the loop asks again. *)
ReceiveWithoutEagain(o) ==
    /\ pc[o] = "recv"
    /\ \/ /\ HasDatagram(fd[o])
          /\ queue' = [queue EXCEPT ![fd[o]] = @ - 1]
          /\ Return(o, "returned")
       \/ /\ ~IsLive(fd[o])
          /\ Return(o, "threw")
          /\ UNCHANGED queue
    /\ UNCHANGED <<tableVars, bound, nonblock, mode>>

ReceiveResult(o) ==
    /\ pc[o] = "recv"
    /\ \/ /\ HasDatagram(fd[o])
          /\ queue' = [queue EXCEPT ![fd[o]] = @ - 1]
          /\ Return(o, "returned")
       \/ /\ IsLive(fd[o]) /\ ~HasDatagram(fd[o]) /\ fd[o] \in nonblock
          /\ Return(o, "zero")
          /\ UNCHANGED queue
       \/ /\ ~IsLive(fd[o])
          /\ Return(o, "threw")
          /\ UNCHANGED queue
    /\ UNCHANGED <<tableVars, bound, nonblock, mode>>

ReceiveError(o) ==
    /\ pc[o] = "recv"
    /\ Return(o, "threw")
    /\ UNCHANGED <<tableVars, kernelVars, mode>>

(* EINTR: the do-while loop makes the same call once more. *)
Interrupted(o) == pc[o] \in {"send", "recv"} /\ UNCHANGED vars

-----------------------------------------------------------------------------
(* The environment: datagrams arrive at bound sockets, and the rest of the *)
(* process opens and closes descriptors.                                   *)
Deliver(f) == /\ queue[f] < MaxQueue
              /\ queue' = [queue EXCEPT ![f] = @ + 1]

Arrive ==
    /\ \E f \in bound : Deliver(f)
    /\ UNCHANGED <<tableVars, bound, nonblock, pc, ret, mode>>

RestOfProcess ==
    /\ ForeignOpen \/ ForeignClose
    /\ KernelFollows
    /\ UNCHANGED <<pc, ret, mode>>

-----------------------------------------------------------------------------
Init ==
    /\ TableInit
    /\ bound = {}
    /\ nonblock = {}
    /\ queue = [f \in Fds |-> 0]
    /\ pc = [o \in Objects |-> "idle"]
    /\ ret = [o \in Objects |-> "returned"]
    /\ mode = [o \in Objects |-> "unset"]

Method(o) ==
    \/ OpenUdpSocket(o)
    \/ OpenSocket(o)
    \/ CloseUdpSocket(o)
    \/ Destroy(o)
    \/ Bind(o)
    \/ CloseAndThrow(o)
    \/ GetFl(o)
    \/ SetFl(o)
    \/ CallSendTo(o)
    \/ SendResult(o)
    \/ SendError(o)
    \/ CallReceiveFrom(o)
    \/ ReceiveResult(o)
    \/ ReceiveError(o)
    \/ Interrupted(o)

Next ==
    \/ \E o \in Objects : Method(o)
    \/ Arrive
    \/ RestOfProcess

(* A method that was called goes on, and the kernel answers a system call  *)
(* when it can.  Calls, failures, signals and datagrams are never owed.    *)
Fairness ==
    \A o \in Objects : /\ WF_vars(OpenSocket(o))
                       /\ WF_vars(pc[o] # "idle" /\ CloseAndThrow(o))
                       /\ WF_vars(SetFl(o))
                       /\ WF_vars(SendResult(o))
                       /\ WF_vars(ReceiveResult(o))

Spec == Init /\ [][Next]_vars
FairSpec == Spec /\ Fairness

-----------------------------------------------------------------------------
TypeOK ==
    /\ TableTypeOK
    /\ bound \in SUBSET Fds
    /\ nonblock \in SUBSET Fds
    /\ queue \in [Fds -> 0 .. MaxQueue]
    /\ pc \in [Objects -> Calls]
    /\ ret \in [Objects -> Results]
    /\ mode \in [Objects -> {"unset", "set"}]

(* When openUdpSocket() or a method that ends in                           *)
(* closeAndThrowRuntimeException() throws, the object is closed, unless    *)
(* closeUdpSocket() itself threw on a released number.                     *)
FailureCloses ==
    \A o \in Objects :
        ret[o] \in {"openThrew", "bindThrew", "helperThrew"}
            => ~isOpen(o) \/ staleKept

(* A socket is non-blocking exactly when setNonBlocking() succeeded since  *)
(* the object acquired it: no other thread's reuse of numbers takes the    *)
(* flag away, and none is inherited, neither from the socket the object    *)
(* held before nor from whoever had the number before; after another       *)
(* openUdpSocket() the socket blocks.                                      *)
NonBlockingHolds ==
    staleKept \/ \A o \in Objects :
                     isOpen(o) => (fd[o] \in nonblock <=> mode[o] = "set")

(* Every method returns to its caller, whatever the other threads do; the  *)
(* only one that may wait for ever is receiveFrom() on a socket that was   *)
(* not made non-blocking.                                                  *)
MayWait(o) == pc[o] = "recv" /\ mode[o] # "set"
CallsReturn ==
    \A o \in Objects :
        (pc[o] # "idle" /\ ~MayWait(o)) ~> (pc[o] = "idle" \/ staleKept)

=============================================================================

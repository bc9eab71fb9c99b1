--------------------------- MODULE CUdpMulticastSender ---------------------------
(***************************************************************************)
(* CUdpMulticastSender: open() as the sequence of its system calls, send() *)
(* with its loop, and the inherited methods that change the socket under   *)
(* the destination, which the object keeps apart from it.                  *)
(*                                                                         *)
(* A group stands for a multicast address and its port.  The local port is *)
(* left out: it is one more reason for which bind() may fail.  Whether the *)
(* socket blocks is left out too: sendto() may answer EAGAIN.              *)
(***************************************************************************)
EXTENDS DescriptorTable

CONSTANTS
    Requests,  \* the arguments [group, iface] of open()
    Unset,     \* the content of a sockaddr_in that nobody initialised
    Default,   \* the kernel's choice of an interface
    None       \* no request

ASSUME SenderAssumption ==
    /\ None \notin Requests
    /\ \A r \in Requests : r.group # Unset /\ r.iface # Default

VARIABLES
    dest,     \* dest[o]: *multicastDestination
    local,    \* local[f]: the interface whose address f is bound to
    outIf,    \* outIf[f]: IP_MULTICAST_IF of f
    pc,       \* pc[o]: "idle", or the next system call of the method that runs
    asked,    \* asked[o]: the arguments of the open() that runs or ran last, None
              \* when openUdpSocket() was called since, or nothing yet
    ret,      \* ret[o]: how the last method of o ended, or "running"
    wire      \* the datagram that the last step sent, and what its sender asked
              \* for; or None

kernelVars == <<local, outIf>>
vars == <<tableVars, dest, kernelVars, pc, asked, ret, wire>>

Groups == {r.group : r \in Requests}
Ifaces == {r.iface : r \in Requests}

Calls   == {"idle", "socket", "bind", "multicastIf", "fail", "send"}
Results == {"new", "running", "returned", "zero", "opened", "threw", "openThrew"}

-----------------------------------------------------------------------------
(* Steps that send nothing. *)
Quiet == wire' = None

Goto(o, call) ==
    /\ pc' = [pc EXCEPT ![o] = call]
    /\ ret' = [ret EXCEPT ![o] = "running"]

Return(o, result) ==
    /\ pc' = [pc EXCEPT ![o] = "idle"]
    /\ ret' = [ret EXCEPT ![o] = result]

(* A socket that is closed takes its state with it. *)
KernelFollows ==
    /\ local' = [f \in Fds |-> IF files'[f] = Free THEN Default ELSE local[f]]
    /\ outIf' = [f \in Fds |-> IF files'[f] = Free THEN Default ELSE outIf[f]]

-----------------------------------------------------------------------------
(* open() of an object that is open, without openUdpSocket(). *)
BeginKeepingSocket(o, r) ==
    /\ pc[o] = "idle"
    /\ asked' = [asked EXCEPT ![o] = r]
    /\ Goto(o, IF isOpen(o) THEN "multicastIf" ELSE "socket")
    /\ UNCHANGED <<tableVars, dest, kernelVars>>
    /\ Quiet

(* The same, as if the object were never open. *)
BeginWithoutClosing(o, r) ==
    /\ pc[o] = "idle"
    /\ asked' = [asked EXCEPT ![o] = r]
    /\ Goto(o, "socket")
    /\ UNCHANGED <<tableVars, dest, kernelVars>>
    /\ Quiet

(* The close in openUdpSocket(), called by open() for a request, or by     *)
(* itself, without one: it is public in the base class.                    *)
Begin(o, r) ==
    /\ pc[o] = "idle"
    /\ asked' = [asked EXCEPT ![o] = r]
    /\ \/ isOpen(o)  /\ CloseOk(o)          /\ Goto(o, "socket")
       \/ isOpen(o)  /\ CloseThrows(o)      /\ Return(o, "openThrew")
       \/ ~isOpen(o) /\ UNCHANGED tableVars /\ Goto(o, "socket")
    /\ KernelFollows
    /\ UNCHANGED dest
    /\ Quiet

Open(o) == \E r \in Requests : Begin(o, r)

OpenUdpSocket(o) == Begin(o, None)

(* Its socket(). *)
Socket(o) ==
    /\ pc[o] = "socket"
    /\ \/ SocketOk(o) /\ IF asked[o] = None THEN Return(o, "returned")
                                             ELSE Goto(o, "bind")
       \/ SocketFails(o) /\ Return(o, "openThrew")
    /\ KernelFollows
    /\ UNCHANGED <<dest, asked>>
    /\ Quiet

(* bind(), and the destination is stored. *)
Bind(o) ==
    /\ pc[o] = "bind"
    /\ \/ /\ IsLive(fd[o])
          /\ local' = [local EXCEPT ![fd[o]] = asked[o].iface]
          /\ dest' = [dest EXCEPT ![o] = asked[o].group]
          /\ Goto(o, "multicastIf")
       \/ Goto(o, "fail") /\ UNCHANGED <<local, dest>>
    /\ UNCHANGED <<tableVars, outIf, asked>>
    /\ Quiet

(* setsockopt(IP_MULTICAST_IF). *)
SetMulticastIf(o) ==
    /\ pc[o] = "multicastIf"
    /\ \/ /\ IsLive(fd[o])
          /\ outIf' = [outIf EXCEPT ![fd[o]] = asked[o].iface]
          /\ Return(o, "opened")
       \/ Goto(o, "fail") /\ UNCHANGED outIf
    /\ UNCHANGED <<tableVars, dest, local, asked>>
    /\ Quiet

(* An error in bind() or setsockopt() that leaves the socket open. *)
FailWithoutClosing(o) ==
    /\ pc[o] = "fail"
    /\ Return(o, "openThrew")
    /\ UNCHANGED <<tableVars, dest, kernelVars, asked>>
    /\ Quiet

(* closeAndThrowRuntimeException(), from either call. *)
Fail(o) ==
    /\ pc[o] = "fail"
    /\ CloseOk(o) \/ CloseThrows(o)
    /\ Return(o, "openThrew")
    /\ KernelFollows
    /\ UNCHANGED <<dest, asked>>
    /\ Quiet

-----------------------------------------------------------------------------
CallSend(o) ==
    /\ pc[o] = "idle"
    /\ Goto(o, "send")
    /\ UNCHANGED <<tableVars, dest, kernelVars, asked>>
    /\ Quiet

(* sendto() to the stored destination: the datagram is sent, or it would   *)
(* block and send() returns 0, or there is an error.                       *)
Send(o) ==
    /\ pc[o] = "send"
    /\ \/ /\ IsLive(fd[o])
          /\ wire' = [asked |-> asked[o], group |-> dest[o],
                      iface |-> outIf[fd[o]], source |-> local[fd[o]]]
          /\ Return(o, "returned")
       \/ IsLive(fd[o]) /\ Return(o, "zero") /\ Quiet
       \/ Return(o, "threw") /\ Quiet
    /\ UNCHANGED <<tableVars, dest, kernelVars, asked>>

(* EINTR: the same call once more. *)
Interrupted(o) ==
    /\ pc[o] = "send"
    /\ UNCHANGED <<tableVars, dest, kernelVars, pc, asked, ret>>
    /\ Quiet

CloseUdpSocket(o) ==
    /\ pc[o] = "idle"
    /\ \/ CloseOk(o)     /\ Return(o, "returned")
       \/ CloseThrows(o) /\ Return(o, "threw")
    /\ KernelFollows
    /\ UNCHANGED <<dest, asked>>
    /\ Quiet

(* The destructor, and a new object in its place. *)
Renew(o) ==
    /\ dest' = [dest EXCEPT ![o] = Unset]
    /\ asked' = [asked EXCEPT ![o] = None]
    /\ ret' = [ret EXCEPT ![o] = "new"]

Destroy(o) ==
    /\ pc[o] = "idle"
    /\ ret[o] # "new"
    /\ \/ Destructor(o)
       \/ ~isOpen(o) /\ UNCHANGED tableVars
    /\ Renew(o)
    /\ KernelFollows
    /\ UNCHANGED pc
    /\ Quiet

RestOfProcess ==
    /\ ForeignOpen \/ ForeignClose
    /\ KernelFollows
    /\ UNCHANGED <<dest, pc, asked, ret>>
    /\ Quiet

-----------------------------------------------------------------------------
Init ==
    /\ TableInit
    /\ dest = [o \in Objects |-> Unset]
    /\ local = [f \in Fds |-> Default]
    /\ outIf = [f \in Fds |-> Default]
    /\ pc = [o \in Objects |-> "idle"]
    /\ ret = [o \in Objects |-> "new"]
    /\ asked = [o \in Objects |-> None]
    /\ wire = None

Method(o) ==
    \/ Open(o)
    \/ OpenUdpSocket(o)
    \/ Socket(o)
    \/ Bind(o)
    \/ SetMulticastIf(o)
    \/ Fail(o)
    \/ CallSend(o)
    \/ Send(o)
    \/ Interrupted(o)
    \/ CloseUdpSocket(o)
    \/ Destroy(o)

Next == (\E o \in Objects : Method(o)) \/ RestOfProcess

Spec == Init /\ [][Next]_vars

-----------------------------------------------------------------------------
TypeOK ==
    /\ TableTypeOK
    /\ dest \in [Objects -> Groups \cup {Unset}]
    /\ local \in [Fds -> Ifaces \cup {Default}]
    /\ outIf \in [Fds -> Ifaces \cup {Default}]
    /\ pc \in [Objects -> Calls]
    /\ ret \in [Objects -> Results]
    /\ asked \in [Objects -> Requests \cup {None}]
    /\ wire = None \/ wire \in [asked  : Requests \cup {None},
                                group  : Groups \cup {Unset},
                                iface  : Ifaces \cup {Default},
                                source : Ifaces \cup {Default}]

(* After open() was called, no datagram goes to another group, leaves by   *)
(* another interface or names another sender than that open() asked for:   *)
(* not when it failed half way over an earlier one, and not when the       *)
(* object was closed and its number reused.                                *)
SendsWhereAsked ==
    wire # None /\ wire.asked # None =>
        \/ staleKept
        \/ /\ wire.group = wire.asked.group
           /\ wire.iface = wire.asked.iface
           /\ wire.source = wire.asked.iface

(* An open() that throws leaves the object closed, unless the close itself *)
(* failed on a released number; one that returns leaves it open, bound and *)
(* with the destination and interface asked for (CUdpMulticastSender.h).   *)
OpenAllOrNothing ==
    \A o \in Objects :
        \/ staleKept
        \/ /\ ret[o] = "openThrew" => ~isOpen(o)
           /\ ret[o] = "opened" => /\ isOpen(o)
                                   /\ dest[o] = asked[o].group
                                   /\ outIf[fd[o]] = asked[o].iface
                                   /\ local[fd[o]] = asked[o].iface

-----------------------------------------------------------------------------
(* CUdpMulticastSender.h:62 "Send a message to the multi cast address.":   *)
(* a datagram goes to an address that somebody gave.                       *)
SendsToGroup == wire # None => wire.group # Unset
=============================================================================

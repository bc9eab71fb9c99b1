---------------------------------- MODULE Host ----------------------------------
(***************************************************************************)
(* A process that uses the whole library: sockets, receivers and senders   *)
(* over one descriptor table, a waiter that watches them, the interface    *)
(* lookup that open() of a receiver makes, and the network of the host     *)
(* between them.                                                           *)
(*                                                                         *)
(* The classes are the modules of this project.  A step of one object is   *)
(* a step of its class, and the kernel's part of every other class follows *)
(* the table: a number that is closed loses all that any class set on it.  *)
(* One thread uses all objects; datagrams arrive beside it.                *)
(***************************************************************************)
EXTENDS DescriptorTable, Sequences

CONSTANTS
    Sockets, Receivers, Senders,   \* the objects of the three classes
    Interfaces, PrivateRanges,     \* the host's interfaces, and what is private
    Subjects,                      \* addresses and networks that are looked up
    JoinRequests,                  \* the arguments [source, port, group] of receivers
    SendRequests,                  \* the arguments [group, iface, port] of senders
    SomePort,                      \* the port the kernel picks when none is asked for
    MaxQueue,                      \* bound on the datagrams that wait in one socket
    MaxWait,                       \* bound on how far ahead a moment is
    None, Unset, Default           \* as in CUdpMulticastSender

(* An object is of one class. *)
ASSUME HostAssumption ==
    /\ Objects = Sockets \cup Receivers \cup Senders
    /\ Sockets \cap Receivers = {} /\ Sockets \cap Senders = {} /\ Receivers \cap Senders = {}
    /\ \A e \in Interfaces : e.addr # Default
    /\ Len(PrivateRanges) \in Nat \ {0}
    /\ MaxQueue \in Nat /\ MaxWait \in Nat

VARIABLES
    \* of every socket, receiver and sender
    pc, ret, nonblock,
    \* of CUdpSocket
    bound, queue, mode,
    \* of CUdpMulticastReceiver; joinable is its bound
    config, joinable, members, inbox, todo, copying, last,
    \* of CUdpMulticastSender
    dest, local, outIf, asked, wire,
    \* of CFdWaiter; wpc is its pc
    watch, left, timeout, sets, sleep, wpc, result, polled, steady,
    \* of CInterfaces; ipc is its pc
    host, ipc, method, want, round, list, held, answer, outcome, always, seen,
    \* the datagrams under way, oldest first
    net

objectVars   == <<tableVars, pc, ret, nonblock>>
socketVars   == <<bound, queue, mode>>
receiverVars == <<config, joinable, members, inbox, todo, copying, last>>
senderVars   == <<dest, local, outIf, asked, wire>>
waiterVars   == <<watch, left, timeout, sets, sleep, wpc, result, polled, steady>>
lookupVars   == <<host, ipc, method, want, round, list, held, answer, outcome, always, seen>>
hostVars     == <<objectVars, socketVars, receiverVars, senderVars, waiterVars, lookupVars, net>>

-----------------------------------------------------------------------------
Any       == 0
AllBits   == 6     \* 2^AllBits is above every address
MaxInbox  == MaxQueue
Ifaces    == {e.addr : e \in {e \in Interfaces : e.family = "inet"}}
Ports     == {SomePort} \cup {r.port : r \in SendRequests}
Datagrams == [source : Ifaces, port : Ports, group : {r.group : r \in SendRequests}, size : {1}]

(* A socket can be read when something waits in it, and always written. *)
Readable(f) == IsLive(f) /\ (queue[f] > 0 \/ inbox[f] # <<>>)
Ready == {f \in Fds : Readable(f)} \X {"read"} \cup {f \in Fds : IsLive(f)} \X {"write"}

Sock == INSTANCE CUdpSocket
Rcv  == INSTANCE CUdpMulticastReceiver WITH bound <- joinable, Requests <- JoinRequests
Snd  == INSTANCE CUdpMulticastSender WITH Requests <- SendRequests
Wtr  == INSTANCE CFdWaiter WITH pc <- wpc, ready <- Ready
If   == INSTANCE CInterfaces WITH pc <- ipc

-----------------------------------------------------------------------------
(* What the other classes keep while an object of one class makes a step. *)
SocketsFollow ==
    /\ Sock!PortsFollow
    /\ mode' = [o \in Objects |-> IF fd'[o] = fd[o] THEN mode[o] ELSE "unset"]

ReceiversFollow == Rcv!PortsFollow /\ UNCHANGED <<config, todo, copying, last>>

SendersFollow == Snd!KernelFollows /\ Snd!Quiet /\ UNCHANGED <<dest, asked>>

OfSocket(Step) ==
    Step /\ ReceiversFollow /\ SendersFollow /\ UNCHANGED <<waiterVars, net>>

OfReceiver(Step) ==
    Step /\ SocketsFollow /\ SendersFollow /\ UNCHANGED <<waiterVars, net>>

OfSender(Step) ==
    /\ Step
    /\ SocketsFollow
    /\ nonblock' = {f \in nonblock : files'[f] # Free}
    /\ ReceiversFollow
    /\ UNCHANGED waiterVars

OfWaiter(Step) ==
    /\ UNCHANGED <<objectVars, socketVars, receiverVars, senderVars, lookupVars, net>>
    /\ Step

OfLookup(Step) ==
    Step /\ UNCHANGED <<objectVars, socketVars, receiverVars, senderVars, waiterVars, net>>

-----------------------------------------------------------------------------
(* open() of a receiver in the middle: CInterfaces(proxy) looks for the    *)
(* interface of the source, or for all interfaces.                         *)
LookUp(o) ==
    /\ pc[o] = "list"
    /\ ipc = "idle"
    /\ OfLookup(IF config[o].source = Any
                THEN If!getIpV4InterfaceAddresses([addr |-> Any, bits |-> AllBits])
                ELSE If!retrieveInterfaceAdressFromAddress([addr |-> config[o].source, bits |-> 0]))

LookupReturns == If!SearchAll \/ If!SearchOne \/ If!SearchNone

(* Its result is what open() joins on. *)
UseLookup(o) ==
    /\ LookupReturns
    /\ OfReceiver(Rcv!ListInterfaces(o))
    /\ todo'[o].all = answer'

(* sendTo() towards the port that object to is bound to, None when nobody  *)
(* is.                                                                     *)
SendTo(o, to) ==
    /\ Sock!SendResult(o)
    /\ ReceiversFollow /\ SendersFollow /\ UNCHANGED waiterVars
    /\ net' = IF ret'[o] = "returned" /\ to # None THEN Append(net, [to |-> to]) ELSE net

(* getLocalPort() of a sender. *)
SenderPort(o) ==
    IF ~isOpen(o) \/ local[fd[o]] = Default THEN 0
    ELSE IF asked[o].port = 0 THEN SomePort ELSE asked[o].port

(* send() of a sender: the datagram goes to every receiver of the host. *)
Multicast(o) ==
    /\ OfSender(Snd!Send(o))
    /\ net' = IF wire' = None THEN net
              ELSE Append(net, [to |-> None, iface |-> wire'.iface,
                                datagram |-> [source |-> wire'.source, port |-> SenderPort(o),
                                              group |-> wire'.group, size |-> 1]])

(* The oldest datagram under way arrives, at one socket or at every socket *)
(* that accepts it; what finds no socket is lost.                          *)
Arrive ==
    /\ net # <<>>
    /\ net' = Tail(net)
    /\ LET d == Head(net)
       IN  IF d.to = None
           THEN Rcv!Deliver(d.datagram, d.iface) /\ UNCHANGED queue
           ELSE /\ UNCHANGED inbox
                /\ IF fd[d.to] \in bound THEN Sock!Deliver(fd[d.to]) ELSE UNCHANGED queue
    /\ UNCHANGED <<objectVars, bound, mode, config, joinable, members, todo, copying, last,
                   senderVars, watch, left, timeout, sets, sleep, wpc, result, polled, lookupVars>>
    /\ Wtr!SteadyFollows

-----------------------------------------------------------------------------
HostInit ==
    /\ TableInit
    /\ pc = [o \in Objects |-> "idle"]
    /\ ret = [o \in Objects |-> "new"]
    /\ nonblock = {}
    /\ bound = {} /\ queue = [f \in Fds |-> 0] /\ mode = [o \in Objects |-> "unset"]
    /\ config = [o \in Objects |-> Rcv!Fresh]
    /\ joinable = {} /\ members = [f \in Fds |-> {}] /\ inbox = [f \in Fds |-> <<>>]
    /\ todo = [o \in Objects |-> Rcv!Nothing] /\ copying = {} /\ last = [o \in Objects |-> None]
    /\ dest = [o \in Objects |-> Unset] /\ asked = [o \in Objects |-> None] /\ wire = None
    /\ local = [f \in Fds |-> Default] /\ outIf = [f \in Fds |-> Default]
    /\ watch = {} /\ left = Wtr!Past /\ timeout = 0 /\ sets = {} /\ sleep = 0
    /\ wpc = "idle" /\ result = "none" /\ polled = FALSE /\ steady = {}
    /\ host = Interfaces
    /\ ipc = "idle" /\ method = "none" /\ want = PrivateRanges[1] /\ round = 1
    /\ list = {} /\ held = 0 /\ answer = {} /\ outcome = "none" /\ always = {} /\ seen = {}
    /\ net = <<>>

HostTypeOK ==
    /\ TableTypeOK
    /\ nonblock \in SUBSET Fds /\ bound \in SUBSET Fds /\ joinable \in SUBSET Fds
    /\ queue \in [Fds -> 0 .. MaxQueue]
    /\ \A f \in Fds : inbox[f] \in Seq(Datagrams) /\ Len(inbox[f]) <= MaxInbox
    /\ \A o \in Sockets   : pc[o] \in Sock!Calls
    /\ \A o \in Receivers : pc[o] \in Rcv!Calls \cup {"setfl"}
    /\ \A o \in Senders   : pc[o] \in Snd!Calls \cup {"setfl"}
    /\ \A o \in Objects   : config[o] \in JoinRequests \cup {Rcv!Fresh}
    /\ Wtr!TypeOK
    /\ If!TypeOK
=============================================================================

------------------------- MODULE CUdpMulticastReceiver -------------------------
(***************************************************************************)
(* CUdpMulticastReceiver: open() as the sequence of its system calls, each *)
(* of which can fail, the copy constructor that runs open() inside a       *)
(* constructor, and receive() with its filter on the source address and    *)
(* port; over the descriptor table, and over the part of the kernel that   *)
(* decides which datagrams a socket gets.                                  *)
(*                                                                         *)
(* A datagram is a record [source, port, group, size]; all groups use the  *)
(* one port that every receiver binds.  Of setNonBlocking() and            *)
(* closeUdpSocket(), which the class inherits, an action is the whole      *)
(* call; the module CUdpSocket cuts them.                                  *)
(***************************************************************************)
EXTENDS DescriptorTable, Selection

CONSTANTS
    Any,        \* the address 0.0.0.0, INADDR_ANY
    Ifaces,     \* the network interfaces
    Datagrams,  \* what may be sent
    Requests,   \* the arguments [source, port, group] of open()
    MaxInbox,   \* bound on the datagrams that wait in one socket
    None        \* receive() returned no datagram yet

ASSUME ReceiverAssumption ==
    /\ MaxInbox \in Nat
    /\ \A d \in Datagrams : d.source # Any /\ d.group # Any /\ d.port \in Nat
    /\ \A r \in Requests : /\ r = [source |-> r.source, port |-> r.port, group |-> r.group]
                           /\ r.port \in Nat \cup {-1}
    /\ None \notin Datagrams

VARIABLES
    config,    \* config[o]: sourceIpAddress, sourcePortNumber and multicastIpAddress
    nonblock,  \* the descriptors with O_NONBLOCK set
    bound,     \* the descriptors bound to the multicast port
    members,   \* members[f]: the source memberships of f
    inbox,     \* inbox[f]: the datagrams that wait in f, oldest first
    pc,        \* pc[o]: "idle", or the next system call of the method that runs
    todo,      \* todo[o]: the local variable interfaces of open(), all and the rest to join
    copying,   \* the objects whose copy constructor runs
    ret,       \* ret[o]: how the last method of o ended, or "running"
    last       \* history: the datagram that receive() returned last since open()

kernelVars == <<nonblock, bound, members, inbox>>
vars == <<tableVars, config, kernelVars, pc, todo, copying, ret, last>>

Fresh   == [source |-> Any, port |-> 0, group |-> Any]
Nothing == [all |-> {}, rest |-> {}]

Calls   == {"idle", "socket", "reuse", "bind", "list", "join", "all", "fail", "unwind", "recv"}
Results == {"new", "running", "returned", "opened", "threw", "openThrew", "listThrew",
            "message", "zero"}

-----------------------------------------------------------------------------
Goto(o, call) ==
    /\ pc' = [pc EXCEPT ![o] = call]
    /\ ret' = [ret EXCEPT ![o] = "running"]

Return(o, result) ==
    /\ pc' = [pc EXCEPT ![o] = "idle"]
    /\ ret' = [ret EXCEPT ![o] = result]

(* open() throws; inside the copy constructor the destructor of the base   *)
(* class runs next.                                                        *)
Throw(o, result) == IF o \in copying THEN Goto(o, "unwind") ELSE Return(o, result)

(* The list is gone when open() throws; after an open() that returned it is *)
(* history, until the object is closed or opened again.                    *)
ListIsGone(o) == todo' = [todo EXCEPT ![o] = Nothing]

(* A socket that is closed takes its state with it. *)
PortsFollow ==
    /\ bound' = {f \in bound : files'[f] # Free}
    /\ members' = [f \in Fds |-> IF files'[f] = Free THEN {} ELSE members[f]]
    /\ inbox' = [f \in Fds |-> IF files'[f] = Free THEN <<>> ELSE inbox[f]]

KernelFollows ==
    /\ nonblock' = {f \in nonblock : files'[f] # Free}
    /\ PortsFollow

-----------------------------------------------------------------------------
(* open(): the arguments are stored first, then openUdpSocket() closes a   *)
(* socket that is open.                                                    *)
OpenOnOldSocket(o, request) ==
    /\ pc[o] = "idle"
    /\ config' = [config EXCEPT ![o] = request]
    /\ last' = [last EXCEPT ![o] = None]
    /\ Goto(o, IF isOpen(o) THEN "reuse" ELSE "socket")
    /\ ListIsGone(o)
    /\ UNCHANGED <<tableVars, kernelVars, copying>>

OpenWithoutClosing(o, request) ==
    /\ pc[o] = "idle"
    /\ config' = [config EXCEPT ![o] = request]
    /\ last' = [last EXCEPT ![o] = None]
    /\ Goto(o, "socket")
    /\ ListIsGone(o)
    /\ UNCHANGED <<tableVars, kernelVars, copying>>

Open(o, request) ==
    /\ pc[o] = "idle"
    /\ config' = [config EXCEPT ![o] = request]
    /\ last' = [last EXCEPT ![o] = None]
    /\ \/ isOpen(o)  /\ CloseOk(o)          /\ Goto(o, "socket")
       \/ isOpen(o)  /\ CloseThrows(o)      /\ Return(o, "openThrew")
       \/ ~isOpen(o) /\ UNCHANGED tableVars /\ Goto(o, "socket")
    /\ KernelFollows
    /\ ListIsGone(o)
    /\ UNCHANGED copying

(* The copy constructor, for an original that no method changes meanwhile: *)
(* it opens the copy as the original is opened, or copies the arguments.   *)
Copy(o, orig) ==
    /\ ret[o] = "new"
    /\ pc[orig] = "idle"
    /\ config' = [config EXCEPT ![o] = config[orig]]
    /\ \/ isOpen(orig)  /\ Goto(o, "socket")     /\ copying' = copying \cup {o}
       \/ ~isOpen(orig) /\ Return(o, "returned") /\ UNCHANGED copying
    /\ UNCHANGED <<tableVars, kernelVars, todo, last>>

-----------------------------------------------------------------------------
(* The system calls of open(), in their order. *)
Socket(o) ==
    /\ pc[o] = "socket"
    /\ \/ SocketOk(o)    /\ Goto(o, "reuse")
       \/ SocketFails(o) /\ Throw(o, "openThrew")
    /\ KernelFollows
    /\ UNCHANGED <<config, todo, copying, last>>

SetReuseAddr(o) ==
    /\ pc[o] = "reuse"
    /\ \/ IsLive(fd[o]) /\ Goto(o, "bind")
       \/ Goto(o, "fail")
    /\ UNCHANGED <<tableVars, config, kernelVars, todo, copying, last>>

Bind(o) ==
    /\ pc[o] = "bind"
    /\ \/ IsLive(fd[o]) /\ Goto(o, "list") /\ bound' = bound \cup {fd[o]}
       \/ Goto(o, "fail") /\ UNCHANGED bound
    /\ UNCHANGED <<tableVars, config, nonblock, members, inbox, todo, copying, last>>

(* getifaddrs(): every interface that is up for the source 0.0.0.0, else   *)
(* the one whose network the source is in (or the kernel's choice when     *)
(* there is none).  A failure throws past closeAndThrowRuntimeException(). *)
ListInterfaces(o) ==
    /\ pc[o] = "list"
    /\ \/ \E up \in SUBSET Ifaces :
             /\ config[o].source = Any \/ Cardinality(up) = 1
             /\ todo' = [todo EXCEPT ![o] = [all |-> up, rest |-> up]]
             /\ Goto(o, IF up = {} THEN "all" ELSE "join")
       \/ Throw(o, "listThrew") /\ UNCHANGED todo
    /\ UNCHANGED <<tableVars, config, kernelVars, copying, last>>

(* What IP_ADD_SOURCE_MEMBERSHIP is given for one interface. *)
Membership(o, i) == [group |-> config[o].group, source |-> config[o].source, iface |-> i]

JoinOn(o, i) ==
    /\ IsLive(fd[o])
    /\ members' = [members EXCEPT ![fd[o]] = @ \cup {Membership(o, i)}]
    /\ todo' = [todo EXCEPT ![o].rest = @ \ {i}]

(* The loop over the interfaces left after one. *)
JoinOne(o) ==
    /\ pc[o] = "join"
    /\ \E i \in todo[o].rest : JoinOn(o, i)
    /\ Goto(o, "all")
    /\ UNCHANGED <<tableVars, config, nonblock, bound, inbox, copying, last>>

(* One interface of the list; it fails when the interface went down since, *)
(* or the kernel has no room for one more membership.                      *)
Join(o) ==
    /\ pc[o] = "join"
    /\ \/ \E i \in todo[o].rest :
             /\ JoinOn(o, i)
             /\ Goto(o, IF todo[o].rest = {i} THEN "all" ELSE "join")
       \/ /\ Goto(o, "fail")
          /\ ListIsGone(o)
          /\ UNCHANGED members
    /\ UNCHANGED <<tableVars, config, nonblock, bound, inbox, copying, last>>

(* The option number of IP_MULTICAST_ALL, set at the level SOL_SOCKET      *)
(* instead of IPPROTO_IP: an option of the socket layer changes, which no  *)
(* datagram is affected by.                                                *)
SetMulticastAll(o) ==
    /\ pc[o] = "all"
    /\ \/ IsLive(fd[o]) /\ Return(o, "opened") /\ copying' = copying \ {o}
       \/ Goto(o, "fail") /\ UNCHANGED copying
    /\ UNCHANGED <<tableVars, config, kernelVars, todo, last>>

(* closeAndThrowRuntimeException(). *)
FailWithoutClosing(o) ==
    /\ pc[o] = "fail"
    /\ Throw(o, "openThrew")
    /\ ListIsGone(o)
    /\ UNCHANGED <<tableVars, config, kernelVars, copying, last>>

Fail(o) ==
    /\ pc[o] = "fail"
    /\ CloseOk(o) \/ CloseThrows(o)
    /\ Throw(o, "openThrew")
    /\ KernelFollows
    /\ ListIsGone(o)
    /\ UNCHANGED <<config, copying, last>>

(* The object is gone, and a newly constructed one takes its place. *)
Renew(o) ==
    /\ \/ Destructor(o)
       \/ ~isOpen(o) /\ UNCHANGED tableVars
    /\ KernelFollows
    /\ config' = [config EXCEPT ![o] = Fresh]
    /\ last' = [last EXCEPT ![o] = None]
    /\ copying' = copying \ {o}
    /\ Return(o, "new")
    /\ ListIsGone(o)

Destroy(o) == pc[o] = "idle" /\ ret[o] # "new" /\ Renew(o)

Unwind(o) == pc[o] = "unwind" /\ Renew(o)

-----------------------------------------------------------------------------
(* The inherited calls a user makes between open() and receive(). *)
SetNonBlocking(o) ==
    /\ pc[o] = "idle"
    /\ \/ IsLive(fd[o]) /\ nonblock' = nonblock \cup {fd[o]} /\ Return(o, "returned")
       \/ UNCHANGED nonblock /\ Return(o, "threw")
    /\ UNCHANGED <<tableVars, config, bound, members, inbox, todo, copying, last>>

CloseUdpSocket(o) ==
    /\ pc[o] = "idle"
    /\ \/ CloseOk(o)     /\ Return(o, "returned")
       \/ CloseThrows(o) /\ Return(o, "threw")
    /\ KernelFollows
    /\ ListIsGone(o)
    /\ UNCHANGED <<config, copying, last>>

-----------------------------------------------------------------------------
(* The port test of the outer loop left out. *)
WantedFromAnyPort(cfg, d) == cfg.source # Any => cfg.source = d.source

(* receive(): the three nested loops ask for a datagram until one comes    *)
(* from the source address and port that were asked for.                   *)
Wanted(cfg, d) ==
    /\ cfg.source # Any => cfg.source = d.source
    /\ cfg.port > 0 => cfg.port = d.port

CallReceive(o) ==
    /\ pc[o] = "idle"
    /\ Goto(o, "recv")
    /\ UNCHANGED <<tableVars, config, kernelVars, todo, copying, last>>

HasDatagram(f) == IsLive(f) /\ inbox[f] # <<>>

TakeFrom(f) == inbox' = [inbox EXCEPT ![f] = Tail(@)]

(* The datagram passes: it is returned, and its port fixed if it is to be. *)
ReceiveWithoutLatch(o) ==
    /\ pc[o] = "recv"
    /\ HasDatagram(fd[o])
    /\ LET d == Head(inbox[fd[o]])
       IN  /\ Wanted(config[o], d)
           /\ last' = [last EXCEPT ![o] = d]
           /\ Return(o, IF d.size = 0 THEN "zero" ELSE "message")
    /\ TakeFrom(fd[o])
    /\ UNCHANGED <<tableVars, config, nonblock, bound, members, todo, copying>>

Receive(o) ==
    /\ pc[o] = "recv"
    /\ HasDatagram(fd[o])
    /\ LET d == Head(inbox[fd[o]])
       IN  /\ Wanted(config[o], d)
           /\ config' = [config EXCEPT ![o].port = IF @ = -1 THEN d.port ELSE @]
           /\ last' = [last EXCEPT ![o] = d]
           /\ Return(o, IF d.size = 0 THEN "zero" ELSE "message")
    /\ TakeFrom(fd[o])
    /\ UNCHANGED <<tableVars, nonblock, bound, members, todo, copying>>

(* It does not pass: the loop asks again. *)
SkipPeeking(o) ==
    /\ pc[o] = "recv"
    /\ HasDatagram(fd[o])
    /\ ~Wanted(config[o], Head(inbox[fd[o]]))
    /\ UNCHANGED vars

Skip(o) ==
    /\ pc[o] = "recv"
    /\ HasDatagram(fd[o])
    /\ ~Wanted(config[o], Head(inbox[fd[o]]))
    /\ TakeFrom(fd[o])
    /\ UNCHANGED <<tableVars, config, nonblock, bound, members, pc, todo, copying, ret, last>>

(* EAGAIN taken for EINTR: the innermost loop asks again. *)
RetryOnEagain(o) ==
    /\ pc[o] = "recv"
    /\ ~IsLive(fd[o]) /\ Return(o, "threw")
    /\ UNCHANGED <<tableVars, config, kernelVars, todo, copying, last>>

(* EAGAIN on a non-blocking socket, and EBADF. *)
NothingThere(o) ==
    /\ pc[o] = "recv"
    /\ \/ fd[o] \in nonblock /\ inbox[fd[o]] = <<>> /\ Return(o, "zero")
       \/ ~IsLive(fd[o]) /\ Return(o, "threw")
    /\ UNCHANGED <<tableVars, config, kernelVars, todo, copying, last>>

(* Any other error, at any time. *)
ReceiveError(o) ==
    /\ pc[o] = "recv"
    /\ Return(o, "threw")
    /\ UNCHANGED <<tableVars, config, kernelVars, todo, copying, last>>

-----------------------------------------------------------------------------
(* The kernel's choice for a datagram of group d.group that arrives on     *)
(* interface i: a bound socket with memberships of this group on i gets it *)
(* if one names the sender; one without gets it as long as IP_MULTICAST_ALL*)
(* of the socket is set, which it is from the beginning.                   *)
MulticastAll == TRUE

Accepts(f, d, i) ==
    LET joined == {m \in members[f] : m.group = d.group /\ m.iface = i}
    IN  /\ f \in bound
        /\ IF joined = {} THEN MulticastAll ELSE \E m \in joined : m.source = d.source

(* Every accepting socket gets its copy, unless its buffer is full. *)
Deliver(d, i) ==
    inbox' = [f \in Fds |-> IF Accepts(f, d, i) /\ Len(inbox[f]) < MaxInbox
                            THEN Append(inbox[f], d)
                            ELSE inbox[f]]

Arrive ==
    /\ \E d \in Datagrams, i \in Ifaces : Deliver(d, i)
    /\ UNCHANGED <<tableVars, config, nonblock, bound, members, pc, todo, copying, ret, last>>

RestOfProcess ==
    /\ ForeignOpen \/ ForeignClose
    /\ KernelFollows
    /\ UNCHANGED <<config, pc, todo, copying, ret, last>>

-----------------------------------------------------------------------------
Init ==
    /\ TableInit
    /\ config = [o \in Objects |-> Fresh]
    /\ nonblock = {}
    /\ bound = {}
    /\ members = [f \in Fds |-> {}]
    /\ inbox = [f \in Fds |-> <<>>]
    /\ pc = [o \in Objects |-> "idle"]
    /\ todo = [o \in Objects |-> Nothing]
    /\ copying = {}
    /\ ret = [o \in Objects |-> "new"]
    /\ last = [o \in Objects |-> None]

Method(o) ==
    \/ \E request \in Requests : Open(o, request)
    \/ \E orig \in Objects \ {o} : Copy(o, orig)
    \/ Socket(o)
    \/ SetReuseAddr(o)
    \/ Bind(o)
    \/ ListInterfaces(o)
    \/ Join(o)
    \/ SetMulticastAll(o)
    \/ Fail(o)
    \/ Unwind(o)
    \/ Destroy(o)
    \/ SetNonBlocking(o)
    \/ CloseUdpSocket(o)
    \/ CallReceive(o)
    \/ Receive(o)
    \/ Skip(o)
    \/ NothingThere(o)
    \/ ReceiveError(o)

Next ==
    \/ \E o \in Objects : Method(o)
    \/ Arrive
    \/ RestOfProcess

Spec == Init /\ [][Next]_vars

(* The kernel answers a recvfrom() that it can answer. *)
Fairness == \A o \in Objects : WF_vars(Receive(o) \/ Skip(o) \/ NothingThere(o))

FairSpec == Spec /\ Fairness

-----------------------------------------------------------------------------
Addresses == {Any} \cup {d.source : d \in Datagrams} \cup {r.source : r \in Requests}
Groups    == {Any} \cup {r.group : r \in Requests}
Lists     == [all : SUBSET Ifaces, rest : SUBSET Ifaces]
PortArgs  == {-1, 0} \cup {d.port : d \in Datagrams} \cup {r.port : r \in Requests}

TypeOK ==
    /\ TableTypeOK
    /\ config \in [Objects -> [source : Addresses, port : PortArgs, group : Groups]]
    /\ nonblock \in SUBSET Fds
    /\ bound \in SUBSET Fds
    /\ members \in [Fds -> SUBSET [group : Groups, source : Addresses, iface : Ifaces]]
    /\ inbox \in [Fds -> Seq(Datagrams)]
    /\ \A f \in Fds : Len(inbox[f]) <= MaxInbox
    /\ pc \in [Objects -> Calls]
    /\ todo \in [Objects -> Lists]
    /\ copying \in SUBSET Objects
    /\ ret \in [Objects -> Results]
    /\ last \in [Objects -> Datagrams \cup {None}]

(* An open() that throws leaves the object closed, unless a close error or *)
(* a failure of getifaddrs() came between.                                 *)
OpenFailureCloses ==
    \A o \in Objects : ret[o] = "openThrew" => ~isOpen(o) \/ staleKept

(* What the getters answer is what the kernel was asked for: the socket an *)
(* object holds has no membership but in the group and for the source that *)
(* the object holds, even when open() is called again or fails half way.   *)
ConfigIsSubscription ==
    staleKept \/ \A o \in Objects : isOpen(o) =>
        \A m \in members[fd[o]] :
            m.group = config[o].group /\ m.source = config[o].source

(* A finished open() means a socket that is bound and that has a           *)
(* membership on each interface of the list, and no other: none is left    *)
(* out, and none is there from before.                                     *)
OpenedIsJoined ==
    \A o \in Objects : ret[o] = "opened" =>
        \/ staleKept
        \/ /\ fd[o] \in bound
           /\ members[fd[o]] = {Membership(o, i) : i \in todo[o].all}

(* open() and receive() together are the queue of Subscription: filtering  *)
(* at the moment of receive(), one datagram at a time and with the port    *)
(* fixed on the way, shows the user the same as a filter before the queue. *)
Waiting(o) ==
    IF isOpen(o) /\ fd[o] \in Fds /\ ~staleKept
    THEN Select(inbox[fd[o]], {d \in Datagrams : Wanted(config[o], d)})
    ELSE <<>>

Promise == INSTANCE Subscription WITH
    Filters <- [source : Addresses, port : PortArgs],
    filter  <- [o \in Objects |-> [source |-> config[o].source, port |-> config[o].port]],
    pending <- [o \in Objects |-> Waiting(o)],
    broken  <- staleKept
Subscribes == Promise!Spec

(* A datagram that is wanted is returned, however many unwanted ones       *)
(* arrive: they are behind it in the queue.                                *)
WantedIsReturned ==
    \A o \in Objects :
        (pc[o] = "recv" /\ Waiting(o) # <<>>) ~> (pc[o] = "idle" \/ staleKept)

(* A non-blocking receive() returns, unless datagrams never stop arriving. *)
NonBlockingReturns ==
    \A o \in Objects :
        []<><<Arrive>>_vars \/ ((pc[o] = "recv" /\ fd[o] \in nonblock)
                                   ~> (pc[o] = "idle" \/ staleKept))

-----------------------------------------------------------------------------
(* What the repository says of the receiver, and the code does not keep.   *)

(* testCUdpMulticastReceiver.cpp: after an open() that throws, isOpen() is *)
(* false.                                                                  *)
ThrowingOpenCloses ==
    \A o \in Objects :
        ret[o] \in {"openThrew", "listThrew"} /\ ~staleKept => ~isOpen(o)

(* CUdpMulticastReceiver.h:53 "providing the any address ... will let you  *)
(* receive messages from all senders".                                     *)
AnySender ==
    \A o \in Objects : ret[o] = "opened" /\ config[o].source = Any /\ ~staleKept =>
        \A d \in Datagrams, m \in members[fd[o]] :
            d.group = m.group => Accepts(fd[o], d, m.iface)

(* CUdpMulticastReceiver.cpp:133 "set receive multicast all to 0": once    *)
(* open() returned, no datagram of a group the receiver did not open.      *)
OnlyOwnGroup ==
    \A o \in Objects : ret[o] = "opened" /\ ~staleKept /\ members[fd[o]] # {} =>
        \A d \in Datagrams, i \in Ifaces :
            Accepts(fd[o], d, i) => d.group = config[o].group
=============================================================================

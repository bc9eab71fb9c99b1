-------------------------------- MODULE UnitTests --------------------------------
(***************************************************************************)
(* The unit tests of src/socketLib/UnitTest, run against the models: what  *)
(* the tests assert of the classes must hold of their modules, composed in *)
(* Host, for every order in which datagrams arrive and time goes on.       *)
(*                                                                         *)
(* A test is a sequence of lines; a line calls a method of an object, and  *)
(* the assertions that follow in the test are facts that must then hold.   *)
(* A test proxy injects a fault into one system call of a line, or signals *)
(* into its first calls, and counts calls; all else the system grants.     *)
(* Left out: addresses and messages as text, and the clock, of which the   *)
(* module CFdWaiter says more.                                             *)
(***************************************************************************)
EXTENDS Host

(* A line is about an object, or about one of these. *)
ASSUME LineAssumption == {"test", "waiter", "lookup"} \cap Objects = {}

VARIABLES
    test,      \* the name of the test that runs
    at,        \* its present line
    signals,   \* how many more calls of this line the proxy answers with EINTR
    calls      \* how often the proxy was called since it was set

vars == <<hostVars, test, at, signals, calls>>

-----------------------------------------------------------------------------
(* Lines. *)
Does(object, call, arg) ==
    [object |-> object, call |-> call, arg |-> arg, fault |-> None, signals |-> 0,
     then |-> {<<"threw", object, FALSE>>}]

Do(object, call)        == Does(object, call, None)
Throws(line)            == [line EXCEPT !.then = {<<"threw", line.object, TRUE>>}]
Faulty(line, call)      == [Throws(line) EXCEPT !.fault = call]
WouldBlock(line)        == [line EXCEPT !.fault = "EAGAIN"]
Interrupted(line, n)    == [line EXCEPT !.signals = n]
Then(line, facts)       == [line EXCEPT !.then = @ \cup facts]
Check(facts)            == Then(Do("test", "check"), facts)
NewProxy                == Do("test", "setSocketProxy")
Sleep                   == Do("test", "nanosleep")
Watch(call, o, dir)     == Does("waiter", call, <<o, dir>>)
WaitUntil(moment)       == Does("waiter", "waitUntil", moment)
LookFor(call, subject)  == Does("lookup", call, subject)

(* Facts. *)
Opened(o)         == <<"open", o, TRUE>>
Closed(o)         == <<"open", o, FALSE>>
Called(call, n)   == <<"calls", call, n>>
Returned(o, r)    == <<"ret", o, r>>
HasPort(o, yes)   == <<"port", o, yes>>
SendsFrom(o, p)   == <<"senderPort", o, p>>
Opens(o, r)       == <<"config", o, r>>
Watched(dir, n)   == <<"watched", dir, n>>
Waited(r)         == <<"ret", "waiter", r>>
Found(addresses)  == <<"found", "lookup", addresses>>

Network(a, b)      == [addr |-> a, bits |-> b]
Joins(s, p, g)     == [source |-> s, port |-> p, group |-> g]
Sends(g, i, p)     == [group |-> g, iface |-> i, port |-> p]
Loopback == 17     \* 127.0.0.1 in 127.0.0.0/8
Private  == 33     \* an address of the second private network
Nowhere  == 49     \* an address of no interface
Group    == "225.1.1.1"
Milli    == 2      \* a millisecond ahead, in the units of CFdWaiter
ByLoopback(p) == Joins(Loopback, p, Group)

-----------------------------------------------------------------------------
(* testCUdpSocket *)
testCloseUdpSocket == <<
    Throws(Do("a", "closeUdpSocket")),
    Then(Do("a", "openUdpSocket"), {Opened("a")}),
    Then(Do("a", "closeUdpSocket"), {Closed("a")}) >>

testOpenUdpSocket == <<
    NewProxy,
    Then(Do("a", "openUdpSocket"), {Opened("a"), Called("close", 0)}),
    Then(Do("a", "openUdpSocket"), {Opened("a"), Called("close", 1)}),
    NewProxy,
    Then(Faulty(Do("a", "openUdpSocket"), "socket"), {Closed("a")}) >>

testSetNonBlocking == <<
    Throws(Do("a", "setNonBlocking")),
    Do("a", "openUdpSocket"),
    Do("a", "setNonBlocking"),
    NewProxy,
    Then(Faulty(Do("a", "setNonBlocking"), "setfl"), {Called("fcntl", 2)}) >>

testCloseAndThrowRuntimeException == << NewProxy, Throws(Do("a", "closeAndThrow")) >>

tstBindDataDriven == <<
    NewProxy,
    Do("a", "openUdpSocket"),
    Then(Do("a", "bind"), {HasPort("a", TRUE)}),
    Do("a", "destroy") >>

testBind == tstBindDataDriven \o tstBindDataDriven \o tstBindDataDriven \o tstBindDataDriven

testBindException == <<
    NewProxy,
    Do("a", "openUdpSocket"),
    Then(Faulty(Do("a", "bind"), "bind"), {Closed("a")}) >>

testSendTo == <<
    Do("b", "openUdpSocket"), Do("b", "bind"), Do("b", "setNonBlocking"),
    Do("a", "openUdpSocket"), Do("a", "bind"),
    Does("a", "sendTo", "b"),
    Sleep,
    Then(Do("b", "receiveFrom"), {Returned("b", "returned")}) >>

testSendToThrow == << Throws(Do("a", "setNonBlocking")) >>

testSendToInterrupted == <<
    NewProxy,
    Do("a", "openUdpSocket"),
    Then(Interrupted(Do("a", "sendTo"), 3), {Returned("a", "returned"), Called("sendto", 4)}) >>

testSendToWouldBlock == <<
    NewProxy,
    Do("a", "openUdpSocket"),
    Then(WouldBlock(Do("a", "sendTo")), {Returned("a", "zero")}),
    Then(WouldBlock(Do("a", "sendTo")), {Returned("a", "zero")}) >>

testReceiveFromThrow == << Throws(Do("a", "receiveFrom")) >>

testReceiveFromInterrupted == <<
    NewProxy,
    Do("a", "openUdpSocket"), Do("a", "setNonBlocking"), Do("a", "bind"),
    Then(Interrupted(Do("a", "receiveFrom"), 3), {Returned("a", "zero"), Called("recvfrom", 4)}) >>

-----------------------------------------------------------------------------
(* testCUdpMulticastSender *)
testSenderConstructor == << Check({Closed("s"), SendsFrom("s", 0)}) >>

testSenderDestructor == <<
    NewProxy, Check({Called("close", 0)}),
    Does("s", "openSender", Sends(Group, Loopback, 0)),
    Then(Do("s", "destroy"), {Called("close", 1)}) >>

testSenderOpen == <<
    Then(Does("s", "openSender", Sends(Group, Loopback, 0)), {Opened("s"), SendsFrom("s", SomePort)}),
    Do("s", "destroy"),
    Then(Does("s", "openSender", Sends(Group, Loopback, 7001)), {Opened("s"), SendsFrom("s", 7001)}) >>

testSenderOpenThrow == <<
    Then(Throws(Does("s", "openSender", Sends(Group, Nowhere, 7001))), {Closed("s")}),
    NewProxy,
    Then(Faulty(Does("s", "openSender", Sends(Group, Loopback, 7001)), "multicastIf"), {Closed("s")}) >>

tstSendDataDriven(iface, port, other) == <<
    Does("s", "openSender", Sends(Group, iface, port)),
    Does("r", "openReceiver", Joins(iface, port, Group)),
    Does("q", "openReceiver", Joins(other, port, Group)),
    Do("r", "setNonBlocking"),
    Do("q", "setNonBlocking"),
    Then(Do("s", "send"), {Returned("s", "returned")}),
    Watch("add", "r", "read"),
    Then(WaitUntil(Milli), {Waited("ready")}),
    Then(Do("r", "receive"), {Returned("r", "message")}),
    Watch("del", "r", "read"),
    Do("q", "destroy"), Do("r", "destroy"), Do("s", "destroy") >>

testSend ==
    <<LookFor("private", None)>>
    \o tstSendDataDriven(Private, 0, Loopback) \o tstSendDataDriven(Loopback, 0, Private)
    \o tstSendDataDriven(Private, 7001, Loopback) \o tstSendDataDriven(Loopback, 7001, Private)

testSendThrow == << Throws(Do("s", "send")) >>

testSendInterrupted == <<
    NewProxy,
    Does("s", "openSender", Sends(Group, Loopback, 7001)),
    Then(Interrupted(Do("s", "send"), 3), {Returned("s", "returned"), Called("sendto", 4)}) >>

testSendWouldBlock == <<
    NewProxy,
    Does("s", "openSender", Sends(Group, Loopback, 7001)),
    Then(WouldBlock(Do("s", "send")), {Returned("s", "zero"), Called("sendto", 1)}),
    Then(WouldBlock(Do("s", "send")), {Returned("s", "zero"), Called("sendto", 2)}) >>

-----------------------------------------------------------------------------
(* testCUdpMulticastReceiver *)
testReceiverConstructor == << Check({Closed("r"), Opens("r", Rcv!Fresh)}) >>

tstCopyConstructorDataDriven(open, request) == <<
    Then(Does("q", "copy", "r"), {<<"open", "q", open>>, <<"open", "r", open>>,
                                  Opens("q", request), Opens("r", request)}),
    Do("q", "destroy") >>

testCopyConstructor ==
    tstCopyConstructorDataDriven(FALSE, Rcv!Fresh)
    \o <<Does("r", "openReceiver", ByLoopback(1273))>>
    \o tstCopyConstructorDataDriven(TRUE, ByLoopback(1273))

testReceiverDestructor == <<
    NewProxy, Check({Called("close", 0)}),
    Does("r", "openReceiver", ByLoopback(0)),
    Then(Do("r", "destroy"), {Called("close", 1)}) >>

testReceiverOpen == <<
    NewProxy,
    Then(Does("r", "openReceiver", ByLoopback(0)),
         {Opened("r"), Called("getifaddrs", 1), Called("freeifaddrs", 1), HasPort("r", TRUE)}) >>

tstOpenThrowDataDriven(group, fault) == <<
    NewProxy,
    Then(Faulty(Does("r", "openReceiver", Joins(Loopback, 0, group)), fault), {Closed("r")}),
    Do("r", "destroy") >>

testReceiverOpenThrow ==
    tstOpenThrowDataDriven(Group, "reuse")
    \o tstOpenThrowDataDriven("1.1.1.1", "join")
    \o tstOpenThrowDataDriven(Group, "all")

testReceiveThrow == <<
    Does("r", "openReceiver", ByLoopback(0)),
    Do("r", "setNonBlocking"),
    NewProxy,
    Faulty(Do("r", "receive"), "recv") >>

testGetSourcePortNumber == <<
    Check({Opens("r", Rcv!Fresh)}),
    Then(Does("r", "openReceiver", ByLoopback(1273)), {Opens("r", ByLoopback(1273))}) >>

-----------------------------------------------------------------------------
(* testCFdWaiter *)
testAddFileDescriptor(dir) == <<
    Check({Watched(dir, 0)}),
    Then(Watch("add", "a", dir), {Watched(dir, 1)}),
    Then(Watch("add", "a", dir), {Watched(dir, 1)}),
    Then(Watch("add", "b", dir), {Watched(dir, 2)}),
    Then(Watch("add", "b", dir), {Watched(dir, 2)}) >>

testDelFileDescriptor(dir) == <<
    Then(Watch("del", "a", dir), {Watched(dir, 0)}),
    Watch("add", "a", dir),
    Then(Watch("add", "b", dir), {Watched(dir, 2)}),
    Then(Watch("del", "c", dir), {Watched(dir, 2)}),
    Then(Watch("del", "a", dir), {Watched(dir, 1)}),
    Then(Watch("del", "a", dir), {Watched(dir, 1)}),
    Then(Watch("del", "b", dir), {Watched(dir, 0)}) >>

testAddReadFileDescriptor  == testAddFileDescriptor("read")
testDelReadFileDescriptor  == testDelFileDescriptor("read")
testAddWriteFileDescriptor == testAddFileDescriptor("write")
testDelWriteFileDescriptor == testDelFileDescriptor("write")

testWaitUntil == <<
    Then(WaitUntil(Milli), {Waited("passed")}),
    Watch("add", "b", "read"),
    Then(WaitUntil(Milli), {Waited("passed")}),
    Do("b", "openUdpSocket"), Do("b", "bind"),
    Then(WaitUntil(Milli), {Waited("passed")}),
    Watch("add", "a", "write"),
    Then(WaitUntil(Milli), {Waited("passed")}),
    Do("a", "openUdpSocket"),
    Then(WaitUntil(Milli), {Waited("ready")}),
    Watch("del", "a", "write"),
    Then(WaitUntil(Milli), {Waited("passed")}),
    Then(Does("a", "sendTo", "b"), {Returned("a", "returned")}),
    Then(WaitUntil(Milli), {Waited("ready")}) >>

testWaitUntilInterrupted == <<
    NewProxy,
    Then(Interrupted(WaitUntil(Milli), 5), {Waited("passed"), Called("pselect", 6)}) >>

testWaitUntilThrows == << NewProxy, Faulty(WaitUntil(Milli), "pselect") >>

-----------------------------------------------------------------------------
(* testCInterfaces *)
testRetrieveInterfaceAdressFromAddress == <<
    NewProxy,
    Then(LookFor("retrieve", Network(Loopback, 0)),
         {Found({Loopback}), Called("getifaddrs", 1), Called("freeifaddrs", 1)}),
    Then(LookFor("retrieve", Network(Nowhere, 0)),
         {Found({Any}), Called("getifaddrs", 2), Called("freeifaddrs", 2)}) >>

testRetrieveInterfaceAdressFromAddressThrow == <<
    NewProxy,
    Then(Faulty(LookFor("retrieve", Network(Loopback, 0)), "getifaddrs"),
         {Called("getifaddrs", 1), Called("freeifaddrs", 0)}) >>

testGetIpV4InterfaceAddresses == <<
    Then(LookFor("addresses", Network(Any, AllBits)), {Found({Loopback, Private})}),
    Then(LookFor("addresses", Network(Any, 0)), {Found({})}) >>

testGetIpV4InterfaceAddressesLocal == <<
    Then(LookFor("addresses", Network(16, 4)), {Found({Loopback})}) >>

testGetIpV4InterfaceAddressesPrivate == << LookFor("addresses", PrivateRanges[1]) >>

testGetAPrivateNetworkInterface == << Then(LookFor("private", None), {Found({Private})}) >>

Scripts == [
    closeUdpSocket |-> testCloseUdpSocket, openUdpSocket |-> testOpenUdpSocket,
    setNonBlocking |-> testSetNonBlocking, closeAndThrow |-> testCloseAndThrowRuntimeException,
    bind |-> testBind, bindException |-> testBindException,
    sendTo |-> testSendTo, sendToThrow |-> testSendToThrow,
    sendToInterrupted |-> testSendToInterrupted, sendToWouldBlock |-> testSendToWouldBlock,
    receiveFromThrow |-> testReceiveFromThrow,
    receiveFromInterrupted |-> testReceiveFromInterrupted,
    senderConstructor |-> testSenderConstructor, senderDestructor |-> testSenderDestructor,
    senderOpen |-> testSenderOpen, senderOpenThrow |-> testSenderOpenThrow,
    send |-> testSend, sendThrow |-> testSendThrow,
    sendInterrupted |-> testSendInterrupted, sendWouldBlock |-> testSendWouldBlock,
    receiverConstructor |-> testReceiverConstructor, copyConstructor |-> testCopyConstructor,
    receiverDestructor |-> testReceiverDestructor, receiverOpen |-> testReceiverOpen,
    receiverOpenThrow |-> testReceiverOpenThrow, receiveThrow |-> testReceiveThrow,
    getSourcePortNumber |-> testGetSourcePortNumber,
    addRead |-> testAddReadFileDescriptor, delRead |-> testDelReadFileDescriptor,
    addWrite |-> testAddWriteFileDescriptor, delWrite |-> testDelWriteFileDescriptor,
    waitUntil |-> testWaitUntil, waitUntilInterrupted |-> testWaitUntilInterrupted,
    waitUntilThrows |-> testWaitUntilThrows,
    retrieve |-> testRetrieveInterfaceAdressFromAddress,
    retrieveThrow |-> testRetrieveInterfaceAdressFromAddressThrow,
    addresses |-> testGetIpV4InterfaceAddresses,
    addressesLocal |-> testGetIpV4InterfaceAddressesLocal,
    addressesPrivate |-> testGetIpV4InterfaceAddressesPrivate,
    privateInterface |-> testGetAPrivateNetworkInterface ]

(* What the lines pass to the methods is what the constants list; no test  *)
(* leaves the source port to the first datagram, and what open() looks up  *)
(* is among the subjects of lookups.                                       *)
PassesOn(l) ==
    /\ l.signals \in Nat
    /\ l.call = "openReceiver" => /\ l.arg \in JoinRequests
                                  /\ l.arg = Joins(l.arg.source, l.arg.port, l.arg.group)
                                  /\ l.arg.port # -1
                                  /\ [addr |-> l.arg.source, bits |-> 0] \in Subjects
    /\ l.call = "openSender" => l.arg \in SendRequests /\ l.arg # None
    /\ l.call = "copy" => l.arg \in Receivers
    /\ l.call \in {"add", "del"} => l.arg \in Objects \X Wtr!Dirs
    /\ l.call = "waitUntil" => l.arg \in Wtr!Past .. MaxWait
    /\ l.call \in {"retrieve", "addresses"} => l.arg \in Subjects \cup If!Ranges

ASSUME ScriptAssumption ==
    /\ [addr |-> Any, bits |-> AllBits] \in Subjects
    /\ \A t \in DOMAIN Scripts :
           /\ Len(Scripts[t]) \in Nat
           /\ \A i \in 1 .. Len(Scripts[t]) : PassesOn(Scripts[t][i])

Script == Scripts[test]
Ended  == at > Len(Script)

(* The present line; after the last one the objects go out of scope. *)
line == IF Ended THEN Do("test", "end") ELSE Script[at]

Calls(o, name) == line.object = o /\ line.call = name
Leaves(o)        == Calls(o, "destroy") \/ (Ended /\ isOpen(o))

-----------------------------------------------------------------------------
(* The system call that the next step of object o makes: that of its pc,   *)
(* or the one its method begins with, or "none".                           *)
FirstCall == [closeUdpSocket |-> "close", setNonBlocking |-> "getfl", bind |-> "bind",
              closeAndThrow |-> "closeAndThrow"]
Releasing == {"openUdpSocket", "openReceiver", "openSender", "destroy", "end"}

Syscall(o) ==
    IF pc[o] # "idle" THEN pc[o]
    ELSE IF line.call \in Releasing /\ isOpen(o) THEN "close"
    ELSE IF line.call \in DOMAIN FirstCall THEN FirstCall[line.call]
    ELSE "none"

(* The proxy refuses the call it is to fail; the system refuses every call *)
(* on a number that stands for nothing, and bind() to an address of no     *)
(* interface.  No other call fails.                                        *)
OnSocket == {"close", "getfl", "setfl", "bind", "send", "recv", "reuse", "join", "all",
             "multicastIf"}
Failing  == {"fail", "closeAndThrow", "unwind"}
Errors   == {"threw", "openThrew", "bindThrew", "helperThrew"}

Refused(o) ==
    \/ Syscall(o) = line.fault
    \/ Syscall(o) \in OnSocket /\ ~IsLive(fd[o])
    \/ Syscall(o) = "bind" /\ o \in Senders /\ asked[o].iface \notin Ifaces

Granted(o) ==
    /\ staleKept' = staleKept
    /\ (ret'[o] \in Errors \/ pc'[o] \in Failing) <=> (Refused(o) \/ Syscall(o) \in Failing)
    /\ Syscall(o) = "send" => (ret'[o] = "zero" <=> line.fault = "EAGAIN")

(* CSocketTestProxy counts. *)
NoCalls == [close |-> 0, fcntl |-> 0, sendto |-> 0, recvfrom |-> 0, getifaddrs |-> 0,
            freeifaddrs |-> 0, pselect |-> 0]
Counts(call) ==
    CASE call \in {"close", "fail", "closeAndThrow"} -> {"close"}
      [] call \in {"getfl", "setfl"}     -> {"fcntl"}
      [] call = "send"                   -> {"sendto"}
      [] call = "recv"                   -> {"recvfrom"}
      [] OTHER                           -> {call} \cap DOMAIN calls
Counted(call) == calls' = [c \in DOMAIN calls |-> calls[c] + IF c \in Counts(call) THEN 1 ELSE 0]

(* EINTR, a number of times from the first call of the line on. *)
Signalled(beginning) ==
    signals' = IF beginning THEN line.signals ELSE IF signals > 0 THEN signals - 1 ELSE 0

(* The line is over when its method returns. *)
Advances(idle) == at' = IF idle /\ ~Ended THEN at + 1 ELSE at

-----------------------------------------------------------------------------
(* Methods that every object inherits. *)
InheritedStep(o) == OfSocket(
    \/ Calls(o, "setNonBlocking") /\ Sock!GetFl(o)
    \/ Sock!SetFl(o))

SocketStep(o) ==
    \/ OfSocket(\/ Calls(o, "openUdpSocket")  /\ Sock!OpenUdpSocket(o)
                \/ Calls(o, "closeUdpSocket") /\ Sock!CloseUdpSocket(o)
                \/ Calls(o, "closeAndThrow")  /\ Sock!CloseAndThrow(o)
                \/ Calls(o, "bind")           /\ Sock!Bind(o)
                \/ Calls(o, "sendTo")         /\ Sock!CallSendTo(o)
                \/ Calls(o, "receiveFrom")    /\ Sock!CallReceiveFrom(o)
                \/ Leaves(o)                  /\ Sock!Destroy(o)
                \/ Sock!OpenSocket(o)
                \/ pc[o] # "idle" /\ Sock!CloseAndThrow(o)
                \/ signals = 0 /\ Sock!ReceiveResult(o)
                \/ signals > 0 /\ Sock!Interrupted(o))
    \/ signals = 0 /\ SendTo(o, line.arg)

ReceiverStep(o) == OfReceiver(
    \/ Calls(o, "openReceiver") /\ Rcv!Open(o, line.arg)
    \/ Calls(o, "copy")         /\ Rcv!Copy(o, line.arg)
    \/ Calls(o, "receive")      /\ Rcv!CallReceive(o)
    \/ Leaves(o)                /\ Rcv!Destroy(o)
    \/ Rcv!Socket(o)
    \/ Rcv!SetReuseAddr(o)
    \/ Rcv!Bind(o)
    \/ Rcv!Join(o)
    \/ Rcv!SetMulticastAll(o)
    \/ Rcv!Fail(o)
    \/ Rcv!Receive(o)
    \/ Rcv!Skip(o)
    \/ Rcv!ReceiveError(o))

SenderStep(o) ==
    \/ /\ OfSender(\/ Calls(o, "openSender") /\ Snd!Begin(o, line.arg)
                   \/ Calls(o, "send")       /\ Snd!CallSend(o)
                   \/ Leaves(o)              /\ Snd!Destroy(o)
                   \/ Snd!Socket(o)
                   \/ Snd!Bind(o)
                   \/ Snd!SetMulticastIf(o)
                   \/ Snd!Fail(o)
                   \/ signals > 0 /\ Snd!Interrupted(o))
       /\ UNCHANGED net
    \/ signals = 0 /\ Multicast(o)

ObjectStep(o) ==
    /\ \/ InheritedStep(o)
       \/ o \in Sockets   /\ SocketStep(o)
       \/ o \in Receivers /\ ReceiverStep(o)
       \/ o \in Senders   /\ SenderStep(o)
    /\ Granted(o)
    /\ UNCHANGED <<lookupVars, test>>
    /\ Counted(Syscall(o))
    /\ Signalled(pc[o] = "idle")
    /\ Advances(pc'[o] = "idle")

-----------------------------------------------------------------------------
(* The waiter; time stands still while the proxy answers EINTR, and a      *)
(* millisecond is enough for a datagram to arrive.                         *)
WaiterStep ==
    /\ OfWaiter(
        \/ Calls("waiter", "add")       /\ Wtr!Add(line.arg[1], line.arg[2])
        \/ Calls("waiter", "del")       /\ Wtr!Del(line.arg[1], line.arg[2])
        \/ Calls("waiter", "waitUntil") /\ Wtr!WaitUntil(line.arg)
        \/ Wtr!MomentPassed
        \/ Wtr!Select
        \/ line.fault = "pselect" /\ Wtr!PselectFails
        \/ line.fault # "pselect" /\ Wtr!PselectSleeps
        \/ Wtr!DescriptorReady
        \/ signals = 0 /\ Wtr!TimeOver
        \/ signals > 0 /\ Wtr!Interrupted)
    /\ UNCHANGED test
    /\ Counted(wpc)
    /\ IF wpc \in {"idle", "asleep"} THEN Signalled(wpc = "idle") ELSE UNCHANGED signals
    /\ Advances(wpc' = "idle")

Tick ==
    /\ signals = 0
    /\ net = <<>>
    /\ OfWaiter(Wtr!Tick)
    /\ UNCHANGED <<test, at, signals, calls>>

-----------------------------------------------------------------------------
(* A lookup, of a test or of an open() that waits for it. *)
Listing == {o \in Receivers : pc[o] = "list"}

LookupStep ==
    /\ \/ OfLookup(
            \/ Calls("lookup", "retrieve")  /\ If!retrieveInterfaceAdressFromAddress(line.arg)
            \/ Calls("lookup", "addresses") /\ If!getIpV4InterfaceAddresses(line.arg)
            \/ Calls("lookup", "private")   /\ If!getAPrivateNetworkInterface
            \/ line.fault # "getifaddrs" /\ If!GetIfAddrs
            \/ line.fault = "getifaddrs" /\ If!GetIfAddrsFails
            \/ If!NextRange
            \/ Listing = {} /\ LookupReturns)
       \/ \E o \in Listing : LookUp(o)
       \/ \E o \in Listing : UseLookup(o)
    /\ UNCHANGED <<test, signals>>
    /\ Counted(CASE ipc = "get" -> "getifaddrs" [] ipc = "search" -> "freeifaddrs" [] OTHER -> "none")
    /\ Advances(line.object = "lookup" /\ ipc' = "idle")

(* What a test does itself. *)
TestStep ==
    /\ \/ Calls("test", "setSocketProxy") /\ calls' = NoCalls
       \/ Calls("test", "nanosleep") /\ net = <<>> /\ UNCHANGED calls
       \/ Calls("test", "check") /\ UNCHANGED calls
    /\ at' = at + 1
    /\ UNCHANGED <<hostVars, test, signals>>

-----------------------------------------------------------------------------
(* Some numbers are in use already, and three are free. *)
Init ==
    /\ HostInit
    /\ Cardinality(FreeFds) >= 3
    /\ test \in DOMAIN Scripts
    /\ at = 1
    /\ signals = 0
    /\ calls = NoCalls

Next ==
    \/ \E o \in Objects : ObjectStep(o)
    \/ WaiterStep
    \/ Tick
    \/ LookupStep
    \/ TestStep
    \/ Arrive /\ UNCHANGED <<test, at, signals, calls>>

Spec == Init /\ [][Next]_vars /\ WF_vars(Next)

-----------------------------------------------------------------------------
TypeOK ==
    /\ HostTypeOK
    /\ test \in DOMAIN Scripts
    /\ at \in 1 .. Len(Script) + 1
    /\ signals \in Nat
    /\ calls \in [DOMAIN NoCalls -> Nat]

(* What a test can ask of the objects: whether the last method threw, what *)
(* it returned, isOpen(), the getters, and the proxy's counters.           *)
Observed ==
    {<<"threw", o, ret[o] \in Errors>> : o \in Objects}
    \cup {<<"threw", "test", FALSE>>, <<"threw", "lookup", outcome = "threw">>,
          <<"threw", "waiter", result \in {"EBADF", "ENOMEM", "noClock"}>>,
          <<"ret", "waiter", result>>, <<"found", "lookup", answer>>}
    \cup {<<"ret", o, ret[o]>> : o \in Objects}
    \cup {<<"open", o, isOpen(o)>> : o \in Objects}
    \cup {<<"port", o, fd[o] \in bound \cup joinable>> : o \in Objects}
    \cup {<<"senderPort", o, SenderPort(o)>> : o \in Senders}
    \cup {<<"config", o, config[o]>> : o \in Receivers}
    \cup {<<"watched", dir, Cardinality({w \in watch : w[2] = dir})>> : dir \in Wtr!Dirs}
    \cup {<<"calls", c, calls[c]>> : c \in DOMAIN calls}

(* What the tests assert holds of the composed modules, when the line      *)
(* before the assertion is done, in every order of arrivals and time.  Not *)
(* among it are the texts of addresses and messages, and the comparisons   *)
(* with the clock (testCFdWaiter.cpp:145, 151, 158, 164, 170, 176, 186 and *)
(* 216).                                                                   *)
AssertionsHold == [][ at' # at => line.then \subseteq Observed' ]_vars

Finished == Ended /\ \A o \in Objects : ~isOpen(o)

(* Every test comes to its end: no wait, loop or lookup hangs. *)
TestsEnd == <>Finished

(* When the objects of a test are gone nothing they acquired is left: no   *)
(* descriptor, and no list of interfaces.                                  *)
NothingLeft ==
    Finished => /\ \A f \in Fds : files[f] \in {Free, Foreign}
                /\ held = 0
=============================================================================

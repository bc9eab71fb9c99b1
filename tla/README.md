# A verification of RMDGP's socketLib

RMDGP is a C++ library over UDP sockets with two small tools; the reliable
multicast protocol its README announces is not written yet. What exists is
`src/socketLib`: objects that own descriptors, open and configure sockets step
by step, filter multicast datagrams, and wait for descriptors until a moment.
This directory models that code in TLA+, checks the models with TLC and proves
the central ones with TLAPS.

## 1. The system

| Component | State | Operations | Interacts with |
|---|---|---|---|
| `CFileDescriptor` | `fd` (-1 when closed) | constructors, destructor (closes), `isOpen` | base of every socket |
| `CUdpSocket` | nothing of its own | `openUdpSocket`, `closeUdpSocket`, `bind`, `setNonBlocking`, `sendTo`, `receiveFrom`, `closeAndThrowRuntimeException` | kernel, through `CSocketProxy` |
| `CUdpMulticastReceiver` | source address and port, group address and port | `open`, copy constructor, `receive` | `CUdpSocket`, `CInterfaces`, kernel |
| `CUdpMulticastSender` | destination | `open`, `send` | `CUdpSocket` |
| `CFdWaiter` | sets of pointers to descriptors to read and write | `add…`, `del…`, `select`, `waitUntil` | every descriptor object, `CClock`, `CTime` |
| `CTime`, `CClock` | seconds and nanoseconds | arithmetic, comparison; the monotonic clock | `CFdWaiter` |
| `CInterfaces` | the list of interfaces that a lookup makes and frees | the interface of an address, those of a network, a private one | `CUdpMulticastReceiver`, the host's interfaces |
| the unit tests | the test proxy: a fault, signals to come, call counters | one script of calls and assertions per test | all classes |
| `CSocketProxy` | none | forwards each system call | everything |
| `CSocketAddress`, `mcr`, `mcs` | none | a constructor; two `main` functions | the classes above |

The library starts no thread and takes no lock: an object is for one thread at
a time. What threads share all the same is the process: its descriptor table,
in which `close` frees a number and the next `socket`, `open` or `accept` of
anybody takes it. Add to this that every system call can fail, that `close` on
Linux releases the number even when it reports an error, that signals interrupt
blocking calls, and that datagrams arrive between any two steps, and the
library has the behaviours that are hard to test:

- a descriptor that leaks, or a number that is used after it was released;
- an `open()` of eight or more calls that fails in the middle, in a constructor
  perhaps, and the failure of the clean-up itself;
- what an object says of itself (`isOpen()`, the getters, non-blocking) against
  what the kernel has;
- loops that ask again: on `EINTR`, on unwanted datagrams, on an early wake-up;
- filters that change while datagrams are queued (the port fixed by the first);
- a list of interfaces, a readiness or a remaining time that is old when used.

What makes each component correct, briefly: the descriptor classes never leak,
never lie about being open and never close what is not theirs; a method that
throws leaves the object closed; the receiver's getters describe the socket it
has, and `open()` with `receive()` is a queue of the wanted datagrams; the
sender reaches the destination it was opened for and nothing else; the waiter
returns in time, neither early nor late, and says why; time arithmetic agrees
with that of nanoseconds; a lookup frees every list it made, invents no address
and misses no interface that is up throughout; and put together in one process
the classes do what their unit tests assert, in every order of arrivals, ticks
and signals.

`PROJECT.json` lists all components with their status, and all hazards with the
line where each one bites and the properties that watch it.

## 2. The modules

| Module | What it is | Extends |
|---|---|---|
| `DescriptorTable` | `CFileDescriptor` and the open and close of `CUdpSocket` over the process's descriptor table; `TableSpec`, the ownership contract | |
| `CUdpSocket` | all state-changing methods of `CUdpSocket` | `DescriptorTable` |
| `Selection` | what a filter leaves of a queue | |
| `CUdpMulticastReceiver` | `open`, copy, `receive`, and the kernel's delivery decision | `DescriptorTable`, `Selection`; instance of `Subscription` |
| `CUdpMulticastSender` | `open`, `send`, and the inherited methods that change the socket | `DescriptorTable` |
| `MCSender`, `MCTime` | the small sets of requests, times and factors for TLC | the modules they are about |
| `CTime` | the operations on times, each turn of a loop a step | |
| `CFdWaiter` | `waitUntil` with `select`, the clock, signals and readiness | `DescriptorTable` |
| `Subscription` | the abstract queue that `open` and `receive` promise | `Selection` |
| `MCReceiver` | the small sets of datagrams and requests for TLC | `CUdpMulticastReceiver` |
| `CInterfaces` | the three lookups on a host whose interfaces change | |
| `MCInterfaces` | interfaces, networks and subjects for TLC | `CInterfaces` |
| `Host` | all classes in one process, with the network between them | `DescriptorTable`; instances of the five classes |
| `UnitTests` | the unit tests as scripts that drive `Host` | `Host` |
| `MCUnitTests` | the objects and interfaces of the tests | `UnitTests` |
| `DescriptorTableProofs`, `CUdpSocketProofs`, `CUdpMulticastReceiverProofs`, `CUdpMulticastSenderProofs`, `CFdWaiterProofs`, `CTimeProofs`, `CInterfacesProofs`, `UnitTestsProofs` | theorems | the modules they are about; those of the descriptor classes and of the composition also `DescriptorTableProofs` |

### DescriptorTable

`files[f]` is the kernel's table: who opened what number `f` stands for, or
`Free`. The owner `Foreign` stands for the rest of the process, which opens and
closes descriptors at any time (`ForeignOpen`, `ForeignClose`). `fd[o]` is the
member `fd`. Nothing relates the two but the code. `SocketOk` and `SocketFails`
store whatever `socket()` returned; `CloseOk` and `CloseThrows` are
`closeUdpSocket()`, with `fd = -1` only on success; `Destructor` closes whatever
number is held. `CloseThrows` has both reasons `close` can fail for: the number
stands for nothing (`EBADF`), or it was released and an error is reported
nevertheless. The latter is remembered in the history variable `staleKept`: from
then on an object holds a number that may become anybody's, and promises that
rest on ownership end, except that nothing leaks even then.

`TableSpec` is the contract: `socket()` is called only by an object that holds
no number. The detailed modules are shown to implement it.

### CUdpSocket

A method is cut at its system calls, since other threads run in between; `pc[o]`
names the call that comes next, `ret[o]` says how the last method ended.
`OpenUdpSocket`/`OpenSocket` are the two calls of `openUdpSocket()`,
`Bind`/`CloseAndThrow` a failing `bind()` (`CloseAndThrow` is also public),
`GetFl`/`SetFl` are `setNonBlocking()`, `CallSendTo`/`SendResult`/`SendError` and
`CallReceiveFrom`/`ReceiveResult`/`ReceiveError` the two transfers, whose `EINTR`
loop is `Interrupted`. `EAGAIN` makes both return 0 (`ret[o] = "zero"`). Of a
socket the kernel keeps what these methods depend on: bound or not (a `sendto`
binds too), `O_NONBLOCK`, the number of datagrams that wait. `mode[o]` is a
history variable: whether `setNonBlocking()` succeeded on the socket the object
holds now. A new socket and a destructor reset it; nothing else may turn the
flag on or off, so `NonBlockingHolds` is an equivalence.

### CUdpMulticastReceiver

`open()` is `Open` (arguments stored, old socket closed), `Socket`,
`SetReuseAddr`, `Bind`, `ListInterfaces`, one `Join` per interface and
`SetMulticastAll`; a call that fails goes to `Fail`
(`closeAndThrowRuntimeException`), except that a failing `getifaddrs()` throws
directly, as in the code. `Copy` is the copy constructor; when its `open()`
throws, `Unwind` is the destructor of the base class that C++ runs. `receive()`
is one action per `recvfrom()`: `Receive` for a datagram that passes the loops'
conditions (and may fix the port), `Skip` for one that does not, `NothingThere`
for `EAGAIN` and `EBADF`, `ReceiveError` for the rest. `todo` is the local list of
interfaces, whole and what is left of it; the whole list is kept after `open()`
returned, so that `OpenedIsJoined` can compare it with the memberships that the
kernel has for the socket.

The kernel is external code, modelled from how this code uses it. `Accepts` is
its decision for a datagram and a bound socket: with memberships of that group
on that interface one of them must name the sender; without any, the socket
gets the datagram while its `IP_MULTICAST_ALL` is on. It starts on, and setting
the option's number at level `SOL_SOCKET` changes another option
(`MulticastAll == TRUE`). Both were compared with a Linux 6 kernel.
All groups use one port, so a group stands for a group and its port.

`Subscription` is what the header promises a user: a queue of the datagrams that
pass the filter, taken in order, none twice, none left out; with port -1 the
first datagram fixes the port. The refinement maps that queue to the wanted part
of the kernel's buffer.

### CUdpMulticastSender

`open()` is `Begin` (`openUdpSocket()` closes a socket that is open), `Socket`,
`Bind` (and the destination is stored), `SetMulticastIf`; a call that fails goes
to `Fail`. `Begin` without a request is the inherited `openUdpSocket()` called by
itself, which the class leaves public. The destination, `dest`, is a member of
the object and survives its sockets; the interface, `outIf`, and the address it
is bound to, `local`, belong to the kernel's socket and die with it. `wire` is
the datagram that the last step sent, with what was asked of its sender, so that
`SendsWhereAsked` can compare the three. `Unset` is the destination of an object
that was never opened: the constructor allocates it and does not initialise it.

### CTime

`time` is the object, `ns` what it should be worth in nanoseconds, computed by
integer arithmetic. An operation does its assignments and enters its loop;
`Borrow` and `Carry` are the turns of `while(tv_nsec<0)` and
`while(tv_nsec>=nsecInSec)`, which `enforceNsecRange()`, the sums and the
differences share. `Multiply` has no loop and divides. An object may be its own
operand. `tv_sec` is not bounded to 64 bits. In `CFdWaiter` time is a count of
nanoseconds; this module is why that is faithful.

### CFdWaiter

`watch` is the pair of pointer sets. `WaitUntil` reads the clock, `Select` fills
the sets from the numbers the open objects have at that moment, `PselectSleeps`
and `PselectFails` are the entry of `pselect`, and it ends with `DescriptorReady`
or, by its time or a signal, with `NothingReady`, which computes the remaining
time anew. `ClockThrows` is `getMonotonicTime()` that throws, which `waitUntil`
passes on. Time is counted as what is left until the moment, so that the clock
needs no bound. Registered objects are opened, closed and removed by the thread
that waits, between its calls; the rest of the process, and objects that are not
registered, act at any time, so that a number that was given up may be anybody's
at the next call. `sets` is kept between calls, as the members `readFdSet` and
`writeFdSet` are. Two history variables: `polled`, whether this call reached the
kernel, and `steady`, what was ready from its beginning.

### CInterfaces

`host` is what `getifaddrs()` would list now; `HostChanges` brings an interface
up or takes one down between any two steps. A lookup is `Call`, then
`GetIfAddrs` (or `GetIfAddrsFails`, which throws), then `SearchAll`, `SearchOne`
or `SearchNone`; a search for a private network goes on with `NextRange`, which
frees the list and makes another for the next network. `held` counts the lists
made and not freed: `CScopedIfaddr` is a scoped object and frees on every path
out of the loop. An address is a number and a mask the number of low bits it
clears. Where the code takes the first of a list or of a `std::set` the model
takes any, since neither order means anything. `always` and `seen` are history:
the interfaces that were listed throughout the call, and at some moment of it.

### Host

The five classes as instances over one descriptor table. A step of an object is
a step of its class (`OfSocket`, `OfReceiver`, `OfSender`, `OfWaiter`,
`OfLookup`), and what the other classes have set on a number follows the table.
Three things become one that are separate in the modules of the classes:

- the list on which a receiver joins is the answer of a lookup that runs in the
  middle of its `open()` (`LookUp`, `UseLookup`);
- a datagram of `sendTo()` or of a sender's `send()` goes into `net`, and `Arrive`
  puts it into the sockets that accept it, whenever it likes; what finds no
  socket is lost;
- what `pselect()` finds ready is computed from the queues of the sockets.

### UnitTests

A test of `src/socketLib/UnitTest` is a sequence of lines. A line calls a method
(`Do`, `Does`), says whether it throws (`Throws`), which call its proxy makes fail
(`Faulty`, `WouldBlock`) or answers with `EINTR` how often (`Interrupted`), and
which assertions follow it (`Then`). `Observed` is the set of facts a test can
ask for: return values, exceptions, `isOpen()`, the getters, the proxy's
counters; not the text of addresses and messages, and not the comparisons of
`testCFdWaiter` with the clock, of which `NotEarly` says what holds.
Everything but the proxy's fault succeeds, as on the machine that runs the tests,
except `bind()` to an address of no interface, with which `testSenderOpenThrow`
begins; what stays open is when datagrams arrive, how time goes on and when
the waiter wakes. Time goes on only when no datagram is under way, which is the
assumption behind the tests' waits of a millisecond. After the last line the
objects that are open are destroyed.

## 3. What is checked

Every property of a passing run is paired with a plausible mistake in the code
(dropped close, dropped reset, dropped loop, …), an operator beside the one it
replaces, that breaks it; `PROJECT.json` has the pairs under "mutants".

| Run | Bounds | What it shows |
|---|---|---|
| `socket` | 2 objects, 2 numbers, 1 waiting datagram | Types; `NoLeak`, `HonestHandles`, `NoStrangerClose` and the contract `TableSpec`; `FailureCloses`, `NonBlockingHolds`; `CallsReturn` |
| `receiver_open` | 2 receivers, 2 numbers, 2 interfaces, 2 requests | Types; `TableSpec` for `open()` with all its failures, copies and destructors; `OpenFailureCloses`, `ConfigIsSubscription`, `OpenedIsJoined` (a membership on every interface of the list) |
| `receiver_receive` | 1 receiver, 3 datagrams of 2 senders and 2 ports, at most 3 waiting, 3 requests | `Subscribes` (the refinement), `WantedIsReturned`, `NonBlockingReturns` |
| `waiter` | 1 object, 2 numbers, moments up to 3 ns ahead | `NotEarly` and `WaitReturns` (signals neither shorten nor prolong a wait), `FalseMeansReady` (of an own descriptor), `SteadyIsSeen`, `NeverBadDescriptor` |
| `sender` | 2 senders, 2 numbers, 2 requests with 2 groups and 2 interfaces | `SendsWhereAsked`, `OpenAllOrNothing`, and the contract `TableSpec` |
| `time` | a second of 5 ns, seconds -2 to 2, constructor nanoseconds -15 to 15, factors -3 to 3, results up to 20 s used further | `TypeOK` (in range between operations), `Exact`, `OrderAgrees` |
| `interfaces` | 5 interfaces, 3 private networks, 3 subjects | Types; `ListsFreed`; `FoundIsThere` (nothing invented), `SteadyIsFound` (nothing steady missed, the first private network first) |
| `tests` | 40 tests; 3 sockets, 2 receivers, 1 sender, 4 numbers, 3 interfaces | Types of the whole composition; `AssertionsHold`, `TestsEnd`; `NothingLeft` (no descriptor and no list) |

Why the bounds are enough: the hazards of the table need two parties that
compete for one number and a second number to confuse it with; a third object
adds no new relation between two. One waiting datagram tells an empty buffer
from a filled one. A wait of 3 ns is interrupted, goes on, is interrupted again
and ends; one object has two entries in the sets and two possible numbers. For
`receive()` three waiting datagrams are needed: one unwanted, one that fixes the
port, one that this makes unwanted. A second of 5 ns makes products and the
arguments of constructors exceed several seconds, exactly and not; `MaxSec` only
ends the growth of the seconds. Three private networks with an interface in
each, one interface in none and one of another family let every list of a
search differ from the one before it. The tests need one number more than any of
them holds at a time. Nothing else is bounded; there are no step counters, and
the behaviours are infinite, except those of `tests`, which come to an end:
deadlock is not checked there, and `TestsEnd` is.

Fairness. In `socket` a method that was called goes on to its next call, and the
kernel answers `recvfrom` or `sendto` when it has the answer; nothing is assumed
of callers, errors, signals, datagrams or the rest of the process. This is what
a scheduler that runs every thread gives. `CallsReturn` excludes a receiving
call on a socket that was not made non-blocking. In `waiter` the thread runs,
the kernel ends a sleep that is over and time goes on; signals and readiness are
not owed. In `tests` the process goes on as long as it can (`WF_vars(Next)`),
which is what one thread on a running kernel does; `interfaces` and the runs of
`open()` need no fairness. In `receiver_receive` the only assumption is that `recvfrom` returns
when it can. `NonBlockingReturns` needs the condition that datagrams stop
arriving at some time: the loops of `receive()` go on as long as unwanted
datagrams come in at the rate they are read, even on a non-blocking socket. That
is a real limit of the code, and `WantedIsReturned` says what holds without the
condition.

`NotEarly` allows one nanosecond, since the loop of `waitUntil` ends while that
much is left. That is less than `CFdWaiter.h:56` says, "true if moment is passed",
and less than `testCFdWaiter.cpp:145` asserts, that the clock is beyond the moment
afterwards; with `left <= 0` in its place TLC finds the call with `timeout` equal to
`ZeroTime`, which returns at once.
`OpenedIsJoined` speaks of the list that `open()` made: an interface that comes up
after it is never joined, which nothing in the repository promises.
`SteadyIsSeen` speaks of calls that reached the kernel: with a moment that is not
ahead `waitUntil` answers true without looking at any descriptor.

Four runs look for something a comment, a header or a test says, and find that
the code does otherwise:

| Run | Statement | What the code does |
|---|---|---|
| `sender_unset` | `CUdpMulticastSender.h:62` sends to the multicast address | after the inherited `openUdpSocket()` to an address nobody set |
| `receiver_throw` | `testCUdpMulticastReceiver.cpp:204` not open after `open()` threw | open and bound when `getifaddrs()` failed |
| `receiver_any` | `CUdpMulticastReceiver.h:53` any address: messages from all senders | joined for the sender 0.0.0.0, the kernel drops real ones |
| `receiver_group` | `CUdpMulticastReceiver.cpp:133` receive multicast all is set to 0 | set at the wrong level, other groups come in |

Two more statements are narrower than they read. `CUdpSocket.h:57` says that the
socket is closed when `bind` fails: `FailureCloses` needs the exception of a
`close` that reports an error, after which `isOpen()` stays true.
`CUdpMulticastReceiver.h:71` says that 0 means there is no message: it is also
the length of an empty datagram, which is consumed (`Subscribes` counts it as
taken).

## 4. What is proved

Every theorem holds for all values of the constants that satisfy the named
assumptions, which say only what the code or the system guarantees:
`TableAssumption` (`Foreign` and `Free` are not objects, and differ),
`QueueAssumption` and `WaiterAssumption` (the bounds are numbers),
`ReceiverAssumption` (datagrams come from and go to real addresses, requests are
records of three arguments), `SenderAssumption` (an address is neither `Unset`
nor `Default`), `InterfacesAssumption` (no interface has the address 0.0.0.0, and
there is a private network to look for), `TimeAssumption`. For the composition:
`HostAssumption` (sockets, receivers and senders are different objects, no
interface has the address 0.0.0.0, there is a private network, the bounds are
numbers), `LineAssumption` (no object has one of the names that lines use for the
test itself, the waiter and the lookup) and `ScriptAssumption`, about the lines of
the tests: what they pass is in the sets of the constants. TLC evaluates the last
one on all 40 scripts.

1. `DescriptorTableProofs`. `TableSpec` implies `TableTypeOK`, `NoLeak`,
   `HonestHandles` and `NoStrangerClose`. Given the types, `NoLeak` is inductive
   by itself: an object that acquires a number held none, so the table has no
   other entry of that object. A close through a stale number frees the entry of
   another object that still holds the number, which leaks nothing.
   `HonestHandles` needs `NoLeak`: the owner of an entry holds that number, so an
   object whose number is honest is the only one that can release it.
   `NoStrangerClose` is the step form of `HonestHandles`.
2. `CUdpSocketProofs`. `CoreInv` is `TypeOK` with `SocketNeedsNoNumber`: whoever
   is about to call `socket()` holds no number. Without the second conjunct a step
   of `OpenSocket` need not be a step of the contract. With it, each step of
   `CUdpSocket` is a step of `TableSpec` or leaves the table alone
   (`KeepsContract`), and the three table properties carry over.
   `FailureCloses` needs `HonestHandles`, by which a close cannot answer `EBADF`
   before `staleKept`; `NonBlockingHolds` needs it because the flag dies with the
   table entry, and an honest number's entry is alive; for the other direction
   `LiveFlags` says that a number nobody has brings no flag to its next holder.
3. `CUdpMulticastReceiverProofs`. `CoreInv` adds to the types and to
   `SocketNeedsNoNumber` that a newly constructed object is closed (`NewIsClosed`),
   for the copy constructor opens without the close of `open()`. With it every
   step is a step of the contract, and the table properties carry over.
   `Agreement` then says what object and socket have to agree on at each point of
   `open()`: the memberships are those the getters describe, the socket is bound
   before the joins, and in the loop of the joins they are those of the part of
   the list that is done (`JoinedSoFar`), which is all of it in the end. It needs
   `FreeIsEmpty`, that a number nobody has brings no membership to its next
   holder, and ownership, so that the steps of another receiver leave this
   receiver's socket alone. `OpenFailureCloses`, `ConfigIsSubscription` and
   `OpenedIsJoined` are parts of it.
   `KeepsPromise` is the refinement `Subscribes`, which every step of the receiver
   keeps or stutters on. The abstract queue of a receiver is what its filter
   leaves of the queue of its socket. A datagram that arrives is put behind in
   both, or in one when the filter does not want it (`SelectAppend`); `receive()`
   takes a wanted first one from both and skips an unwanted one without an
   abstract step; the first datagram of a receiver without a port narrows the
   filter, and selecting twice is selecting once by both conditions. Three facts
   about states are needed: `FreeIsEmpty`, now for the queue of a number too, so
   that a new socket has nothing waiting; ownership (`HonestHandles`), so that no
   step touches the queue of another receiver; and that a new object has not
   returned anything (`NewForgets`). What a recursive definition selects needs
   induction on the length, which the provers cannot instantiate as a scheme;
   `DescriptorTableProofs!Induction` does it with the set of the numbers for which
   the claim fails, which has no least element, as a fact about one constant set.
4. `CUdpMulticastSenderProofs`. `CoreInv` is the types, `SocketNeedsNoNumber`, and
   that an `open()` under way has a request (`RequestKnown`). `Agreement` relates
   the three places where a sender's address lives: `dest` in the object, `local`
   and `outIf` in the kernel, at each point of `open()` and after it.
   `OpenAllOrNothing` is part of it; `SendsWhereAsked` follows for the step that
   sends.
5. `CFdWaiterProofs`. `MaxIsBound` shows, from the well-order of the naturals, that
   the maximum of the numbers in the sets bounds them, so that `nfds` leaves none
   out (`WatchedIsAll`); that makes `pselect()` see what `steady` remembers. The
   inductive invariant says that the remaining time in hand is never less than
   the real one (`LeftShrinks`), that the sets are the numbers of the open
   registered objects while `pselect()` has them (`SetsAreCurrent`), and that a
   sleep that ended without a descriptor missed none (`NothingMissed`).
6. `CInterfacesProofs`. `Brackets` says that the history encloses each list
   (`always` ⊆ `list` ⊆ `seen`), `LookedInVain` that no interface up throughout is
   in the private networks that were looked for already. With the types and
   `ListsFreed` they are inductive, and both action properties follow.
7. `CTimeProofs`, from `TimeAssumption` (a second has at least one nanosecond,
   operands and factors are integers). `LoopInv` adds to the types what each loop
   starts from: borrowing from less than a second, carrying from nothing or more.
   Without it a difference could end at a second or above. `AlwaysExact` is
   inductive given the types, because a turn of a loop moves one second between
   the members (`MoveSecond`) and a product moves a quotient (`MoveSeconds`);
   `ComparesExactly` follows from both, for the second comes first
   (`SecondsFirst`).

8. `UnitTestsProofs`, about the composition. `SocketTable`, `ReceiverTable`
   and `SenderTable` say that the instances see the one table, and `Effect` what a
   step of any of them can do to it. `IInv` is what those of the
   classes become together: the control states, `SocketNeedsNoNumber`,
   `NewIsClosed`, that only the method of the present line runs, or the lookup it
   waits for (`OneAtATime`), and that a list of interfaces exists while it is
   searched (`ListHeld`). From it every step is a step of the contract
   (`KeepsContract`), and with `NoLeak` of the contract nothing is left when the
   objects are gone (`TestsLeaveNothing`).
   Type correctness needs more than types: a datagram on its way carries the
   interface that its sender's socket has as local address, which the code takes
   from an argument of `open()` several calls earlier. `SendersKnow` follows the
   address through those calls: in `asked` until `bind()`, from then on in `dest`
   and at the number of the socket. A sender keeps it when others act because its
   number is honest and nobody else's (`OthersKnow`, `OwnNumber`), and in a test
   the number is honest always, since the proxies make no `close` report a late
   error (`NoLateError`, `NotStale`).

What is only model-checked: liveness (`CallsReturn`, `WantedIsReturned`,
`NonBlockingReturns`, `WaitReturns`, `TestsEnd`), which is out of the prover's
reach; and `AssertionsHold`, which is true of these scripts because of what each
of their lines does, one after the other, so that its proof would be their
execution.

## 5. What is not modelled

- `CSocketProxy` forwards calls, and `CSocketAddress` fills a structure: neither
  has state or control of its own.
- `mcr` and `mcs` call `open()` and `receive()` or `send()` once and end; the script
  `testSend` has these calls.
- The reliable multicast protocol, for which there is no code yet.
- The text of error messages and of addresses, and `setSocketProxy()`, which only
  tests use. The local address is reduced to its interface and port.
- Of the tests: `testReceive`, which says that it is not implemented; those of
  `CTime`, where `time` compares every operation with integers; those of `CClock`,
  of which `NotEarly` states what the callers need. `testSendToThrow` calls
  `setNonBlocking()`, and so does its script.
- Calls on one object by two threads at a time, which the library does not
  support, and an object that is destroyed while a waiter has a pointer to it.
- Numbers from `FD_SETSIZE` on, for which `FD_SET` is undefined, and seconds beyond
  64 bits.
- A crash: nothing is persisted, so there is nothing to recover.

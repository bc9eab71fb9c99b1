------------------------------ MODULE CInterfaces ------------------------------
(***************************************************************************)
(* CInterfaces: looking up an interface address in the list that           *)
(* getifaddrs() makes, while interfaces come up and go down.               *)
(*                                                                         *)
(* A lookup owns nothing but its list, so one caller is modelled; the host *)
(* changes between any two of its steps.  An address is a number, a mask   *)
(* the number of low bits it clears.  Neither the order of the list nor    *)
(* that of a std::set<in_addr_t> means anything (network byte order), so   *)
(* the first element of either is any element.                             *)
(***************************************************************************)
EXTENDS Integers, Sequences

CONSTANTS
    Interfaces,     \* what may be in the list: records [family, addr, bits]
    Subjects,       \* the arguments [addr, bits] of lookups
    PrivateRanges   \* the networks [addr, bits] of getAPrivateNetworkInterface()

Any == 0            \* INADDR_ANY

ASSUME InterfacesAssumption ==
    /\ \A e \in Interfaces : e.addr # Any
    /\ Len(PrivateRanges) \in Nat \ {0}
    /\ DOMAIN PrivateRanges = 1 .. Len(PrivateRanges)

VARIABLES
    host,     \* the entries that getifaddrs() would list now
    pc,       \* "idle", "get" or "search"
    method,   \* the method that runs
    want,     \* its address and mask; of a private network the one it looks for now
    round,    \* how many private networks it has looked for, this one included
    list,     \* scoped.ifaddr
    held,     \* how many lists getifaddrs() made and freeifaddrs() did not free
    answer,   \* the addresses the last method returned
    outcome,  \* how it ended
    always,   \* history: the entries that were listed throughout the call
    seen      \* history: the entries that were listed at some moment of the call

callVars == <<method, want, round>>
vars == <<host, pc, callVars, list, held, answer, outcome, always, seen>>

Methods == {"none", "retrieve", "addresses", "private"}

-----------------------------------------------------------------------------
(* (a & mask) == (b & mask) *)
SameNetwork(a, b, bits) == a \div 2^bits = b \div 2^bits

(* The test in the loops over the list; retrieve... takes each interface's *)
(* own mask.                                                               *)
QualifiesInAnyFamily(e) ==
    SameNetwork(e.addr, want.addr, IF method = "retrieve" THEN e.bits ELSE want.bits)

Qualifies(e) ==
    /\ e.family = "inet"
    /\ SameNetwork(e.addr, want.addr, IF method = "retrieve" THEN e.bits ELSE want.bits)

Found == {e.addr : e \in {e \in list : Qualifies(e)}}

Last == method # "private" \/ round = Len(PrivateRanges)

-----------------------------------------------------------------------------
Call(m, subject) ==
    /\ pc = "idle"
    /\ pc' = "get"
    /\ method' = m
    /\ want' = subject
    /\ round' = 1
    /\ answer' = {} /\ outcome' = "none"
    /\ always' = host /\ seen' = host
    /\ UNCHANGED <<host, list, held>>

retrieveInterfaceAdressFromAddress(subject) == Call("retrieve", subject)
getIpV4InterfaceAddresses(subject)          == Call("addresses", subject)
getAPrivateNetworkInterface                 == Call("private", PrivateRanges[1])

(* CScopedIfaddr() *)
GetIfAddrs ==
    /\ pc = "get"
    /\ list' = host
    /\ held' = held + 1
    /\ pc' = "search"
    /\ UNCHANGED <<host, callVars, answer, outcome, always, seen>>

(* A call is over, and its history with it. *)
End(result, addresses) ==
    /\ pc' = "idle"
    /\ outcome' = result
    /\ answer' = addresses
    /\ method' = "none" /\ want' = PrivateRanges[1] /\ round' = 1
    /\ always' = {} /\ seen' = {}

(* ~CScopedIfaddr() *)
FreeList == list' = {} /\ held' = held - 1

(* A list freed that getifaddrs() did not make. *)
GetIfAddrsFailsFreeing ==
    /\ pc = "get"
    /\ End("threw", {})
    /\ FreeList
    /\ UNCHANGED host

GetIfAddrsFails ==
    /\ pc = "get"
    /\ End("threw", {})
    /\ UNCHANGED <<host, list, held>>

Return(addresses) ==
    /\ End("returned", addresses)
    /\ FreeList
    /\ UNCHANGED host

-----------------------------------------------------------------------------
SearchAll ==
    /\ pc = "search"
    /\ method = "addresses"
    /\ Return(Found)

SearchOne ==
    /\ pc = "search"
    /\ method # "addresses"
    /\ \E a \in Found : Return({a})

SearchNone ==
    /\ pc = "search"
    /\ method # "addresses"
    /\ Found = {}
    /\ Last
    /\ Return({Any})

(* The next private network, with a list of its own; the old list kept, *)
NextRangeKeepingList ==
    /\ pc = "search"
    /\ Found = {}
    /\ ~Last
    /\ pc' = "get"
    /\ round' = round + 1
    /\ want' = PrivateRanges[round + 1]
    /\ list' = {}
    /\ UNCHANGED <<host, method, held, answer, outcome, always, seen>>

(* the last one not looked for, *)
NextRangeSkipping ==
    /\ pc = "search"
    /\ Found = {}
    /\ ~Last
    /\ pc' = "get"
    /\ round' = Len(PrivateRanges)
    /\ want' = PrivateRanges[round']
    /\ FreeList
    /\ UNCHANGED <<host, method, answer, outcome, always, seen>>

(* and as it is. *)
NextRange ==
    /\ pc = "search"
    /\ Found = {}
    /\ ~Last
    /\ pc' = "get"
    /\ round' = round + 1
    /\ want' = PrivateRanges[round + 1]
    /\ FreeList
    /\ UNCHANGED <<host, method, answer, outcome, always, seen>>

(* An interface comes up, goes down or gets another address. *)
HostChanges ==
    /\ \E e \in Interfaces : host' = host \cup {e} \/ host' = host \ {e}
    /\ always' = always \cap host'
    /\ seen' = IF pc = "idle" THEN {} ELSE seen \cup host'
    /\ UNCHANGED <<pc, callVars, list, held, answer, outcome>>

-----------------------------------------------------------------------------
Init ==
    /\ host \in SUBSET Interfaces
    /\ pc = "idle"
    /\ method = "none" /\ want = PrivateRanges[1] /\ round = 1
    /\ list = {}
    /\ held = 0
    /\ answer = {}
    /\ outcome = "none"
    /\ always = {}
    /\ seen = {}

Step ==
    \/ GetIfAddrs
    \/ GetIfAddrsFails
    \/ SearchAll
    \/ SearchOne
    \/ SearchNone
    \/ NextRange

Next ==
    \/ \E s \in Subjects : \/ retrieveInterfaceAdressFromAddress(s)
                           \/ getIpV4InterfaceAddresses(s)
    \/ getAPrivateNetworkInterface
    \/ Step
    \/ HostChanges

Spec == Init /\ [][Next]_vars

-----------------------------------------------------------------------------
Ranges    == {PrivateRanges[i] : i \in 1 .. Len(PrivateRanges)}
Addresses == {Any} \cup {e.addr : e \in Interfaces}

TypeOK ==
    /\ host \in SUBSET Interfaces
    /\ pc \in {"idle", "get", "search"}
    /\ method \in Methods
    /\ want \in Subjects \cup Ranges
    /\ round \in 1 .. Len(PrivateRanges)
    /\ list \in SUBSET Interfaces
    /\ held \in Nat
    /\ answer \in SUBSET Addresses
    /\ outcome \in {"none", "returned", "threw"}
    /\ always \in SUBSET Interfaces
    /\ seen \in SUBSET Interfaces

(* Every list that getifaddrs() made is freed once, on every path out of   *)
(* the search, and none when getifaddrs() failed: a list is held exactly   *)
(* while it is searched (testCInterfaces.cpp:62 and :98).                  *)
ListsFreed == held = IF pc = "search" THEN 1 ELSE 0

Returns == pc # "idle" /\ pc' = "idle" /\ outcome' = "returned"

(* What was asked for, said without the code. *)
OnNetwork(e, addr, bits) == e.family = "inet" /\ SameNetwork(e.addr, addr, bits)
InRange(e, i) == OnNetwork(e, PrivateRanges[i].addr, PrivateRanges[i].bits)

Fits(e) ==
    \/ method = "retrieve"  /\ OnNetwork(e, want.addr, e.bits)
    \/ method = "addresses" /\ OnNetwork(e, want.addr, want.bits)
    \/ method = "private"   /\ \E i \in 1 .. Len(PrivateRanges) : InRange(e, i)

(* No invention: an address that is returned belonged, at a moment of the  *)
(* call, to an interface of the network that was asked for; of a private   *)
(* one for getAPrivateNetworkInterface().                                  *)
FoundIsThere ==
    [][ Returns => \A a \in answer' \ {Any} : \E e \in seen : e.addr = a /\ Fits(e) ]_vars

(* An interface that fits and is up throughout the call is not missed,     *)
(* whatever comes up and goes down in between, although a search for a     *)
(* private one takes up to three lists: none of a network that is looked   *)
(* for later is returned in its place.                                     *)
SteadyIsFound ==
    [][ Returns => \A e \in always :
            /\ method = "addresses" /\ Fits(e) => e.addr \in answer'
            /\ method = "retrieve" /\ Fits(e) => Any \notin answer'
            /\ method = "private" =>
                   \A i \in 1 .. Len(PrivateRanges) :
                       InRange(e, i) => round <= i /\ Any \notin answer' ]_vars
=============================================================================

---------------------------- MODULE CInterfacesProofs ----------------------------
(***************************************************************************)
(* CInterfaces frees what getifaddrs() made, returns nothing that was not  *)
(* there and misses nothing that was there throughout, for any interfaces, *)
(* addresses and number of private networks.                               *)
(***************************************************************************)
EXTENDS CInterfaces, TLAPS

(* What a running call knows: the history brackets what getifaddrs() would *)
(* list now, and what it listed for the search.                            *)
Brackets ==
    /\ pc # "idle" => always \subseteq host /\ host \subseteq seen /\ method # "none"
    /\ pc = "search" => always \subseteq list /\ list \subseteq seen

(* Of the private networks that were looked for, none had an interface     *)
(* that was up throughout.                                                 *)
LookedInVain ==
    pc # "idle" /\ method = "private" =>
        /\ want = PrivateRanges[round]
        /\ \A i \in 1 .. round - 1, e \in always : ~InRange(e, i)

IInv == TypeOK /\ ListsFreed /\ Brackets /\ LookedInVain

-----------------------------------------------------------------------------
LEMMA RangeFacts ==
    /\ 1 \in 1 .. Len(PrivateRanges)
    /\ \A i \in 1 .. Len(PrivateRanges) : PrivateRanges[i] \in Ranges
    /\ Len(PrivateRanges) \in Nat
BY InterfacesAssumption DEF Ranges

LEMMA FoundFacts ==
    ASSUME TypeOK
    PROVE  Found \subseteq Addresses \ {Any}
BY InterfacesAssumption DEF TypeOK, Found, Addresses

(* A search of a private network that finds nothing: nothing was there     *)
(* throughout.                                                             *)
LEMMA InVain ==
    ASSUME IInv, pc = "search", method = "private", Found = {}
    PROVE  \A i \in 1 .. round, e \in always : ~InRange(e, i)
<1> SUFFICES ASSUME NEW i \in 1 .. round, NEW e \in always, InRange(e, i) PROVE FALSE
    OBVIOUS
<1>1. CASE i = round
    <2>1. e \in list /\ Qualifies(e)
        BY <1>1 DEF IInv, Brackets, LookedInVain, InRange, OnNetwork, Qualifies
    <2> QED
        BY <2>1 DEF Found
<1>2. CASE i # round
    <2>1. i \in 1 .. round - 1
        BY <1>2, RangeFacts DEF IInv, TypeOK
    <2> QED
        BY <2>1 DEF IInv, LookedInVain
<1> QED
    BY <1>1, <1>2

-----------------------------------------------------------------------------
LEMMA InitInv == Init => IInv
BY RangeFacts DEF Init, IInv, TypeOK, Methods, ListsFreed, Brackets, LookedInVain

LEMMA StepInv == IInv /\ [Next]_vars => IInv'
<1> SUFFICES ASSUME IInv, [Next]_vars PROVE IInv'
    OBVIOUS
<1> USE DEF IInv
<1>1. ASSUME NEW m \in {"retrieve", "addresses", "private"}, NEW s \in Subjects \cup Ranges,
             m = "private" => s = PrivateRanges[1], Call(m, s)
      PROVE  IInv'
    <2>1. TypeOK'
        BY <1>1, RangeFacts DEF Call, TypeOK, Methods
    <2>2. ListsFreed' /\ Brackets'
        BY <1>1 DEF Call, ListsFreed, Brackets, TypeOK
    <2>3. LookedInVain'
        BY <1>1 DEF Call, LookedInVain, TypeOK
    <2> QED
        BY <2>1, <2>2, <2>3
<1>2. CASE GetIfAddrs
    <2>1. TypeOK' /\ ListsFreed'
        BY <1>2 DEF GetIfAddrs, TypeOK, ListsFreed, callVars
    <2>2. Brackets'
        BY <1>2 DEF GetIfAddrs, Brackets, callVars
    <2>3. LookedInVain'
        BY <1>2 DEF GetIfAddrs, LookedInVain, callVars, InRange
    <2> QED
        BY <2>1, <2>2, <2>3
<1>3. ASSUME NEW r \in {"returned", "threw"}, NEW A \in SUBSET Addresses, End(r, A),
             UNCHANGED host, held' = 0, list' \in SUBSET Interfaces
      PROVE  IInv'
    BY <1>3, RangeFacts
       DEF End, TypeOK, Methods, ListsFreed, Brackets, LookedInVain
<1>4. CASE GetIfAddrsFails
    <2>1. held' = 0 /\ list' \in SUBSET Interfaces /\ UNCHANGED host /\ End("threw", {})
        BY <1>4 DEF GetIfAddrsFails, ListsFreed, TypeOK
    <2> QED
        BY <2>1, <1>3
<1>5. ASSUME NEW A \in SUBSET Addresses, pc = "search", Return(A)
      PROVE  IInv'
    <2>1. held' = 0 /\ list' \in SUBSET Interfaces /\ UNCHANGED host /\ End("returned", A)
        BY <1>5 DEF Return, FreeList, ListsFreed, TypeOK
    <2> QED
        BY <2>1, <1>3
<1>6. CASE SearchAll \/ SearchOne \/ SearchNone
    <2>1. Found \subseteq Addresses /\ Any \in Addresses
        BY FoundFacts DEF Addresses
    <2> QED
        BY <1>5, <1>6, <2>1 DEF SearchAll, SearchOne, SearchNone
<1>7. CASE NextRange
    <2>1. round' = round + 1 /\ round' \in 1 .. Len(PrivateRanges) /\ method = "private"
        BY <1>7, RangeFacts DEF NextRange, Last, TypeOK
    <2>2. TypeOK' /\ ListsFreed'
        BY <1>7, <2>1, RangeFacts DEF NextRange, FreeList, TypeOK, ListsFreed
    <2>3. Brackets'
        BY <1>7, <2>1 DEF NextRange, Brackets
    <2>4. \A i \in 1 .. round, e \in always : ~InRange(e, i)
        BY <1>7, <2>1, InVain DEF NextRange
    <2>5. LookedInVain'
        BY <1>7, <2>1, <2>4 DEF NextRange, LookedInVain, TypeOK, InRange
    <2> QED
        BY <2>2, <2>3, <2>5
<1>8. CASE HostChanges
    <2>1. TypeOK' /\ ListsFreed'
        BY <1>8 DEF HostChanges, TypeOK, ListsFreed, callVars
    <2>2. Brackets'
        BY <1>8 DEF HostChanges, Brackets, callVars, TypeOK
    <2>3. LookedInVain'
        BY <1>8 DEF HostChanges, LookedInVain, callVars, InRange
    <2> QED
        BY <2>1, <2>2, <2>3
<1>9. CASE UNCHANGED vars
    BY <1>9 DEF vars, callVars, TypeOK, ListsFreed, Brackets, LookedInVain, InRange
<1> QED
    BY <1>1, <1>2, <1>4, <1>6, <1>7, <1>8, <1>9, RangeFacts
       DEF Next, Step, retrieveInterfaceAdressFromAddress, getIpV4InterfaceAddresses,
           getAPrivateNetworkInterface

THEOREM InvCorrect == Spec => []IInv
BY InitInv, StepInv, PTL DEF Spec

(* Type correctness of CInterfaces. *)
THEOREM TypeCorrect == Spec => []TypeOK
<1>1. IInv => TypeOK
    BY DEF IInv
<1> QED
    BY <1>1, InvCorrect, PTL

(* CScopedIfaddr frees each list once, on every path (CInterfaces.cpp:53). *)
THEOREM EveryListFreed == Spec => []ListsFreed
<1>1. IInv => ListsFreed
    BY DEF IInv
<1> QED
    BY <1>1, InvCorrect, PTL

-----------------------------------------------------------------------------
(* The three ways to return; nothing else does. *)
LEMMA ReturnCases ==
    ASSUME [Next]_vars, Returns
    PROVE  SearchAll \/ SearchOne \/ SearchNone
BY DEF Next, Step, Returns, retrieveInterfaceAdressFromAddress, getIpV4InterfaceAddresses,
       getAPrivateNetworkInterface, Call, GetIfAddrs, GetIfAddrsFails, End, NextRange,
       HostChanges, vars

(* Nothing is returned that was not there. *)
THEOREM NoInvention == Spec => FoundIsThere
<1>1. ASSUME IInv, [Next]_vars, Returns, NEW a \in answer' \ {Any}
      PROVE  \E e \in seen : e.addr = a /\ Fits(e)
    <2>1. a \in Found /\ pc = "search"
        BY <1>1, ReturnCases DEF SearchAll, SearchOne, SearchNone, Return, End
    <2>2. PICK e \in list : e.addr = a /\ Qualifies(e)
        BY <2>1 DEF Found
    <2>3. e \in seen
        BY <1>1, <2>1 DEF IInv, Brackets
    <2>4. Fits(e)
        <3>1. method \in {"retrieve", "addresses", "private"}
            BY <1>1, <2>1 DEF IInv, TypeOK, Methods, Brackets
        <3>2. method = "private" => InRange(e, round) /\ round \in 1 .. Len(PrivateRanges)
            BY <1>1, <2>1, <2>2
               DEF IInv, TypeOK, LookedInVain, Qualifies, InRange, OnNetwork
        <3> QED
            BY <2>2, <3>1, <3>2 DEF Fits, Qualifies, OnNetwork
    <2> QED
        BY <2>2, <2>3, <2>4
<1>2. IInv /\ [Next]_vars
          => [Returns => \A a \in answer' \ {Any} : \E e \in seen : e.addr = a /\ Fits(e)]_vars
    BY <1>1
<1> QED
    BY <1>2, InvCorrect, PTL DEF Spec, FoundIsThere

(* Nothing is missed that was there throughout. *)
THEOREM NothingSteadyMissed == Spec => SteadyIsFound
<1>1. ASSUME IInv, [Next]_vars, Returns, NEW e \in always
      PROVE  /\ method = "addresses" /\ Fits(e) => e.addr \in answer'
             /\ method = "retrieve" /\ Fits(e) => Any \notin answer'
             /\ method = "private" =>
                    \A i \in 1 .. Len(PrivateRanges) :
                        InRange(e, i) => round <= i /\ Any \notin answer'
    <2>1. pc = "search" /\ e \in list
        BY <1>1, ReturnCases DEF SearchAll, SearchOne, SearchNone, IInv, Brackets
    <2>2. method # "private" /\ Fits(e) => Qualifies(e)
        BY DEF Fits, Qualifies, OnNetwork
    <2>3. CASE method = "addresses"
        BY <1>1, <2>1, <2>2, <2>3, ReturnCases
           DEF SearchAll, SearchOne, SearchNone, Return, End, Found
    <2>4. CASE method = "retrieve"
        <3>1. ASSUME Fits(e)
              PROVE  \E a \in Found : answer' = {a}
            <4>1. e.addr \in Found
                BY <2>1, <2>2, <2>4, <3>1 DEF Found
            <4> QED
                BY <1>1, <2>4, <4>1, ReturnCases
                   DEF SearchAll, SearchOne, SearchNone, Return, End
        <3> QED
            BY <1>1, <2>4, <3>1, FoundFacts DEF IInv
    <2>5. CASE method = "private"
        <3> SUFFICES ASSUME NEW i \in 1 .. Len(PrivateRanges), InRange(e, i)
                     PROVE  round <= i /\ Any \notin answer'
            BY <2>5
        <3>1. round \in 1 .. Len(PrivateRanges) /\ Len(PrivateRanges) \in Nat
            BY <1>1, RangeFacts DEF IInv, TypeOK
        <3>2. round <= i
            <4>1. ~(i \in 1 .. round - 1)
                BY <1>1, <2>1, <2>5 DEF IInv, LookedInVain
            <4> QED
                BY <3>1, <4>1
        <3>3. CASE SearchOne
            BY <1>1, <3>2, <3>3, FoundFacts DEF SearchOne, Return, End, IInv
        <3>4. CASE SearchNone
            <4>1. i \in 1 .. round
                BY <3>1, <3>4, <2>5 DEF SearchNone, Last
            <4> QED
                BY <1>1, <2>1, <2>5, <3>4, <4>1, InVain DEF SearchNone
        <3> QED
            BY <1>1, <2>5, <3>3, <3>4, ReturnCases DEF SearchAll
    <2> QED
        BY <2>3, <2>4, <2>5
<1>2. IInv /\ [Next]_vars
          => [Returns => \A e \in always :
                 /\ method = "addresses" /\ Fits(e) => e.addr \in answer'
                 /\ method = "retrieve" /\ Fits(e) => Any \notin answer'
                 /\ method = "private" =>
                        \A i \in 1 .. Len(PrivateRanges) :
                            InRange(e, i) => round <= i /\ Any \notin answer']_vars
    BY <1>1
<1> QED
    BY <1>2, InvCorrect, PTL DEF Spec, SteadyIsFound
=============================================================================

------------------------- MODULE DescriptorTableProofs -------------------------
(***************************************************************************)
(* Proofs about the ownership contract of DescriptorTable, for every set   *)
(* of objects and every size of the descriptor table.                      *)
(***************************************************************************)
EXTENDS DescriptorTable, TLAPS, WellFoundedInduction

(* Every step of the contract keeps the table and the numbers well typed. *)
LEMMA TableTypeStep ==
    TableTypeOK /\ [TableNext]_tableVars => TableTypeOK'
<1> SUFFICES ASSUME TableTypeOK, [TableNext]_tableVars
             PROVE  TableTypeOK'
    OBVIOUS
<1> USE TableAssumption DEF TableTypeOK, Fds, NoFd, isOpen, IsLive
<1>1. ASSUME NEW o \in Objects, Acquire(o)
      PROVE  TableTypeOK'
    <2>1. CASE SocketOk(o)
        BY <2>1 DEF SocketOk, LowestFree, FreeFds
    <2>2. CASE SocketFails(o)
        BY <2>2 DEF SocketFails
    <2> QED
        BY <1>1, <2>1, <2>2 DEF Acquire
<1>2. ASSUME NEW o \in Objects, CloseOk(o)
      PROVE  TableTypeOK'
    BY <1>2 DEF CloseOk
<1>3. ASSUME NEW o \in Objects, CloseThrows(o)
      PROVE  TableTypeOK'
    BY <1>3 DEF CloseThrows
<1>4. ASSUME NEW o \in Objects, Destructor(o)
      PROVE  TableTypeOK'
    BY <1>4 DEF Destructor
<1>5. CASE ForeignOpen
    BY <1>5 DEF ForeignOpen, LowestFree, FreeFds
<1>6. CASE ForeignClose
    BY <1>6 DEF ForeignClose
<1>7. CASE UNCHANGED tableVars
    BY <1>7 DEF tableVars
<1> QED
    BY <1>1, <1>2, <1>3, <1>4, <1>5, <1>6, <1>7 DEF TableNext

(* The table holds owners, the objects hold numbers, always. *)
THEOREM TableTypeCorrect == TableSpec => []TableTypeOK
<1>1. TableInit => TableTypeOK
    BY TableAssumption DEF TableInit, TableTypeOK
<1> QED
    BY <1>1, TableTypeStep, PTL DEF TableSpec

-----------------------------------------------------------------------------
(* A step of the contract cannot leak: the object that gets a number held  *)
(* none, so the only entry in its name is the new one.  A close through a  *)
(* stale number releases the entry of the object that holds that number    *)
(* too, and never leaves an entry without its holder.                      *)
LEMMA NoLeakStep ==
    TableTypeOK /\ NoLeak /\ [TableNext]_tableVars => NoLeak'
<1> SUFFICES ASSUME TableTypeOK, NoLeak, [TableNext]_tableVars
             PROVE  NoLeak'
    OBVIOUS
<1> USE TableAssumption DEF TableTypeOK, NoLeak, Fds, NoFd, isOpen, IsLive
<1>1. ASSUME NEW o \in Objects, Acquire(o)
      PROVE  NoLeak'
    <2>1. CASE SocketOk(o)
        BY <1>1, <2>1 DEF Acquire, SocketOk, LowestFree, FreeFds
    <2>2. CASE SocketFails(o)
        BY <1>1, <2>2 DEF Acquire, SocketFails
    <2> QED
        BY <1>1, <2>1, <2>2 DEF Acquire
<1>2. ASSUME NEW o \in Objects, CloseOk(o)
      PROVE  NoLeak'
    BY <1>2 DEF CloseOk
<1>3. ASSUME NEW o \in Objects, CloseThrows(o)
      PROVE  NoLeak'
    BY <1>3 DEF CloseThrows
<1>4. ASSUME NEW o \in Objects, Destructor(o)
      PROVE  NoLeak'
    BY <1>4 DEF Destructor
<1>5. CASE ForeignOpen
    BY <1>5 DEF ForeignOpen, LowestFree, FreeFds
<1>6. CASE ForeignClose
    BY <1>6 DEF ForeignClose
<1>7. CASE UNCHANGED tableVars
    BY <1>7 DEF tableVars
<1> QED
    BY <1>1, <1>2, <1>3, <1>4, <1>5, <1>6, <1>7 DEF TableNext

(* Whatever the objects and the rest of the process do, a descriptor that  *)
(* an object opened is the number this object holds until it is released.  *)
THEOREM TableNeverLeaks == TableSpec => []NoLeak
<1>1. TableInit => NoLeak
    BY TableAssumption DEF TableInit, NoLeak
<1> QED
    BY <1>1, NoLeakStep, TableTypeCorrect, PTL DEF TableSpec

-----------------------------------------------------------------------------
(* A number that stands for the object's own socket keeps doing so: nobody *)
(* else can release it, because nobody else holds it.                      *)
LEMMA HonestStep ==
    TableTypeOK /\ NoLeak /\ HonestHandles /\ [TableNext]_tableVars
        => HonestHandles'
<1> SUFFICES ASSUME TableTypeOK, NoLeak, HonestHandles, [TableNext]_tableVars
             PROVE  HonestHandles'
    OBVIOUS
<1> USE TableAssumption DEF TableTypeOK, NoLeak, HonestHandles, Fds, NoFd, isOpen, IsLive
<1>1. ASSUME NEW o \in Objects, Acquire(o)
      PROVE  HonestHandles'
    <2>1. CASE SocketOk(o)
        BY <2>1 DEF SocketOk, LowestFree, FreeFds
    <2>2. CASE SocketFails(o)
        BY <2>2 DEF SocketFails
    <2> QED
        BY <1>1, <2>1, <2>2 DEF Acquire
<1>2. ASSUME NEW o \in Objects, CloseOk(o)
      PROVE  HonestHandles'
    BY <1>2 DEF CloseOk
<1>3. ASSUME NEW o \in Objects, CloseThrows(o)
      PROVE  HonestHandles'
    BY <1>3 DEF CloseThrows
<1>4. ASSUME NEW o \in Objects, Destructor(o)
      PROVE  HonestHandles'
    BY <1>4 DEF Destructor
<1>5. CASE ForeignOpen
    BY <1>5 DEF ForeignOpen, LowestFree, FreeFds
<1>6. CASE ForeignClose
    BY <1>6 DEF ForeignClose
<1>7. CASE UNCHANGED tableVars
    BY <1>7 DEF tableVars
<1> QED
    BY <1>1, <1>2, <1>3, <1>4, <1>5, <1>6, <1>7 DEF TableNext

(* As long as closeUdpSocket() never threw on a number the kernel had      *)
(* released, isOpen() means that the number is the object's own socket.    *)
THEOREM TableHandlesHonest == TableSpec => []HonestHandles
<1>1. TableInit => HonestHandles
    BY DEF TableInit, HonestHandles, isOpen, NoFd
<1> QED
    BY <1>1, HonestStep, TableTypeCorrect, TableNeverLeaks, PTL DEF TableSpec

-----------------------------------------------------------------------------
(* The step form of HonestHandles: a release is made by the object that    *)
(* opened the descriptor, which then holds no number.                      *)
StrangerStep ==
    staleKept' \/
        \A f \in Fds :
            (files[f] # Free /\ files'[f] = Free)
                => IF files[f] = Foreign THEN UNCHANGED fd
                                         ELSE fd'[files[f]] = NoFd

LEMMA ReleaseStep ==
    TableTypeOK /\ HonestHandles /\ [TableNext]_tableVars => StrangerStep
<1> SUFFICES ASSUME TableTypeOK, HonestHandles, [TableNext]_tableVars
             PROVE  StrangerStep
    OBVIOUS
<1> USE TableAssumption
    DEF TableTypeOK, HonestHandles, StrangerStep, Fds, NoFd, isOpen, IsLive
<1>1. ASSUME NEW o \in Objects, Acquire(o)
      PROVE  StrangerStep
    BY <1>1 DEF Acquire, SocketOk, SocketFails, LowestFree, FreeFds
<1>2. ASSUME NEW o \in Objects, CloseOk(o)
      PROVE  StrangerStep
    BY <1>2 DEF CloseOk
<1>3. ASSUME NEW o \in Objects, CloseThrows(o)
      PROVE  StrangerStep
    BY <1>3 DEF CloseThrows
<1>4. ASSUME NEW o \in Objects, Destructor(o)
      PROVE  StrangerStep
    BY <1>4 DEF Destructor
<1>5. CASE ForeignOpen
    BY <1>5 DEF ForeignOpen, LowestFree, FreeFds
<1>6. CASE ForeignClose
    BY <1>6 DEF ForeignClose
<1>7. CASE UNCHANGED tableVars
    BY <1>7 DEF tableVars
<1> QED
    BY <1>1, <1>2, <1>3, <1>4, <1>5, <1>6, <1>7 DEF TableNext

(* Nobody closes what is not theirs. *)
THEOREM TableNoStrangerClose == TableSpec => NoStrangerClose
<1>1. TableTypeOK /\ HonestHandles /\ [TableNext]_tableVars => [StrangerStep]_tableVars
    BY ReleaseStep
<1>2. TableSpec => [][StrangerStep]_tableVars
    BY <1>1, TableTypeCorrect, TableHandlesHonest, PTL DEF TableSpec
<1> QED
    BY <1>2 DEF NoStrangerClose, StrangerStep
-----------------------------------------------------------------------------
(* Two facts about numbers that the proofs of the classes cite. *)

(* A set of numbers that is not empty has a least one. *)
LEMMA LeastNumber ==
    ASSUME NEW T \in SUBSET Nat, T # {}
    PROVE  \E x \in T : \A y \in T : x <= y
<1>1. \E x \in T : \A y \in T : ~(<<y, x>> \in OpToRel(<, Nat))
    BY NatLessThanWellFounded, WFMin, Zenon
<1>2. \A x \in Nat, y \in Nat : y < x => <<y, x>> \in OpToRel(<, Nat)
    BY Zenon DEF OpToRel
<1>3. \E x \in T : \A y \in T : ~(y < x)
    BY <1>1, <1>2, Zenon
<1> QED
    BY <1>3

(* Induction, for a set of numbers in place of a formula. *)
LEMMA Induction ==
    ASSUME NEW P, 0 \in P, \A n \in P : n + 1 \in P
    PROVE  Nat \subseteq P
<1> SUFFICES ASSUME Nat \ P # {}
             PROVE  FALSE
    OBVIOUS
<1>1. PICK x \in Nat \ P : \A y \in Nat \ P : x <= y
    BY LeastNumber
<1>2. x - 1 \in P
    BY <1>1
<1> QED
    BY <1>1, <1>2
=============================================================================

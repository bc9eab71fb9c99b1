---------------------------- MODULE DescriptorTable ----------------------------
(***************************************************************************)
(* The ownership discipline of CFileDescriptor and CUdpSocket over the     *)
(* descriptor table of the process, and nothing else of the two classes.   *)
(*                                                                         *)
(* A CFileDescriptor keeps one number, fd; the operating system keeps the  *)
(* table that says what the number stands for.  The two are related only   *)
(* by what socket() and close() returned, and the table is shared with     *)
(* every other socket object and with the rest of the process, which takes *)
(* the lowest free number at any moment.                                   *)
(*                                                                         *)
(* The operators SocketOk ... Destructor are single system calls together  *)
(* with the code that runs on their result; CUdpSocket and the classes     *)
(* derived from it are built from them.  TableSpec is the contract those   *)
(* classes keep: a number is acquired only by an object that holds none.   *)
(***************************************************************************)
EXTENDS Integers, FiniteSets

CONSTANTS
    Objects,   \* the CFileDescriptor objects, each used by one thread
    MaxFd,     \* the highest descriptor number of the process (RLIMIT_NOFILE - 1)
    Foreign,   \* the owner of descriptors that no object of the library opened
    Free       \* the entry of a number that is not in use

ASSUME TableAssumption ==
    /\ MaxFd \in Nat
    /\ Foreign \notin Objects
    /\ Free \notin Objects
    /\ Foreign # Free

Fds  == 0 .. MaxFd
NoFd == -1

VARIABLES
    files,     \* files[f]: who opened the descriptor that number f stands for, or Free
    fd,        \* fd[o]: the member fd of object o, a number or NoFd
    staleKept  \* history: closeUdpSocket() threw on a number that the kernel had released

tableVars == <<files, fd, staleKept>>

-----------------------------------------------------------------------------
(* CFileDescriptor::isOpen() looks at the number only. *)
isOpen(o) == fd[o] >= 0

(* What the number stands for in the kernel's table. *)
IsLive(f) == f \in Fds /\ files[f] # Free

FreeFds == {f \in Fds : files[f] = Free}

(* socket(), open() and accept() take the lowest number that is free. *)
LowestFree(f) == f \in FreeFds /\ \A g \in FreeFds : f <= g

-----------------------------------------------------------------------------
(* openUdpSocket(), from the socket() call on: the result is stored in fd  *)
(* whatever fd held before.                                                *)
SocketOk(o) ==
    /\ \E f \in Fds : /\ LowestFree(f)
                      /\ files' = [files EXCEPT ![f] = o]
                      /\ fd' = [fd EXCEPT ![o] = f]
    /\ UNCHANGED staleKept

(* The error number kept as if it were the result. *)
SocketFailsStoringErrno(o) ==
    /\ fd' = [fd EXCEPT ![o] = NoFd - 1]
    /\ UNCHANGED <<files, staleKept>>

SocketFails(o) ==
    /\ fd' = [fd EXCEPT ![o] = NoFd]
    /\ UNCHANGED <<files, staleKept>>

(* closeUdpSocket() without fd = -1. *)
CloseKeepingNumber(o) ==
    /\ IsLive(fd[o])
    /\ files' = [files EXCEPT ![fd[o]] = Free]
    /\ UNCHANGED <<fd, staleKept>>

(* closeUdpSocket() when close() returns 0. *)
CloseOk(o) ==
    /\ IsLive(fd[o])
    /\ files' = [files EXCEPT ![fd[o]] = Free]
    /\ fd' = [fd EXCEPT ![o] = NoFd]
    /\ UNCHANGED staleKept

(* closeUdpSocket() when close() returns -1: it throws before fd = -1.     *)
(* Either the number stood for nothing (EBADF), or the kernel released it  *)
(* and still reports an error (EINTR, EIO), as close() does on Linux.      *)
CloseThrows(o) ==
    /\ UNCHANGED fd
    /\ \/ /\ ~IsLive(fd[o])
          /\ UNCHANGED <<files, staleKept>>
       \/ /\ IsLive(fd[o])
          /\ files' = [files EXCEPT ![fd[o]] = Free]
          /\ staleKept' = TRUE

(* ~CFileDescriptor() closes a number it holds, whatever close() returns;  *)
(* the slot of the object is then used for a newly constructed one.        *)
Destructor(o) ==
    /\ isOpen(o)
    /\ files' = [files EXCEPT ![fd[o]] = Free]
    /\ fd' = [fd EXCEPT ![o] = NoFd]
    /\ UNCHANGED staleKept

(* The rest of the process opens and closes descriptors of its own. *)
ForeignOpen ==
    /\ \E f \in Fds : LowestFree(f) /\ files' = [files EXCEPT ![f] = Foreign]
    /\ UNCHANGED <<fd, staleKept>>

ForeignClose ==
    /\ \E f \in Fds : /\ files[f] = Foreign
                      /\ files' = [files EXCEPT ![f] = Free]
    /\ UNCHANGED <<fd, staleKept>>

-----------------------------------------------------------------------------
TableInit ==
    /\ files \in [Fds -> {Free, Foreign}]
    /\ fd = [o \in Objects |-> NoFd]
    /\ staleKept = FALSE

(* The contract: socket() is called by an object only while it holds no number. *)
Acquire(o) == ~isOpen(o) /\ (SocketOk(o) \/ SocketFails(o))

TableNext ==
    \/ \E o \in Objects : \/ Acquire(o)
                          \/ CloseOk(o)
                          \/ CloseThrows(o)
                          \/ Destructor(o)
    \/ ForeignOpen
    \/ ForeignClose

TableSpec == TableInit /\ [][TableNext]_tableVars

-----------------------------------------------------------------------------
TableTypeOK ==
    /\ files \in [Fds -> Objects \cup {Foreign, Free}]
    /\ fd \in [Objects -> Fds \cup {NoFd}]
    /\ staleKept \in BOOLEAN

(* No descriptor leaks: whatever an object opened and nobody closed yet is *)
(* the number that very object still holds, so its destructor will close   *)
(* it.  This survives close() errors and numbers that were reused.         *)
NoLeak == \A f \in Fds, o \in Objects : files[f] = o => fd[o] = f

(* isOpen() is truthful: as long as closeUdpSocket() never threw on a      *)
(* number that the kernel released, the number an object holds stands for  *)
(* the socket that this object opened, never for nothing, for the socket   *)
(* of another object, or for a descriptor of the rest of the process.      *)
HonestHandles ==
    staleKept \/ \A o \in Objects : isOpen(o) => files[fd[o]] = o

(* Nobody closes what is not theirs: under the same condition a step that  *)
(* releases a descriptor is a step of the object that opened it, and that  *)
(* object gives up the number; a descriptor of the rest of the process is  *)
(* released only by a step in which no object changes.                     *)
NoStrangerClose ==
    [][ staleKept' \/
        \A f \in Fds :
            (files[f] # Free /\ files'[f] = Free)
                => IF files[f] = Foreign THEN UNCHANGED fd
                                         ELSE fd'[files[f]] = NoFd ]_tableVars
=============================================================================

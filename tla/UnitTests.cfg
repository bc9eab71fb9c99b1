SPECIFICATION Spec
CONSTANTS
    Objects <- TestObjects
    Sockets <- TestSockets
    Receivers <- TestReceivers
    Senders <- TestSenders
    Interfaces <- TestInterfaces
    PrivateRanges <- TestRanges
    Subjects <- TestSubjects
    JoinRequests <- TestJoins
    SendRequests <- TestSends
    SomePort = 5000
    MaxFd = 3
    MaxQueue = 2
    MaxWait = 2
    Foreign = Foreign
    Free = Free
    None = None
    Unset = Unset
    Default = Default
INVARIANTS
    TypeOK
    NothingLeft
PROPERTIES
    AssertionsHold
    TestsEnd
CHECK_DEADLOCK FALSE

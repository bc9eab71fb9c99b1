SPECIFICATION Spec
CONSTANTS
    Objects = {a, b}
    MaxFd = 1
    Foreign = Foreign
    Free = Free
    Any = Any
    None = None
    S1 = S1
    S2 = S2
    G1 = G1
    G2 = G2
    Ifaces = {i, j}
    Datagrams <- OpenDatagrams
    Requests <- OpenRequests
    MaxInbox = 0
INVARIANTS
    TypeOK
    OpenFailureCloses
    ConfigIsSubscription
    OpenedIsJoined
PROPERTIES
    TableSpec

SPECIFICATION FairSpec
CONSTANTS
    Objects = {a}
    MaxFd = 0
    Foreign = Foreign
    Free = Free
    Any = Any
    None = None
    S1 = S1
    S2 = S2
    G1 = G1
    G2 = G2
    Ifaces = {i}
    Datagrams <- ReceiveDatagrams
    Requests <- ReceiveRequests
    MaxInbox = 3
PROPERTIES
    Subscribes
    WantedIsReturned
    NonBlockingReturns

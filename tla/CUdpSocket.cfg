SPECIFICATION FairSpec
CONSTANTS
    Objects = {a, b}
    MaxFd = 1
    Foreign = Foreign
    Free = Free
    MaxQueue = 1
INVARIANTS
    TypeOK
    NoLeak
    HonestHandles
    FailureCloses
    NonBlockingHolds
PROPERTIES
    NoStrangerClose
    TableSpec
    CallsReturn

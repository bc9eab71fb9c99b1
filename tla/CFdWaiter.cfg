SPECIFICATION FairSpec
CONSTANTS
    Objects = {a}
    MaxFd = 1
    Foreign = Foreign
    Free = Free
    MaxWait = 3
INVARIANTS
    TypeOK
    NeverBadDescriptor
PROPERTIES
    NotEarly
    FalseMeansReady
    SteadyIsSeen
    WaitReturns

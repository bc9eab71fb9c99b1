SPECIFICATION Spec
CONSTANTS
    Objects = {a, b}
    MaxFd = 1
    Foreign = Foreign
    Free = Free
    Unset = Unset
    Default = Default
    None = None
    g1 = g1
    g2 = g2
    eth = eth
    lo = lo
    Requests <- MCRequests
INVARIANT SendsToGroup

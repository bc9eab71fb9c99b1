SPECIFICATION Spec
CONSTANTS
    nsecInSec = 5
    Seconds <- MCSeconds
    Nanosecs <- MCNanosecs
    Counts <- MCCounts
    MaxSec = 20
INVARIANTS
    TypeOK
    Exact
    OrderAgrees

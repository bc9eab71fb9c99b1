SPECIFICATION Spec
CONSTANTS
    Interfaces <- MCInterfaces
    Subjects <- MCSubjects
    PrivateRanges <- MCRanges
INVARIANTS
    TypeOK
    ListsFreed
PROPERTIES
    FoundIsThere
    SteadyIsFound

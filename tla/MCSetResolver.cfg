SPECIFICATION Spec
CONSTANTS
    MinInt <- MCMinInt
    MaxInt = 3
    MaxUnsigned = 7
    Lists <- MCLists
    Bases <- MCBases
    MCLength = 3
INVARIANTS
    NothingUnreachable
    
PROPERTIES
    WorkGrows

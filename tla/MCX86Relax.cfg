SPECIFICATION FairSpec
CONSTANTS
    Sections <- MCSections
    MaxOffset = 18
    MinShort <- MCMinShort
    MaxShort = 7
    MinLong <- MCMinLong
    MaxLong = 15
    MCLength = 3
    MCCascade = 4
INVARIANTS
    WalksAgree
    BranchesReach
    LeastGrowth
PROPERTIES
    Terminates

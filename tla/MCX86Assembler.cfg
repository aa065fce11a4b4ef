SPECIFICATION Spec
CONSTANTS
    Programs <- MCPrograms
    Names <- MCNames
    Temporary <- MCTemporary
    MaxOffset = 48
    MinShort <- MCMinShort
    MaxShort = 7
    MinLong <- MCMinLong
    MaxLong = 40
    Modulus <- MCModulus
    Linkings <- MCLinkings
INVARIANT MergeKeepsOrder
INVARIANT SymbolsMean
 

SPECIFICATION Spec
CONSTANTS
    MinInt <- MCMinInt
    MaxInt = 7
    MaxUnsigned = 15
    Programs <- MCPrograms
    Names = {"x", "y", "l", "m"}
    numeric_label_symbol <- MCSymbols
    MCLength = 1
INVARIANTS
    ConstantsCurrent

SPECIFICATION Spec
CONSTANTS
    SectionNames <- MCSections
    MaxSize = 100
    MaxSpace = 64
    MinInt <- MCMinInt
    MaxInt = 10000
    MaxUnsigned = 20001
    Formats = {"macho", "elf"}
    Programs <- MCPrograms
    Names <- MCNames
    LocalNames = {"L"}
    DotNames = {"L"}
    HiddenNames = {"L"}
    Bits <- MCBits
    MaxAddend = 7
    Linkings <- MCLinkings
    MCLength = 3
INVARIANTS
    SymbolsLand
    SetsInStep
    LinkedValue
    PreemptibleKept
PROPERTIES
    LayoutSteps

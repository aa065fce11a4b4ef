SPECIFICATION ObjectsSpec
CONSTANTS
    SectionNames <- MCSections
    MaxSize = 100
    MaxSpace = 64
    MinInt <- MCMinInt
    MaxInt = 10000
    MaxUnsigned = 20001
    Formats = {"macho", "elf"}
    Programs <- MCPrograms
    Names <- MCNames
    LocalNames = {"L", ".L"}
    DotNames = {".L"}
    HiddenNames = {"L"}
    PoolNames = {"lCPI"}
    TempNames <- MCTemps
    Alphabet <- MCAlphabet
    Bits <- MCBits
    MaxAddend = 7
    Linkings = {}
    MCLength = 3
INVARIANTS
    SymbolsWritten
    RelocationsKept
    GroupsContiguous
    WriterAccepts
    ContentDescribed

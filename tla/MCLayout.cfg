SPECIFICATION LayoutSpec
CONSTANTS
    SectionNames <- MCNames
    MaxSize = 100
    MaxSpace = 64
    Formats = {"macho", "elf"}
    Programs <- MCPrograms
    MCLength = 4
INVARIANTS
    LayoutAgrees
    NoLayoutDrift
    ContentMatchesSize
    EmissionFits
    RowsDisjoint
    BasesDisjoint

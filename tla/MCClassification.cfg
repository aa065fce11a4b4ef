SPECIFICATION Spec
CONSTANTS
    MinInt <- MCMinInt
    MaxInt = 3
    MaxUnsigned = 7
    Names <- MCNames
    SectionIds = {1, 2}
    Exprs <- MCExprs
    Envs <- MCEnvs
    MCSymbols = 4
    MCOffsets = {1, 6}
CHECK_DEADLOCK FALSE
INVARIANTS
    MeaningKept
    RefusedOnlyIfIllegal
    OverflowOnlyIfForced

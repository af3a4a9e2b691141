CONSTANTS
    FileNos <- MC_FileNos
    MaxRecords <- MC_MaxRecords
    TailLens <- MC_TailLens
    LiveWriter = FALSE
    None = None
SPECIFICATION Spec
INVARIANT TypeOK
INVARIANT DecodeExact
INVARIANT OutcomeMatchesSize
CHECK_DEADLOCK FALSE

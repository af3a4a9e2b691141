CONSTANTS
    FileNos <- MC_FileNos
    MaxRecords <- MC_MaxRecords
    TailLens <- MC_TailLens
    LiveWriter = TRUE
    None = None
SPECIFICATION Spec
INVARIANT PacksMatchFile
CHECK_DEADLOCK FALSE

CONSTANTS
    FileNos <- MC_FileNos
    MaxRecords <- MC_MaxRecords
    TailLens <- MC_TailLens
    LiveWriter = TRUE
    None = None
SPECIFICATION Spec
INVARIANT ReservedSlotNumberedLast
CHECK_DEADLOCK FALSE

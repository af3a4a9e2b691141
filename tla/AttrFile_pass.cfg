CONSTANTS
    Heads <- MC_Heads
    TypeBytes <- MC_TypeBytes
    TailLens <- MC_TailLens
    PfEnds <- MC_PfEnds
    Vals <- MC_Vals
    FileNos <- MC_FileNos
    MaxRecords <- MC_MaxRecords
    DpnTailLens <- MC_DpnTailLens
    None = None
SPECIFICATION Spec
INVARIANT TypeOK

INVARIANT ColumnMatchesFiles
INVARIANT TerminatorCheckedFirst
PROPERTY RefinesAttrSpec
CHECK_DEADLOCK FALSE

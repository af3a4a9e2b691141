CONSTANTS
    TableHeads <- MC_TableHeads
    AttrCounts <- MC_AttrCounts
    BlkLens <- MC_BlkLens
    TabNums <- MC_TabNums
    MaxChain <- MC_MaxChain
    Slacks <- MC_Slacks
    MaxBlocks <- MC_MaxBlocks
    MaxAttr <- MC_MaxAttr
    AttrHeads <- MC_AttrHeads
    TypeBytes <- MC_TypeBytes
    TailLens <- MC_TailLens
    PfEnds <- MC_PfEnds
    Vals <- MC_Vals
    FileNos <- MC_FileNos
    MaxRecords <- MC_MaxRecords
    DpnTailLens <- MC_DpnTailLens
    SlotFiles <- MC_SlotFiles
    Configs <- MC_Configs
    None = None
SPECIFICATION Spec
INVARIANT TypeOK
INVARIANT ColumnsInSlotOrder
CHECK_DEADLOCK FALSE

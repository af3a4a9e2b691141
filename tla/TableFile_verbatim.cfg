CONSTANTS
    Heads <- MC_Heads
    AttrCounts <- MC_AttrCounts
    BlkLens <- MC_BlkLens
    TabNums <- MC_TabNums
    MaxChain <- MC_MaxChain
    Slacks <- MC_Slacks
    MaxBlocks <- MC_MaxBlocks
SPECIFICATION Spec
INVARIANT BlocksVerbatim
CHECK_DEADLOCK FALSE

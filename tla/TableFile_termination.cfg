CONSTANTS
    Heads <- MC_Heads
    AttrCounts <- MC_AttrCounts
    BlkLens <- MC_BlkLens
    TabNums <- MC_TabNums
    MaxChain <- MC_MaxChain
    Slacks <- MC_Slacks
    MaxBlocks <- MC_MaxBlocks
SPECIFICATION Spec
PROPERTY Termination
CHECK_DEADLOCK FALSE

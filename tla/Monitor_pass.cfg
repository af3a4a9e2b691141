CONSTANTS
    a = a
    b = b
    Nodes <- MC_Nodes
    MaxTime <- MC_MaxTime
    MaxSends <- MC_MaxSends
    MaxLoss <- MC_MaxLoss
    MaxDup <- MC_MaxDup
    NoReport = NoReport
SPECIFICATION Spec
INVARIANT TypeOK
PROPERTY EventuallyRefreshed
PROPERTY RefinesHeartbeats
CHECK_DEADLOCK FALSE

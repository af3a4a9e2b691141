CONSTANTS
    NoParen = NoParen
    NotInt = NotInt
    Crash = Crash
    NaN = NaN
    ColumnNames <- MC_ColumnNames
    IpNames <- MC_IpNames
    Tables <- MC_Tables
    RecordNums <- MC_RecordNums
    Begins <- MC_Begins
    BatchSize <- MC_BatchSize

SPECIFICATION Spec

INVARIANT TypeOK
INVARIANT DeliveredExactlyOnce
INVARIANT RecordsMatchColumns

\* Every run of either script ends: usage, done, error or a traceback.
CHECK_DEADLOCK FALSE

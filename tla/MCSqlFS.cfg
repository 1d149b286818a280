SPECIFICATION Spec
CONSTANTS
    FileLen = 5
    BufSize = 2
    RowBufSize = 2
    Drivers = {"mysql", "maxcompute", "hive"}
    Metadata = 3
    Saves = 2
INVARIANTS
    SaveOkMeansStored
    ReadInv
PROPERTIES
    SaveEnds
    ReadEnds
CHECK_DEADLOCK FALSE

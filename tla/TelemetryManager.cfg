SPECIFICATION Spec
CONSTANTS
    BufferSize = 4
    FlushThreshold = 2
    StorageFaults = TRUE
    MaxRecords = 6
    MaxRestarts = 1
    MaxReads = 1
INVARIANTS FilesPaired NoLossWhileBuffered RowsOnce
PROPERTIES LastRecordTold

SPECIFICATION Spec
CONSTANTS
    BufferSize = 4
    FlushThreshold = 2
    StorageFaults = FALSE
    MaxRecords = 5
    MaxRestarts = 1
    MaxReads = 0
INVARIANTS HistoryKept

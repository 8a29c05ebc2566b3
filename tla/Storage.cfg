SPECIFICATION FairSpec
CONSTANTS
    core0 = core0
    blank = blank
    Fat = Fat
    Row = Row
    Size = 3
    Unit = 2
    Values = {blank, Fat, Row}
    Erased = blank
    Kinds = {"V1", "V2", "V2HC"}
    EraseSize <- MCEraseSize
    Callers = {core0}
    Nobody = Nobody
    MaxFaults = 3
    MaxPolls = 1
    Volumes = 2
    MountPoints = 1
    MaxInits = 3
INVARIANTS CardLeftReady OkIsDone OthersKept MountIsTrue
PROPERTIES InitIsHonest WorkingCardKept StorageCallsEnd
CHECK_DEADLOCK FALSE

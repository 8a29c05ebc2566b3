SPECIFICATION RSpec
CONSTANTS
    core0 = core0
    core1 = core1
    other = other
    Cores = {core0, core1}
    NoCore = NoCore
    Power = Power
    Groups = {Power, other}
    BufferSize = 3
    FlushThreshold = 2
    IdModulus = 5
    SizeModulus = 64
    StorageFaults = FALSE
    MaxEvents = 4
    Reader = core0
    PageSize = 2
    DefaultCount = 2
    Params = {0, 3, 4, Empty, Junk}
    Empty = Empty
    Junk = Junk
    MaxRequests = 1
INVARIANTS ReplyIsLatest ReplyExactWhileNotFull
PROPERTIES ImplementsLog

SPECIFICATION FairSpec
CONSTANTS
    core0 = core0
    core1 = core1
    other = other
    Cores = {core0}
    NoCore = NoCore
    Power = Power
    Groups = {Power, other}
    BufferSize = 3
    FlushThreshold = 2
    IdModulus = 4
    SizeModulus = 64
    StorageFaults = TRUE
    MaxEvents = 7
INVARIANTS PersistedOnce NothingSkipped RingHoldsLatest
PROPERTIES PowerPersisted

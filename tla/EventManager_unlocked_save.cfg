SPECIFICATION Spec
CONSTANTS
    core0 = core0
    core1 = core1
    other = other
    Cores = {core0, core1}
    NoCore = NoCore
    Power = Power
    Groups = {Power, other}
    BufferSize = 2
    FlushThreshold = 2
    IdModulus = 4
    SizeModulus = 64
    StorageFaults = FALSE
    MaxEvents = 4
INVARIANTS PersistedOnce

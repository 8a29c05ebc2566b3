SPECIFICATION FairSpec
CONSTANTS
    core0 = core0
    core1 = core1
    Nobody = Nobody
    PowerOnTime <- MCPowerOnTime
    Times <- MCTimes
    Offsets = {720}
    Volts = {462}
    Draws <- MCDraws
    Warmth = 101
    MaxFaults = 1
    MaxRounds = 1
    MaxCommands = 1
INVARIANTS StampsHonest ReadingsHonest
PROPERTIES OperationsEnd

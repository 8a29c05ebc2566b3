SPECIFICATION Spec
CONSTANTS
    MaxRaw = 3
    FifoSize = 2
    ExitSequence <- MCExit
    Keys = {"#", "E"}
    Lengths = {2, 4}
    MaxSentences = 3
    MaxTyped = 4
    MaxSessions = 1
    MaxJunk = 1
INVARIANTS DamageConfined NothingMissed SessionExact

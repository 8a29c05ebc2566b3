SPECIFICATION SSpec
CONSTANTS
    Wrap = 8
    Interval = 3
    MaxGap = 5
    MaxNow = 12
    Volts = {1, 2, 3, 4, 5}
    Milliamps = {0, 2}
    CurrentThreshold = 1
    Low = 2
    Full = 4
INVARIANTS NeverOverdue EventsTellState NoEventRepeated
PROPERTIES CollectionsSpaced

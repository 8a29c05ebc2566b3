SPECIFICATION FairSpec
CONSTANTS
    FifoSize = 6
    MaxPktLength = 5
    Packets <- MCPackets
    BootSizes <- MCBootSizes
    Replies <- MCReplies
    MaxPackets = 3
    MaxTimeouts = 1
INVARIANTS ExecutedWasSent SentIsMessage
PROPERTIES ListensAgain
CHECK_DEADLOCK FALSE

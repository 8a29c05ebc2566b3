SPECIFICATION FairSpec
CONSTANTS
    Number <- MCNumber
    MaxGroup = 10
    MaxCommand = 10
    Requests <- MCRequests
    Cuts <- MCCuts
    Radioed <- MCRadioed
    Seconds <- MCSeconds
    EventBufferSize = 100
    ClockFaults = TRUE
    MaxPieces = 2
INVARIANTS WholeFramesExecuted AnswersReadable FlightLocked ConfirmedMeansDone
PROPERTIES OnlySetChanges CommandsEnd RebootHappens

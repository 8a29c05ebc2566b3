SPECIFICATION FairSpec
CONSTANTS
    core0 = core0
    core1 = core1
    Nobody = Nobody
    MaxJobs = 2
    MaxFails = 1
INVARIANTS TableSound
PROPERTIES FileJobsEnd
CHECK_DEADLOCK FALSE

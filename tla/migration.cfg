SPECIFICATION FairSpec
CONSTANTS
    None = None
    Mounting <- EitherWay
    MaxRuns = 2
    MaxFaults = 2
    MaxInterrupts = 1
    MaxEvictions = 1
INVARIANT TypeOK
INVARIANT DoneWithLatestClient
PROPERTY ImplementsHandover
PROPERTY LoginGivenUpForClient
PROPERTY PodReturns
PROPERTY PatchedMeansMigrated
CHECK_DEADLOCK FALSE

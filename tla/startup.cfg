SPECIFICATION FairSpec
CONSTANTS
    MaxChanges = 3
    MaxFaults = 1
    MaxStops = 1
INVARIANT GateHolds
PROPERTY FailedCheckEndsProcess
PROPERTY Serves
CHECK_DEADLOCK FALSE

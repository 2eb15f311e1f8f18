SPECIFICATION FairSpec
CONSTANTS
    None = None
    turbo = turbo
    a = a
    Namespace <- TwoNamespaces
    Actions <- AllActions
    MaxRuns = 4
    MaxFaults = 2
    MaxInterrupts = 2
INVARIANT TypeOK
PROPERTY RightsKept
PROPERTY OperatorGoesLast
PROPERTY DoneMeansServed
PROPERTY UninstallEnds
CHECK_DEADLOCK FALSE

SPECIFICATION FairSpec
CONSTANTS
    None = None
    Config <- MCConfig
    Static <- MCStatic
    StaticPart <- MCStaticPart
    Role <- MCRole
    ManagedRole <- MCManagedRole
    SAName <- MCSAName
    Specs <- ConfigSpecs
    IncompleteSpecs = {}
    CreatedWith <- NoFinalizers
    CleanupScc = FALSE
    Lagging = {}
    AwaitHash = FALSE
    MaxCreates = 1
    MaxEdits = 1
    MaxTampers = 0
    MaxCrashes = 0
    MaxFaults = 0
PROPERTY Converges
CHECK_DEADLOCK FALSE

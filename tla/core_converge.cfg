SPECIFICATION FairSpec
CONSTANTS
    None = None
    Config <- MCConfig
    Static <- MCStatic
    StaticPart <- MCStaticPart
    Role <- MCRole
    ManagedRole <- MCManagedRole
    SAName <- MCSAName
    Specs <- ConvergeSpecs
    IncompleteSpecs <- MissingFields
    CreatedWith <- NoFinalizers
    CleanupScc = FALSE
    Lagging = {"cr", "dep"}
    AwaitHash = TRUE
    MaxCreates = 1
    MaxEdits = 2
    MaxTampers = 0
    MaxCrashes = 0
    MaxFaults = 0
PROPERTY HashPublished
PROPERTY Converges
CHECK_DEADLOCK FALSE

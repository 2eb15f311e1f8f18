SPECIFICATION FairSpec
CONSTANTS
    None = None
    Config <- MCConfig
    Static <- MCStatic
    StaticPart <- MCStaticPart
    Role <- MCRole
    ManagedRole <- MCManagedRole
    SAName <- MCSAName
    Specs <- RoleSpecs
    IncompleteSpecs = {}
    CreatedWith <- NoFinalizers
    CleanupScc = FALSE
    Lagging = {}
    AwaitHash = TRUE
    MaxCreates = 1
    MaxEdits = 0
    MaxTampers = 0
    MaxCrashes = 1
    MaxFaults = 0
PROPERTY TeardownCompletes
CHECK_DEADLOCK FALSE

SPECIFICATION FairSpec
CONSTANTS
    None = None
    Config <- MCConfig
    Static <- MCStatic
    StaticPart <- MCStaticPart
    Role <- MCRole
    ManagedRole <- MCManagedRole
    SAName <- MCSAName
    Specs <- RoleSpecs
    IncompleteSpecs = {}
    CreatedWith <- AnyFinalizers
    CleanupScc = TRUE
    Lagging = {}
    AwaitHash = TRUE
    MaxCreates = 2
    MaxEdits = 1
    MaxTampers = 0
    MaxCrashes = 0
    MaxFaults = 0
INVARIANT PodHasServiceAccount
PROPERTY ImplementsCustody
PROPERTY Converges
PROPERTY TeardownCompletes
PROPERTY DeletionCompletes
CHECK_DEADLOCK FALSE

SPECIFICATION Spec
CONSTANTS
    None = None
    Config <- MCConfig
    Static <- MCStatic
    StaticPart <- MCStaticPart
    Role <- MCRole
    ManagedRole <- MCManagedRole
    SAName <- MCSAName
    Specs <- PairSpecs
    IncompleteSpecs = {}
    CreatedWith <- NoFinalizers
    CleanupScc = TRUE
    Lagging = {"cr", "role"}
    AwaitHash = FALSE
    MaxCreates = 2
    MaxEdits = 2
    MaxTampers = 1
    MaxCrashes = 1
    MaxFaults = 1
CONSTRAINT EditsOrSuccessor
INVARIANT TypeOK
INVARIANT RestartsJustified
INVARIANT PodHasServiceAccount
PROPERTY BindsExistingRole
CHECK_DEADLOCK FALSE

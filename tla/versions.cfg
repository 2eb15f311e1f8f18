SPECIFICATION FairSpec
CONSTANTS
    None = None
    CRs <- MCCRs
    Fixed <- MCFixed
    Placeholder = "VERSION"
    Writes <- MCWrites
    Versions <- MCVersions
    MaxEdits = 2
    MaxRestarts = 2
INVARIANT TypeOK
INVARIANT DefaultKept
PROPERTY FixedVersionServed
PROPERTY DefaultVersionServed
CHECK_DEADLOCK FALSE

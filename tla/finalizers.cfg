SPECIFICATION FairSpec
CONSTANTS
    None = None
    own = own
    a = a
    b = b
    c = c
    Own = own
    Foreign <- OtherThree
    CreatedWith <- FewLists
    MaxCreates = 2
    MaxForeign = 3
INVARIANT TypeOK
INVARIANT ObjectsAreHeld
PROPERTY DeletionCompletes
PROPERTY OwnFinalizerSettles
CHECK_DEADLOCK FALSE

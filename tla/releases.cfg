SPECIFICATION FairSpec
CONSTANTS
    None = None
    kubeturbo = kubeturbo
    a = a
    turbo = turbo
    admin = admin
    all = all
    user = user
    Word <- Words
    Release <- Entangled
INVARIANT TypeOK
PROPERTY ObjectsKept
PROPERTY AllServed
PROPERTY ClusterIsClean
CHECK_DEADLOCK FALSE

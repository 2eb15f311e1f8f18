SPECIFICATION FairSpec
CONSTANTS
    None = None
    w1 = w1
    w2 = w2
    v1 = v1
    v2 = v2
    v3 = v3
    Word <- MCWord
    Version <- MCVersion
    Segment <- MCSegment
    Malformed <- MCMalformed
    Unquote <- MCUnquote
    RolesList <- MCRolesList
    DefaultVersion = v1
    Placeholder = v2
    IfNotPresent = w1
    DefaultNamespaces = w1
    MaxEdits = 2
PROPERTY PodKept
PROPERTY NoEditLost
PROPERTY AcceptableIsServed
CHECK_DEADLOCK FALSE

\* Three members, one that refuses and one listed twice.
SPECIFICATION FairSpec
CONSTANTS
    p1 = p1
    p2 = p2
    p3 = p3
    None = None
    Proxies <- ThreeProxies
    Members <- ManyMembers
    Refusing <- Refuser
    MaxLatency = 1
    MaxPending = 3
INVARIANT FastestIsBest
PROPERTY IsGroup
PROPERTY DeadIsLeft

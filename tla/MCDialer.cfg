\* Every kind of adapter, every reply, and a server that breaks off anywhere.
SPECIFICATION FairSpec
CONSTANTS
    Kinds <- AllKinds
    NameLengths <- SomeNames
    DomainLengths <- Domains
    PayloadLen = 2
INVARIANT TypeOK
INVARIANT HandedOverClean
PROPERTY IsDial
CHECK_DEADLOCK FALSE
PROPERTY DialEnds

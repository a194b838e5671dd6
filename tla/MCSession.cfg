\* One polite client of any kind: what is relayed, and that it ends.
SPECIFICATION FairSpec
CONSTANTS
    s1 = s1
    s2 = s2
    Sessions <- OneSession
    ClientKinds <- AllKinds
    Payload = 2
    Answer = 2
    Eager = FALSE
    Segmented = FALSE
PROPERTY RelaysStreams
CHECK_DEADLOCK FALSE
PROPERTY CloseReclaims

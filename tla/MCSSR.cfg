\* Packets two of which overflow a read, reads that end anywhere, one unit that
\* may be altered; writes of one packet and of two, where the layout changes.
SPECIFICATION FairSpec
CONSTANTS
    IvSize = 2
    LengthSize = 2
    ReadSize = 11
    CallerSize = 11
    SendSizes = {1, 6}
    MaxPackets = 3
    WriteSizes = {1440, 1500, 8192}
    MaxWrites = 2
    TargetSize = 19
INVARIANT TypeOK
INVARIANT ServerUnderstands
INVARIANT GapsOnlyWhereFull
INVARIANT NothingForged
PROPERTY DataArrives
CHECK_DEADLOCK FALSE

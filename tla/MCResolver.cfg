\* Names at the limits of the decoder, answers named in every form, some longer
\* than the buffer, and any byte altered.
SPECIFICATION ResolverFairSpec
CONSTANTS
    Hostnames <- Names
    RecordLists <- Lists
    RecvSize = 90
    Bytes <- Altered
INVARIANT ResolverTypeOK
INVARIANT AnsweredTrue
PROPERTY IsDial
PROPERTY Answered
CHECK_DEADLOCK FALSE

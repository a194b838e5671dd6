\* Chunks longer than the caller's buffer, writes longer than a chunk, and a
\* stream that may be cut or altered anywhere.
SPECIFICATION FairSpec
CONSTANTS
    SaltSize = 2
    TagSize = 1
    MaxChunk = 3
    BufferSize = 2
    MaxWrite = 4
    MaxData = 4
    Tampering = TRUE
INVARIANT TypeOK
INVARIANT NonceOnce
INVARIANT ErrorsAreTrue
PROPERTY IsStream
CHECK_DEADLOCK FALSE
PROPERTY Delivered

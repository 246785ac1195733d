SPECIFICATION SpecStream
CONSTANTS
    ChunkSize = 4
    PutMaxChunks = 3
    FetchMaxChunks = 2
    OutputSize = 13
INVARIANTS
    OutputIsPrefix
    GapsAreWhatIsMissing
\* The command may have printed all it had to.
CHECK_DEADLOCK FALSE

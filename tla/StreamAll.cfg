SPECIFICATION FairSpec
CONSTANTS
    MaxBytes = 6
    MaxChunk = 3
    MayBreak = TRUE
PROPERTIES
    IsStream
    FlushedArrive
\* Every byte read: nothing is left to do.
CHECK_DEADLOCK FALSE

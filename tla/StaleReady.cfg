SPECIFICATION Spec
CONSTANTS
    MaxRuns = 2
    Sourced <- NoSource
    Faults <- AbortOnly
INVARIANTS
    ProvesOnlyAccepted
\* Both pages idle and every click used: the session may rest there.
CHECK_DEADLOCK FALSE

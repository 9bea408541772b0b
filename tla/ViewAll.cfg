SPECIFICATION ViewSpec
CONSTANTS
    MaxRuns = 3
    Sourced = {2}
    Faults = {"abort", "load", "refuse", "close"}
    Uploads = {3}
    LateHashes = FALSE
INVARIANTS
    AsksWhatPends
    Informed
    Watching
\* Both pages idle and every click used: the session may rest there.
CHECK_DEADLOCK FALSE

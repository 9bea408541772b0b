SPECIFICATION FairSpec
CONSTANTS
    MaxRuns = 2
    Batches = 2
    Faults = {"abort", "error", "load", "fetch"}
INVARIANTS
    RunIsAbortable
PROPERTIES
    Relayed
    TrafficComplete
    RunsEnd
\* The page idle and every click used: it may rest there.
CHECK_DEADLOCK FALSE

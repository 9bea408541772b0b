SPECIFICATION FairSpec
CONSTANTS
    MaxRuns = 2
    Sourced <- OddSource
    Faults <- AllFaults
INVARIANTS
    HeldProver
    NoUnlinkedRun
    NoEarlyBytes
    RequestsWaitForWorkers
    RunIsAbortable
PROPERTIES
    NeverVerifiedTwice
    WithdrawnNotStarted
    Reloads
\* Both pages idle and every click used: the session may rest there.
CHECK_DEADLOCK FALSE

SPECIFICATION MixedSpec
CONSTANTS
    MaxRuns = 4
    MaxLinks = 2
    Sourced = {1, 3}
    Faults = {"refuse", "close"}
INVARIANTS
    ProvesOnlyAccepted
    AgreementIsReal
    LocalRunIsAlone
PROPERTIES
    RunsEnd
\* Every click and every peer used: the pages may rest.
CHECK_DEADLOCK FALSE

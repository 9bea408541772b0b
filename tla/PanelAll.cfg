SPECIFICATION ScriptSpec
CONSTANTS
    Examples = {"sha256"}
    MaxClicks = 5
    MaxAborts = 1
    Faults = {"slow", "abort"}
INVARIANTS
    ExportsBelong
    CompiledIsSource
    ScriptsStayPut
    StarterFits
PROPERTIES
    Inspected
\* The user has done enough and everything has arrived: the panel may rest.
CHECK_DEADLOCK FALSE

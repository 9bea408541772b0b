SPECIFICATION FairSpec
CONSTANTS
    Statements <- AllStatements
    Length = 4
    MayTrap = TRUE
INVARIANTS
    OneOwner
    SameMemory
    AnswersAgree
PROPERTIES
    ScriptsSucceed
\* A script that has ended is at rest, and so is one whose peer has failed.
CHECK_DEADLOCK FALSE

SPECIFICATION SudokuSpec
CONSTANTS
    Side = 2
    Relabels <- SomeRelabels
    Clues <- SomeClues
    Forgeries <- SomeGrids
    MaxEdits = 1
INVARIANTS
    RunsGreen
    VerdictIsExact

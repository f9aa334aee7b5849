SPECIFICATION PrSpec
CONSTANTS
    Scripts <- MCScripts
    Ids = {1, 2, 3, 4, 5, 6}
    Pipes = {1, 2}
    MAXARGS = 4
    Plumbings = {TRUE, FALSE}
    HwLines <- MCHwLines
    Pids = {1, 2, 3, 4, 5, 6}
    HWMAXARGS = 3
    Top = 11
    MinUnits = 4
    Units = {2, 3, 5}
    Inputs <- MCInputs
    Patterns <- MCPatterns
    BufSize = 4
    W = 32
    WORD = 4
CHECK_DEADLOCK FALSE
INVARIANTS
    LineInOrder
    ParsesLine
    HwLineInOrder
    ParsesGroups
    HeapInv
    FiltersAgree
    LibraryAgrees
PROPERTIES
    LinesEnd

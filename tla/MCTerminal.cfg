SPECIFICATION TerminalSpec
CONSTANTS
    x = x
    y = y
    rejected = rejected
    Docs <- MCDocs
    InitialDoc <- MCInitialDoc
    CellEdits <- MCCellEdits
    Apply <- MCApply
    Rejected = rejected
    Fill <- MCFill
    DuplicateRow <- MCDuplicateRow
    DuplicateCol <- MCDuplicateCol
    RowsOf <- MCRowsOf
    ColsOf <- MCColsOf
    HiddenRows <- MCHiddenRows
    HiddenCols <- MCHiddenCols
    Heights = {0, 7, 8}
    HasCadence = TRUE
    Rows = 5
    MaxHeight = 5
    BlockRows = 2
    MaxVersion = 2
    Stat <- MCStat
    None = None
INVARIANTS TerminalIInv CleanMeansSaved CaughtByTheNextKey RefusesWithCause
PROPERTIES NoUnwarnedQuit CursorStaysSeen
CHECK_DEADLOCK FALSE

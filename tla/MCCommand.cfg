SPECIFICATION CommandSpec
CONSTANTS
    Up = ".."
    Cwd <- MCCwd
    Files <- MCFiles
    Sources <- MCSources
    Refs <- MCRefs
    None = None
    Stdin = Stdin
    Cells <- MCCells
    Computeds <- MCComputeds
    MaxSheets = 3
    MaxChain = 6
INVARIANTS CommandIInv PrintsProjection ResolvesBesideReferrer StaysInDirectory
    ComputesNoSheetTwice
CHECK_DEADLOCK FALSE

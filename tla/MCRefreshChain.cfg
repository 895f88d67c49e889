SPECIFICATION FairChainSpec
CONSTANTS
    Day = 6
    Milli = 2
    DefaultDelay = 2
    Sheets <- MCSheets
    Flags <- MCFlags
INVARIANT ChainTypeOK
PROPERTIES NextIsSoonest KeepsRefreshing

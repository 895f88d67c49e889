SPECIFICATION ChainSpec
CONSTANTS
    Day = 6
    Milli = 2
    DefaultDelay = 2
    Sheets <- MCFewSheets
    Flags <- MCNoFlag
INVARIANT StopsOnlyWhenNoneIsDue

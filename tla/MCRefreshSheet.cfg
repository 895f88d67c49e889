SPECIFICATION ChainSpec
CONSTANTS
    Day = 6
    Milli = 1
    DefaultDelay = 2
    Sheets <- MCFewSheets
    Flags <- MCNoFlag
INVARIANT FollowsTheSheet

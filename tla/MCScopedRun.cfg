SPECIFICATION RunSpec
CONSTANTS
    Urls <- MCUrls
    References <- MCScopedReferences
    ScopedBase <- MCScopedBase
    MediaTypes <- MCMediaTypes
    Files <- MCFiles
    Loopback <- MCLoopback
    AllowedHosts <- MCAllowedHosts
    Bases <- MCBases
    NoBase = NoBase
    MaxRedirects = 5
    MaxBytes = 2
    Longest = 4
INVARIANTS RunIInv OnlyPermitted ResolvesWhatIsThere
PROPERTIES FetchEnds ListenerGoes
CHECK_DEADLOCK FALSE

SPECIFICATION Spec
CONSTANTS
    Urls <- MCUrls
    References <- MCReferences
    Loopback <- MCLoopback
    AllowedHosts <- MCAllowedHosts
    Bases <- MCBases
    NoBase = NoBase
    MaxRedirects = 5
    MaxBytes = 2
    Longest = 4
INVARIANT FollowsMaxRedirects

SPECIFICATION Spec
CONSTANTS
    p1 = p1
    p2 = p2
    s1 = s1
    s2 = s2
    s3 = s3
    a = a
    b = b
    old = old
    owner = owner
    group = group
    others = others
    Savers = {s1, s2}
    Processes = {p1}
    ProcessOf <- MCProcessOf
    Contents = {a, b}
    OldSheets <- MCOldSheets
    NoFile = NoFile
    Truncated = Truncated
    Sheet = Sheet
    Bits <- MCBits
    OldModes <- MCOldModes
    Private <- MCPrivate
    Umask <- MCUmask
    MaxSaves = 3
INVARIANT IInv
PROPERTIES ReplacesAtomically NeverWidens
SYMMETRY MCSymmetry
CHECK_DEADLOCK FALSE

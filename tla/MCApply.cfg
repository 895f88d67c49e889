SPECIFICATION Spec
CONSTANTS
    Savers = {a1, a2}
    d0 = d0
    d1 = d1
    d2 = d2
    raw = raw
    garbled = garbled
    Docs <- MCDocs
    Contents <- MCDocs
    OldSheets <- MCOld
    Parse <- MCParse
    Text <- MCText
    Batches <- MCBatches
    Nothing = Nothing
    Bad = Bad
    NoBase = NoBase
INVARIANTS IInv
PROPERTIES FoldsTheFileUnlessOvertaken
SYMMETRY MCSymmetry
CHECK_DEADLOCK FALSE

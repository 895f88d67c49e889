SPECIFICATION FairSpec
CONSTANTS
    c1 = c1
    c2 = c2
    c3 = c3
    blank = blank
    text = text
    rejected = rejected
    Callers = {c1, c2}
    NoCaller = NoCaller
    Docs <- MCDocs
    InitialDoc <- MCInitialDoc
    CellEdits <- MCCellEdits
    StructuralEdits <- MCStructuralEdits
    Apply <- MCApply
    Rejected = rejected
    MaxTick = 2
INVARIANT IInv
PROPERTIES PassesInOrder ActsAtomically EveryCallReturns

SPECIFICATION Spec
CONSTANTS
    r1 = r1
    r2 = r2
    r3 = r3
    setCell = setCell
    malformed = malformed
    insertRow = insertRow
    Requests = {r1, r2}
    NoDoc = NoDoc
    EdgeFill = EdgeFill
    BadRequest = BadRequest
    Docs <- MCDocs
    InitialDoc <- MCInitialDoc
    CellEdits <- MCCellEdits
    StructuralEdits <- MCStructuralEdits
    Apply <- MCApply
    Rejected = Rejected
    MaxTick = 3
INVARIANTS IInv CleanUnlessRaced ReadYourWrite
SYMMETRY MCSymmetry

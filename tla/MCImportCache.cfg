SPECIFICATION Spec
CONSTANTS
    Callers = {c1, c2}
    NoCaller = NoCaller
    Keys = {k1, k2}
    Missing = Missing
    Failed = Failed
    MaxVersion = 2
INVARIANTS IInv RefreshIsFresh
PROPERTY ImportsHoldStill
SYMMETRY MCSymmetry

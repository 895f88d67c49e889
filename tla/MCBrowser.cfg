CONSTANTS
    Slots = {q1, q2}
    Cells = {a, b}
    Texts = {empty, t}
    Empty = empty
    Bar = bar
    Typed = typed
    None = none
SYMMETRY Symmetry
SPECIFICATION PageSpec
INVARIANTS PageIInv AloneStaysAlone
PROPERTY BarIsOfSelection

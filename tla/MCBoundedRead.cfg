SPECIFICATION Spec
CONSTANTS
    Bytes <- MCBytes
    Census <- MCCensus
    Budget = 2
    Checkpoint = 1
    MaxLength = 6
INVARIANTS IInv RefusedEarly ArrivesWhole
CHECK_DEADLOCK FALSE

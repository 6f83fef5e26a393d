SPECIFICATION Spec
CONSTANTS
    Rank = {r1, r2}
    NumChunks = 1
    MaxFaults = 1
INVARIANT
    ReleasedIsDrained
CHECK_DEADLOCK FALSE

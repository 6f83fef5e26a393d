SPECIFICATION HCUSpec
CONSTANTS
    Rank = {r1, r2}
    NumChunks = 1
    MaxFaults = 0
INVARIANT
    ReleasedIsQuiet
CHECK_DEADLOCK FALSE

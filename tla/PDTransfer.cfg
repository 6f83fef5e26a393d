SPECIFICATION FairSpec
CONSTANTS
    Rank = {r1, r2}
    NumChunks = 1
    MaxFaults = 1
INVARIANTS
    TypeOK
    ReleasedIsQuiet
    AckedIsStopped
    ReportedIsLanded
PROPERTIES
    ImplementsHandoff
    DrainsWithoutFault
    PagesSettle
    PrefillSettles
CHECK_DEADLOCK FALSE

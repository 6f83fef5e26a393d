CONSTANTS
    r1 = r1  r2 = r2  r3 = r3  x = x  y = y  z = z
    Req = {r1, r2, r3}
    Admin = Admin
    Name = {x, y, z}
    Paths <- MCSinglePaths
    ListForm = {r3}
    Preloaded <- MCPinnedFirst
    Managed = {x, y}
    Pinned = {z}
    MaxLoaded = 2
    Rank = {1, 2}
    Id <- MCId
    NoId = NoId
    NoName = NoName
SPECIFICATION FairSpec
INVARIANTS
    UsedStaysLoaded
    CountersExact
    RegisteredIsLoaded
    NothingOrphaned
    SingleNeverMissing
PROPERTIES
    ReloadsEnd

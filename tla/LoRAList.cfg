CONSTANTS
    r1 = r1  r2 = r2  r3 = r3  x = x  y = y  z = z
    Req = {r1, r2}
    Admin = Admin
    Name = {x, y, z}
    Paths <- MCListPaths
    ListForm = {r1}
    Preloaded <- MCPair
    Managed = {x, z}
    Pinned = {}
    MaxLoaded = 2
    Rank = {1}
    Id <- MCId
    NoId = NoId
    NoName = NoName
SPECIFICATION Spec
INVARIANT UsedStaysLoaded

SPECIFICATION Spec
CONSTANTS
  ta = ta
  tb = tb
  Token <- MCToken
  Page = {p1, p2, p3, p4, p5, p6, p7}
  PageSize = 1
  Req = {r1, r2, r3}
  NoReq = NoReq
  Prompts <- MCPrompts
  Sampled = {tb}
  MaxNewTokens = 5
  InputMargin = 1
  ClipMaxNew = 0
  ChunkSize = 2
  MaxRunning = 2
  ReqRows = 2
  RetractSteps = 1
  Overlap = TRUE
  Reuse = FALSE
SYMMETRY Symmetry
INVARIANTS
  TypeOK
  ResultQueueDepth
  AllocationNeverFails
  ProtectedPrefixResident
  ContentRight
  SlotOwnership
  LockRefExact
  AccountingExact
  OutputFollowsDevice
  MiddleChunksExact
  BatchMembership

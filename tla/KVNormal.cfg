SPECIFICATION Spec
CONSTANTS
  ta = ta
  tb = tb
  Token <- MCToken
  Page = {p1, p2, p3, p4, p5}
  PageSize = 2
  Req = {r1, r2}
  NoReq = NoReq
  Prompts <- MCPagedPrompts
  Sampled = {tb}
  MaxNewTokens = 7
  InputMargin = 1
  ClipMaxNew = 1
  ChunkSize = 2
  MaxRunning = 2
  ReqRows = 2
  RetractSteps = 1
  Overlap = FALSE
  Reuse = TRUE
SYMMETRY Symmetry
INVARIANTS
  SlotOwnership
  LockRefExact
  OutputFollowsDevice
  LastRequestFits

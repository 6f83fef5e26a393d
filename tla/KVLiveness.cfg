SPECIFICATION FairSpec
CONSTANTS
  ta = ta
  tb = tb
  Token <- MCToken
  Page = {p1, p2, p3, p4, p5}
  PageSize = 2
  Req = {r1, r2, r3}
  NoReq = NoReq
  Prompts <- MCPagedPrompts
  Sampled = {tb}
  MaxNewTokens = 3
  InputMargin = 1
  ClipMaxNew = 1
  ChunkSize = 2
  MaxRunning = 3
  ReqRows = 3
  RetractSteps = 1
  Overlap = TRUE
  Reuse = FALSE
INVARIANTS
  AllocationNeverFails
PROPERTIES
  LockedPathStable
  EventuallyFinished

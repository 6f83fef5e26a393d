CONSTANTS
    Reader = {r1, r2, r3}
    Writer = {w1, w2, w3}
    Cancellable = {r1, r2, r3, w1, w2, w3}
    PassOnNotify = TRUE
SPECIFICATION FairSpec
INVARIANTS
    MutualExclusion
    CountersExact
    NoStrandedWaiter
PROPERTIES
    WritersNotOvertaken
    EventuallyServed

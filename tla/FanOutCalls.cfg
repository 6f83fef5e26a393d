CONSTANTS
    Caller = {c1, c2, c3}
    NoCaller = NoCaller
    MaxFanOut = 2
    Modes = {"queueing", "watching"}
    Cancellable = {c1, c2}
SPECIFICATION FairSpec
INVARIANTS
    RepliesRouted
    SlotWaitedFor
PROPERTY
    CallsReturn

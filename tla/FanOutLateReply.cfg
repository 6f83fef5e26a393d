CONSTANTS
    Caller = {c1, c2}
    NoCaller = NoCaller
    MaxFanOut = 2
    Modes = {"queueing"}
    Cancellable = {c1}
SPECIFICATION Spec
INVARIANT OwnReplies

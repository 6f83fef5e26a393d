CONSTANTS
    Reader = {r1, r2}
    Writer = {w1, w2}
    Cancellable = {w1, w2}
    PassOnNotify = FALSE
SPECIFICATION Spec
INVARIANT NoStrandedWaiter

CONSTANTS
    t1 = t1
    t2 = t2
    t3 = t3
    NoTransfer = NoTransfer
    Transfers <- TwoTransfers
    Mocks = {TRUE}
    SubmitMayFail = FALSE
SPECIFICATION Spec
INVARIANT CompletedIsPending
CHECK_DEADLOCK FALSE

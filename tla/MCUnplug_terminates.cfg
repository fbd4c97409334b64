CONSTANTS
    t1 = t1
    t2 = t2
    t3 = t3
    NoTransfer = NoTransfer
    Transfers <- TwoTransfers
    Mocks = {FALSE}
    SubmitMayFail = FALSE
    MaxCommands = 1
SPECIFICATION UnplugSpec
INVARIANT NoCallIntoDestroyed
CHECK_DEADLOCK FALSE

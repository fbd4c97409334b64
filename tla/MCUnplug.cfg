CONSTANTS
    t1 = t1
    t2 = t2
    t3 = t3
    NoTransfer = NoTransfer
    Transfers <- TwoTransfers
    Mocks = {TRUE, FALSE}
    SubmitMayFail = TRUE
    MaxCommands = 2
SPECIFICATION FairUnplugSpec
INVARIANT FreedOnce
INVARIANT NotFreedInFlight
INVARIANT CancelQuiesces
INVARIANT NothingLeaked
INVARIANT ProxiedFindsEntry
PROPERTY UnplugEnds
PROPERTY AllAnswered
CHECK_DEADLOCK FALSE

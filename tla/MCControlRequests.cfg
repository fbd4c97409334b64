CONSTANTS
    Count <- CountOfTwo
    Alts = {0, 1, 2}
    MaxFailures = 2
SPECIFICATION Spec
INVARIANT HostAgrees
INVARIANT RetryTakesEffect
INVARIANT DriversReturn
INVARIANT CrashesOnlyUnconfigured
CHECK_DEADLOCK FALSE

CONSTANTS
    Sizes <- SomeSizes
    MaxPackets = 3
    Statuses = {"completed", "failed"}
SPECIFICATION Spec
INVARIANT InBounds
INVARIANT NothingTruncated
INVARIANT IntactUpToFailure
CHECK_DEADLOCK FALSE

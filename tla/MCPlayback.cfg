CONSTANTS
    Shapes <- TwoShapes
    MaxRecords = 2
    MaxSessions = 2
    WritesMayFail = TRUE
    Lengths = {1}
    MaxRequests = 1
SPECIFICATION Spec
INVARIANT PlaybackTypeOK
INVARIANT PlaybackFaithful
INVARIANT RecordedInOrder
INVARIANT NothingForgotten
INVARIANT HostGetsRecorded
PROPERTY LoopsBack
PROPERTY RequestsAnswered
PROPERTY DestructorsReturn
CHECK_DEADLOCK FALSE

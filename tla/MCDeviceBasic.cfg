CONSTANTS
    Addresses <- AllAddresses
    Outcomes = {"completed", "failed"}
    MaxCommands = 3
SPECIFICATION FairSpec
INVARIANT TypeOK
INVARIANT NoReplyAfterUnlink
INVARIANT AtMostOneReply
INVARIANT OwnData
INVARIANT AnsweredInOrder
INVARIANT UnlinkInv
PROPERTY UnlinkAnswered
PROPERTY KeepsContract
CHECK_DEADLOCK FALSE

CONSTANTS
    Nodes = {1, 2}
    Thresholds = {0, 1}
    NoSig = NoSig
    NoRow = NoRow
    Faulty = {1}
    MaxCrashes = 1
SPECIFICATION Spec
CHECK_DEADLOCK FALSE
INVARIANTS
    RepliesAgree
    ReplyByAll
    SameMembers
    OneReply
PROPERTIES
    ComputesOnce

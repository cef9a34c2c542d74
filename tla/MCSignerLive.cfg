CONSTANTS
    Nodes = {1, 2}
    Thresholds = {0, 1}
    NoSig = NoSig
    NoRow = NoRow
    Faulty = {1, 2}
    MaxCrashes = 0
SPECIFICATION FairSpec
CHECK_DEADLOCK FALSE
PROPERTIES
    Settles
    Answered

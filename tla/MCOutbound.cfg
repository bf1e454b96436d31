SPECIFICATION FairSpec
CONSTANTS
    Passes = {p1, p2}
    Replies = {1, 2}
    Blocked = {2}
    MaxAttempts = 2
    Batch = 2
    MaxFaults = 1
INVARIANTS
    TypeOK
    SentOnce
    OneSender
PROPERTIES
    Resolved
CHECK_DEADLOCK FALSE

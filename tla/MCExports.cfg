SPECIFICATION Spec
CONSTANTS
    Jobs = {1, 2}
    Requests = {r1, r2}
    Passes = {p1, p2}
    Limit = 2
    QuotaMax = 1
    MaxFaults = 1
INVARIANTS
    TypeOK
    Recorded
    BytesMatchRows
PROPERTIES
    KeepsPromise
    BytesGo
CHECK_DEADLOCK FALSE

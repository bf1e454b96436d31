SPECIFICATION FairSpec
CONSTANTS
    ann = ann
    lee = lee
    max = max
    NoOne = NoOne
    People = {ann, lee, max}
    Leads = {lee, max}
    Desks = {d1, d2}
    Players = {1, 2}
    Keys = {1, 2, 3}
    Asks <- MCAsks
    Calls = {c1, c2}
    Passes = {w1}
    Batch = 2
    MaxFaults = 1
    MaxEdits = 1
INVARIANTS
    TypeOK
    NeverDropped
    KeyOnce
PROPERTIES
    HandMovesStand
    LeaverLetGo
CHECK_DEADLOCK FALSE

SPECIFICATION Spec
CONSTANTS
    ann = ann
    lee = lee
    max = max
    NoOne = NoOne
    People = {ann, lee, max}
    Leads = {lee}
    Desks = {d1}
    Players = {1}
    Keys = {1}
    Asks <- MCAsksOne
    Calls = {c1}
    Passes = {w1}
    Batch = 1
    MaxFaults = 0
    MaxEdits = 0
INVARIANT ManagerIsAUser
CHECK_DEADLOCK FALSE

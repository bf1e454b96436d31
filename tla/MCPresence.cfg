SPECIFICATION FairSpec
CONSTANTS
    People = {ann, lee}
    Handlers = {h1, h2}
    Passes = {w1}
    Batch = 1
    NoOne = NoOne
    MaxFaults = 1
    Settable = {"online", "away"}
    MaxSets = 1
INVARIANT TypeOK
PROPERTIES
    
    GoesOffline
CHECK_DEADLOCK FALSE

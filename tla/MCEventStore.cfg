SPECIFICATION StoreSpec
CONSTANTS
    Stores = {s1, s2}
    Events = {e1, e2}
    NoStore = NoStore
    BrokenLine = BrokenLine
    MaxLines = 4
INVARIANTS
    StoreTypeOK
    AllowedMeansComplete
CHECK_DEADLOCK FALSE

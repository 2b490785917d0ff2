SPECIFICATION DurabilitySpec
CONSTANTS
    Stores = {s1, s2}
    Events <- MCEvents
    NoStore = NoStore
    BrokenLine = BrokenLine
    MaxLines = 3
    ActorIds = {account, orders}
    NoState = NoState
    MaxVersion = 2
    MaxWritten = 2
SYMMETRY Symmetry
INVARIANTS
    AllowedMeansComplete
    RecoveredIff
CHECK_DEADLOCK FALSE

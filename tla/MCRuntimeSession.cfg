SPECIFICATION SessionSpec
CONSTANTS
    Actors = {om}
    MaxRestarts = 1
    Window = 2
    MaxTime = 2
    MaxFailures = 3
    MaxOrders = 2
    NoDecision = NoDecision
INVARIANTS
    RestartBudget
PROPERTIES
    OrdersApproved
    KillSwitchHolds
    FaultBlocksOrders

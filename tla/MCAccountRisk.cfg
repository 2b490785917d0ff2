SPECIFICATION RiskSpec
CONSTANTS
    Instruments = {"a", "b"}
    Continuous <- MCContinuous
    Quantities <- MCQuantities
    Prices = {60, 120}
    InitialCash = 150
    Commission = 1
    RuleSets <- MCRuleSets
    MaxPosition = 1
    MaxLeverage = 2
    MaxNotional = 180
    MaxLoss = 30
    MaxPercent = 100
    MarginDivisor = 2
    Future = "future"
    None = None
    MaxIntents = 4
    MaxSessions = 2
CONSTRAINT SessionBound
INVARIANTS
    AccountBalances
    LimitUnlessInFlight
    LimitsAfterFills
PROPERTIES
    LossStopsOrders
CHECK_DEADLOCK FALSE

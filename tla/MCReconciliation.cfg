SPECIFICATION ReconSpec
CONSTANTS
    Keys = {1, 2}
    OrderKeys = {2}
    Amounts = {0, 1, 2}
    Tolerance = 1
    Threshold = 3
    None = None
INVARIANTS
    LeadingDriftTrips
PROPERTIES
    TripIsPersistent
    TradingMeansAgreement

SPECIFICATION RecoverySpec
CONSTANTS
    o1 = o1
    NoFill = NoFill
    NoOrder = NoOrder
    Untracked = Untracked
    OrderIds <- MCOrderIds
    BrokerOrderIds <- MCBrokerOrderIds
    BrokerId <- MCBrokerId
    Reports <- MCReports
    FillIds <- MCFillIds
    ReportIds <- MCReportIds
    ReportFor <- MCReportFor
    Requests <- MCRequests
    MaxCopies <- MCMaxCopies
    MaxRestarts = 2
CHECK_DEADLOCK FALSE
INVARIANTS
    SeenIffApplied
PROPERTIES
    LedgerKept

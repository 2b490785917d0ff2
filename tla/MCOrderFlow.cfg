SPECIFICATION FlowSpec
CONSTANTS
    o1 = o1
    o2 = o2
    NoFill = NoFill
    NoOrder = NoOrder
    Untracked = Untracked
    OrderIds <- MCOrderIds
    BrokerOrderIds <- MCBrokerOrderIds
    BrokerId <- MCBrokerId
    Reports <- MCReports
    FillIds <- MCFillIds
    ReportIds <- MCReportIds
    ReportFor <- MCReportFor
    Requests <- MCRequests
    MaxCopies <- MCMaxCopies
CHECK_DEADLOCK FALSE
INVARIANTS
    NoSilentLoss
    NeverAheadOfBroker
PROPERTIES
    SubmissionAnswered
    FillSettled

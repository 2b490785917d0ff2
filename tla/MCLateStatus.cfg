SPECIFICATION AdapterSpec
CONSTANTS
    Orders = {c1, c2}
    NoOrder = NoOrder
    MaxOrderId = 2
    MaxConnections = 3
    MaxProcesses = 2
    Execs = {"e1"}
    Foreign = {"f1"}
    BrokerIds = {"n1"}
    OrderIdOf <- MCOrderIdOf
    FillReaders = {r1, r2}
    Driver = Driver
    NoExec = NoExec
    MaxBooked = 2
    Clients = {c1, c2}
    NoClient = NoClient
    Ids = {1, 2}
    NoId = 0
    Statuses <- MCFinalStatuses
    OpenStatuses = {"Submitted"}
    ManualOrders = {"Submitted"}
    Events = {"fatal"}
    Others = {"position"}
    WaitSets = {{"ACCEPTED"}}
    MaxQuarantine = 2
    MaxReports = 1
    MaxRestarts = 1
    MaxCallbacks = 3
CONSTRAINT AdapterBound
SYMMETRY AdapterSymmetry
PROPERTY FilledStaysFilled
CHECK_DEADLOCK FALSE

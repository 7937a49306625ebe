SPECIFICATION FairSpec
CONSTANTS
    Uids = {u1}
    Addresses = {a, b}
    NoAddress = none
    Handlers = {h1}
    Workers = {w1, w2}
    AsyncHandlers = {h1}
    AutoRecover = FALSE
    MaxRequeues = 1
    MaxAttempts = 3
    MaxStalls = 0
    BroadcastOutcomes = {"throw"}
    Crashes = FALSE
    DbFaults = FALSE
    MetaShapes = {TRUE}
    MaxRecords = 1
    MaxJobs = 1
    MaxTxs = 5
CHECK_DEADLOCK FALSE
PROPERTY PollingEnds

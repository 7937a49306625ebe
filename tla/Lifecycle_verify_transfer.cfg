SPECIFICATION Spec
CONSTANTS
    Uids = {u1}
    Addresses = {a, b}
    NoAddress = none
    Handlers = {h1}
    Workers = {w1, w2}
    AsyncHandlers = {h1}
    AutoRecover = FALSE
    MaxRequeues = 1
    MaxAttempts = 1
    MaxStalls = 0
    BroadcastOutcomes = {"success"}
    Crashes = FALSE
    DbFaults = FALSE
    MetaShapes = {TRUE}
    MaxRecords = 2
    MaxJobs = 2
    MaxTxs = 5
CHECK_DEADLOCK FALSE
INVARIANT VerifiesAuthentic

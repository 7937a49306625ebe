SPECIFICATION OpsSpec
CONSTANTS
    Uids = {u1}
    Addresses = {a, b}
    NoAddress = none
    Handlers = {h1}
    Workers = {w1}
    AsyncHandlers = {h1}
    AutoRecover = FALSE
    MaxRequeues = 1
    MaxAttempts = 1
    MaxStalls = 0
    BroadcastOutcomes = {"success", "failure"}
    Crashes = FALSE
    DbFaults = FALSE
    MetaShapes = {TRUE}
    MaxRecords = 2
    MaxJobs = 2
    MaxTxs = 3
    Scripts = {s1}
    Admins = {a1}
    BatchLimit = 2
    Repairers = {p1}
    RequeueRecovered = FALSE
    Reports = {}
    OperatorsDie = TRUE
    MaxRetries = 1
SYMMETRY OpsSymmetry
CHECK_DEADLOCK FALSE
INVARIANTS HeadRecorded Evidenced
PROPERTIES HandedOverByHolder

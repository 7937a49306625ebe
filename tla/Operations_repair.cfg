SPECIFICATION OpsSpec
CONSTANTS
    Uids = {u1}
    Addresses = {a, b}
    NoAddress = none
    Handlers = {h1}
    Workers = {w1}
    AsyncHandlers = {h1}
    AutoRecover = TRUE
    MaxRequeues = 1
    MaxAttempts = 1
    MaxStalls = 1
    BroadcastOutcomes = {"success", "failure"}
    Crashes = TRUE
    DbFaults = FALSE
    MetaShapes = {TRUE}
    MaxRecords = 2
    MaxJobs = 2
    MaxTxs = 2
    Scripts = {}
    Admins = {}
    BatchLimit = 2
    Repairers = {p1}
    RequeueRecovered = TRUE
    Reports = {"retry", "requeue"}
    OperatorsDie = TRUE
    MaxRetries = 1
SYMMETRY OpsSymmetry
CHECK_DEADLOCK FALSE
PROPERTIES KeepsCustody

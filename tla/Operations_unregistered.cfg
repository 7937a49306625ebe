SPECIFICATION OpsSpec
CONSTANTS
    Uids = {u1}
    Addresses = {a, b}
    NoAddress = none
    Handlers = {h1}
    Workers = {w1}
    AsyncHandlers = {h1}
    AutoRecover = FALSE
    MaxRequeues = 1
    MaxAttempts = 1
    MaxStalls = 0
    BroadcastOutcomes = {"success"}
    Crashes = FALSE
    DbFaults = FALSE
    MetaShapes = {TRUE}
    MaxRecords = 1
    MaxJobs = 1
    MaxTxs = 2
    Scripts = {}
    Admins = {a1}
    BatchLimit = 2
    Repairers = {}
    RequeueRecovered = FALSE
    Reports = {}
    OperatorsDie = FALSE
    MaxRetries = 1
SYMMETRY OpsSymmetry
CHECK_DEADLOCK FALSE
INVARIANT ConfirmedVerifies

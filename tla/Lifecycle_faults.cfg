SPECIFICATION FairSpec
CONSTANTS
    Uids = {u1}
    Addresses = {a, b}
    NoAddress = none
    Handlers = {h1}
    Workers = {w1}
    AsyncHandlers = {h1}
    AutoRecover = TRUE
    MaxRequeues = 1
    MaxAttempts = 2
    MaxStalls = 0
    BroadcastOutcomes = {"success", "failure", "throw"}
    Crashes = TRUE
    DbFaults = TRUE
    MetaShapes = {TRUE}
    MaxRecords = 2
    MaxJobs = 3
    MaxTxs = 6
CHECK_DEADLOCK FALSE
INVARIANTS OnChain CompletedIsConfirmed OneRunPerRecord BroadcastsBounded
PROPERTIES JobsSettle ConfirmedIsFinal KeepsCustody

SPECIFICATION Spec
CONSTANTS
    Uids = {u1}
    Addresses = {a, b}
    NoAddress = none
    Handlers = {h1, h2}
    Workers = {w1, w2}
    AsyncHandlers = {h1}
    AutoRecover = FALSE
    MaxRequeues = 1
    MaxAttempts = 1
    MaxStalls = 0
    BroadcastOutcomes = {"success"}
    Crashes = FALSE
    DbFaults = FALSE
    MetaShapes = {TRUE}
    MaxRecords = 3
    MaxJobs = 3
    MaxTxs = 3
SYMMETRY Symmetry
CHECK_DEADLOCK FALSE
INVARIANTS Inductive NoFork SignedByHolder
PROPERTIES KeepsCustody

SPECIFICATION PosSpec
CONSTANTS
    Uids = {u1}
    Addresses = {a, b}
    NoAddress = none
    Handlers = {h1}
    Workers = {w1}
    AsyncHandlers = {}
    AutoRecover = TRUE
    MaxRequeues = 1
    MaxAttempts = 1
    MaxStalls = 0
    BroadcastOutcomes = {"success", "failure"}
    Crashes = TRUE
    DbFaults = FALSE
    MetaShapes = {TRUE}
    MaxRecords = 3
    MaxJobs = 3
    MaxTxs = 3
    Approvals = {p1, p2}
    AsyncApprovals = {p1, p2}
    ClaimShapes = {TRUE, FALSE}
    IntentFaults = TRUE
    MaxIntents = 1
SYMMETRY PosSymmetry
CONSTRAINT PosBound
INVARIANTS PosTypeOK ClaimHonoured HandedOverOrClaimed
CHECK_DEADLOCK FALSE

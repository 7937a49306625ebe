SPECIFICATION Spec
CONSTANTS
    Connections = {c1, c2}
    Signals = {s1, s2}
    MaxRetries = 5
INVARIANTS ProcTypeOK ProductionGuarded StoresOutliveRequests
PROPERTIES ShutdownEnds StartupSettles
CHECK_DEADLOCK FALSE

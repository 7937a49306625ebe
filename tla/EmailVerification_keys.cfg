SPECIFICATION Spec
CONSTANTS
    MaxCodes = 2
    MaxSubmits = 2
    Keys = {k1, k2}
    RequestMax = 1
    RequestWindow = 1
    SubmitMax = 2
    SubmitWindow = 1
    CodeTTL = 1
    Async = FALSE
    MaxAttempts = 1
    MaxStalls = 0
    MaxFaults = 1
    MaxTime = 1
SYMMETRY KeySymmetry
INVARIANT GuessesBounded
PROPERTY RefinesOneTimeSecret
CHECK_DEADLOCK FALSE

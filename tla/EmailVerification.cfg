SPECIFICATION FairSpec
CONSTANTS
    MaxCodes = 2
    MaxSubmits = 2
    Keys = {k1}
    RequestMax = 1
    RequestWindow = 2
    SubmitMax = 2
    SubmitWindow = 1
    CodeTTL = 1
    Async = TRUE
    MaxAttempts = 2
    MaxStalls = 1
    MaxFaults = 1
    MaxTime = 1
INVARIANTS TypeOK GuessesBounded
PROPERTIES RefinesOneTimeSecret CodeArrives
CHECK_DEADLOCK FALSE

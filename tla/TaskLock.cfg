SPECIFICATION FairSpec
CONSTANTS
    Processes = {p1, p2}
    TTL = 7
    Delay = 1
    Prompt = {p1}
    MissedBeats = 1
    Faults = TRUE
    MaxTokens = 3
CHECK_DEADLOCK FALSE
INVARIANTS TypeOK LeaseHeld
PROPERTIES OwnersDecide FreeAgain

SPECIFICATION FairSpec
CONSTANTS
    Outputs <- OutputPlaces
    Deposits = {3}
    Managers = {m1}
    Actions = {"auto"}
    Scripts = {"reap", "revert", "add"}
    MinCount = 2
    SplitSize = 2
    MaxSplit = 1
    DustThreshold = 3
    DustLimit = 1
    Fee = 1
    MinChange = 1
    ChangeReturns = TRUE
    MaxFaults = 1
INVARIANT TypeOK
PROPERTIES SpentIsSpent PoolHeals

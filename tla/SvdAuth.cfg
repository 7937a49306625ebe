SPECIFICATION FairSpec
CONSTANTS
    alice = alice
    phone = phone
    Users = {alice}
    MaxKeys = 2
    Devices = {phone}
    UserOf <- Owners
    KeyOf <- Signers
    MaxChallenges = 2
    MaxPosts = 2
    MaxCalls = 2
    NoDevice = NoDevice
    ChallengeTTL = 1
    ReplayTTL = 2
    MaxKmsTries = 2
    MaxLoginTries = 2
    MaxCrashes = 1
    MaxTime = 3
INVARIANTS TypeOK RefusalsJustified RetiredKeyOpensNothing
PROPERTIES RefinesOneTimeSecret LoginEnds
CHECK_DEADLOCK FALSE

SPECIFICATION MCSpec
CONSTANTS
    Clients = {c1, c2}
    Resources = {r1, r2}
    None = None
    Tokens = {k1, k2, k3, k4}
    ExpSecond = 2
    TrySecond = 1
    MaxActive = 3
    MaxErrors = 1
    MaxPending = 2
    Nodes = {0, 1}
    NodeSpace = 2
    StepSpace = 2
    Epoch = 1
    MaxClock = 4
    MaxIDs = 4
    MaxSetBacks = 2
    Parts <- MCParts
    Files <- MCFiles
    MaxCrashes = 2
    MaxLosses = 2
INVARIANTS
    MutualExclusion
    WakeupDelivered
    UniqueIDs
    TextsReadBack
    RoundTrips
    AnswerMatches
PROPERTIES
    OnlyOwnerReleases
    WaiterReturns
    GenerateReturns
    Recovers
CHECK_DEADLOCK FALSE

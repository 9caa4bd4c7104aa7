SPECIFICATION FairSpec
CONSTANTS
    Threads = {t1, t2}
    NumConns = 5
    Nil = Nil
    MaxIdle = 1
    MaxActive = 3
    MaxConcurrentStreams = 1
    Reuse = FALSE
    IndexMod = 4
    MaxInt32 = 6
    MaxErrors = 2
    CloseDuringConnClose = TRUE
INVARIANTS
    HandedOutLive
    NoConnLeak
    QuiescentShrunk
PROPERTIES
    CallsReturn
CHECK_DEADLOCK FALSE

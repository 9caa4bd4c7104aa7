SPECIFICATION FairSpec
CONSTANTS
    Schedules <- Everys
    Tasks <- OneTask
    Chains <- AllChains
    MaxClock = 4
    Lag = 1
    MaxEntries = 2
    MaxCalls = 3
INVARIANTS
    NoOverlap
    ContextMeansFinished
PROPERTIES
    StartsJustified
    DueEntryStarts
    EveryoneAnswered
CHECK_DEADLOCK FALSE

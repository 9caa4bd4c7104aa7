SPECIFICATION Spec
CONSTANTS
    Schedules <- Everys
    Tasks <- OneTask
    Chains <- SkipChain
    MaxClock = 4
    Lag = 1
    MaxEntries = 2
    MaxCalls = 3
PROPERTIES
    SkippedOnlyIfRunning
CHECK_DEADLOCK FALSE

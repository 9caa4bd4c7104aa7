SPECIFICATION Spec
CONSTANTS
    Callers = {t1, t2}
    Messages = {m1}
    None = None
    SigTyp = 1
    MaxTries = 2
    MaxForeign = 1
    MaxCopies = 2
    MaxFaults = 2
INVARIANTS
    NoChannelLeak
    CallbackSeesOriginal
PROPERTIES
    AtLeastOnce
    EventuallyWorks
CHECK_DEADLOCK FALSE

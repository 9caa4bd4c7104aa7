SPECIFICATION Spec
CONSTANTS
    Sessions = {s1, s2}
    Keys = {k1, k2}
    Vals = {v1, v2}
    None = None
    Same = Same
    MongoSync = TRUE
    MaxOps = 3
    MaxFaults = 2
SYMMETRY Symmetry
INVARIANTS
    MirrorsWrites
CHECK_DEADLOCK FALSE

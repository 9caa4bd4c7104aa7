SPECIFICATION Spec
CONSTANTS
    k1 = k1
    k2 = k2
    Clients = {k1, k2}
    SlotMaps <- MCSlotMaps
    Maxes = {1, 2}
    Autos = {TRUE}
    Conns <- MCConns
    None = None
    MaxFaults = 1
INVARIANTS
    Supervised
PROPERTIES
    ExpiredClosed
    ComesBack
CHECK_DEADLOCK FALSE

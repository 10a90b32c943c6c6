\* Two requests at a time while the provider replaces its key.
CONSTANTS
    Checkers = {h1, h2}
    k1 = k1
    k2 = k2
    k3 = k3
    k4 = k4
    Keys = {k1, k2, k3, k4}
    KidOf <- MCKidOf
    FirstKey = k1
    Owners = {o1}
    TTL = 1
    NotReadyTTL = 1
    MaxClock = 1
    MaxChecks = 3
    MaxKeys = 2
    Absent = Absent
SPECIFICATION OIDCSpec
SYMMETRY Symmetry
INVARIANTS RetiredKeyDies PublishedKeyIsAccepted
CHECK_DEADLOCK FALSE

SPECIFICATION FairSpec

CONSTANTS
    Conductors = {c1, c2}
    Nodes = {n1}
    Allocs = {a1}
    Suitable <- AllSuitable
    MaxAttempts = 2
    MaxEvents = 1
    Trouble = {"lapse", "restart", "stale", "rebuild", "early"}
    None = None
    Other = Other

CHECK_DEADLOCK FALSE
PROPERTIES
    AllocationsEnd

SPECIFICATION Spec

CONSTANTS
    Conductors = {c1, c2}
    Nodes = {n1}
    Allocs = {a1}
    Suitable <- AllSuitable
    MaxAttempts = 1
    MaxEvents = 1
    Trouble = {"early"}
    None = None
    Other = Other

CHECK_DEADLOCK FALSE
INVARIANTS
    OneThreadPerAllocation

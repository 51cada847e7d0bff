SPECIFICATION Spec

CONSTANTS
    Conductors = {c1, c2}
    Nodes = {n1, n2}
    Allocs = {a1, a2}
    Suitable <- AllSuitable
    MaxAttempts = 2
    MaxEvents = 1
    Trouble = {"workers"}
    None = None
    Other = Other

CHECK_DEADLOCK FALSE
SYMMETRY Symmetry
INVARIANTS
    LinksAgree
    OneThreadPerAllocation
PROPERTIES
    NeverGivenAway
    InUseIsKept
    ImplementsMatching

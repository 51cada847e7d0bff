SPECIFICATION Spec

CONSTANTS
    c1 = c1
    c2 = c2
    n1 = n1
    n2 = n2
    t1 = t1
    t2 = t2
    t3 = t3
    port1 = port1
    None = None
    Conductors = {c1, c2}
    Nodes = {n1}
    Tasks = {t1, t2, t3}
    Names = {c1, c2}
    Host <- OneNodeHost
    NodeOf <- OneNodeOf
    ConfHost <- PlainConfHost
    SelfHost <- PlainSelfHost
    ILike <- PlainILike
    Crashable = {c1, c2}
    TimelyKeepalive = FALSE
    CleanupEnabled = TRUE
    DatabaseFails = TRUE

SYMMETRY ThreadSymmetry

INVARIANTS
    TypeOK
    LockHeld
    MutualExclusion
    EvictionNeedsLapse
    NoLeakedLock

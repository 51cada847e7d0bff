SPECIFICATION FairSpec

CONSTANTS
    MaxRetries = 1
    ForcePowerState = TRUE
    Trouble = {}
    Recoveries = {"restart", "takeover"}
    MaxRequests = 2
    MaxEvents = 3
    MaxCrashes = 1

INVARIANTS
    TypeOK
    MaintenanceIsKept
PROPERTIES
    RecordHeals

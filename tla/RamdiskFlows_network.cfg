SPECIFICATION Spec

CONSTANTS
    ProvisionInMaintenance = FALSE
    ManageBoot = TRUE
    PowerOffAfter = TRUE
    Trouble = {"network error"}
    Recoveries = {}
    MaxRequests = 1
    MaxInspections = 0
    MaxCrashes = 0

CHECK_DEADLOCK FALSE
INVARIANTS
    ActiveIsTheInstances

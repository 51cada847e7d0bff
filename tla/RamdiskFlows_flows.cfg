SPECIFICATION FairSpec

CONSTANTS
    ProvisionInMaintenance = FALSE
    ManageBoot = TRUE
    PowerOffAfter = TRUE
    Trouble = {"late request", "maintenance", "abort fails", "passed over"}
    Recoveries = {"restart", "takeover"}
    MaxRequests = 2
    MaxInspections = 2
    MaxCrashes = 1

CHECK_DEADLOCK FALSE
INVARIANTS
    ActiveIsTheInstances
PROPERTIES
    RescueMeansReady
    InspectedMeansDone
    FlowsEnd

SPECIFICATION Spec

CONSTANTS
    Plan <- ShortPlan
    Abortable = {}
    AutomatedClean = {TRUE}
    ProvisionInMaintenance = FALSE
    Trouble = {"agent restarts"}
    MaxCrashes = 0
    MaxCleans = 1
    MaxMismatches = 0

CHECK_DEADLOCK FALSE
PROPERTIES
    AvailableMeansCleaned

SPECIFICATION Spec

CONSTANTS
    Plan <- ShortPlan
    Abortable = {}
    AutomatedClean = {TRUE}
    ProvisionInMaintenance = FALSE
    Trouble = {"restart"}
    MaxCrashes = 1
    MaxCleans = 2
    MaxMismatches = 0

CHECK_DEADLOCK FALSE
PROPERTIES
    AvailableMeansCleaned

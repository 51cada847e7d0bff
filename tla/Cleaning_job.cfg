SPECIFICATION Spec

CONSTANTS
    Plan <- PollPlan
    Abortable = {}
    AutomatedClean = {TRUE}
    ProvisionInMaintenance = FALSE
    Trouble = {"job fails"}
    MaxCrashes = 0
    MaxCleans = 1
    MaxMismatches = 0

CHECK_DEADLOCK FALSE
PROPERTIES
    AvailableMeansCleaned

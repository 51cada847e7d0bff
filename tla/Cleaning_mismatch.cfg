SPECIFICATION Spec

CONSTANTS
    Plan <- ShortPlan
    Abortable = {}
    AutomatedClean = {TRUE}
    ProvisionInMaintenance = FALSE
    Trouble = {}
    MaxCrashes = 0
    MaxCleans = 1
    MaxMismatches = 1

CHECK_DEADLOCK FALSE
PROPERTIES
    AbortIsFinal

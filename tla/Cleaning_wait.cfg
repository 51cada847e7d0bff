SPECIFICATION Spec

CONSTANTS
    Plan <- WaitPlan
    Abortable = {}
    AutomatedClean = {TRUE}
    ProvisionInMaintenance = FALSE
    Trouble = {}
    MaxCrashes = 0
    MaxCleans = 1
    MaxMismatches = 0

CHECK_DEADLOCK FALSE
PROPERTIES
    ManualCleanReturns

SPECIFICATION Spec

CONSTANTS
    Plan <- MixedPlan
    Abortable = {}
    AutomatedClean = {TRUE}
    ProvisionInMaintenance = FALSE
    Trouble = {"no worker"}
    MaxCrashes = 0
    MaxCleans = 1
    MaxMismatches = 0

CHECK_DEADLOCK FALSE
INVARIANTS
    CleaningIsWorkedOn

SPECIFICATION Spec

CONSTANTS
    Plan <- MixedPlan
    Abortable = {}
    AutomatedClean = {TRUE}
    ProvisionInMaintenance = FALSE
    Trouble = {"restart", "passed over"}
    MaxCrashes = 1
    MaxCleans = 1
    MaxMismatches = 0

CHECK_DEADLOCK FALSE
INVARIANTS
    CleaningIsWorkedOn

SPECIFICATION FairSpec

CONSTANTS
    Plan <- MixedPlan
    Abortable = {2}
    AutomatedClean = {TRUE}
    ProvisionInMaintenance = FALSE
    Trouble = {"restart", "takeover"}
    MaxCrashes = 1
    MaxCleans = 1
    MaxMismatches = 1

CHECK_DEADLOCK FALSE
INVARIANTS
    CleaningIsWorkedOn
PROPERTIES
    OneStepAfterTheOther
    CleaningEnds

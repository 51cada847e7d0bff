SPECIFICATION Spec

CONSTANTS
    Plan <- AgentPlan
    Abortable = {1}
    AutomatedClean = {TRUE, FALSE}
    ProvisionInMaintenance = FALSE
    Trouble = {"maintenance"}
    MaxCrashes = 0
    MaxCleans = 3
    MaxMismatches = 1

CHECK_DEADLOCK FALSE
INVARIANTS
    TypeOK
PROPERTIES
    ManualCleanReturns
    AvailableMeansCleaned
    FailedStepIsQuarantined

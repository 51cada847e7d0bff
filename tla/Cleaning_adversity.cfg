SPECIFICATION Spec

CONSTANTS
    Plan <- AllKindsPlan
    Abortable = {1, 3}
    AutomatedClean = {TRUE, FALSE}
    ProvisionInMaintenance = TRUE
    Trouble = {"no worker", "maintenance", "agent restarts", "restart", "takeover", "lock taken", "job fails",
               "passed over"}
    MaxCrashes = 1
    MaxCleans = 2
    MaxMismatches = 0

CHECK_DEADLOCK FALSE
PROPERTIES
    AbortIsFinal

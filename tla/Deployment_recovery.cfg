SPECIFICATION FairSpec

CONSTANTS
    Plan <- AllKindsPlan
    Late <- AgentSteps
    Asked = {4, 6}
    Abortable = {4}
    Instances = {i1}
    None = None
    ProvisionInMaintenance = TRUE
    Trouble = {"restart", "takeover", "fast track", "quick job",
               "tear down fails", "tear down breaks off", "abort on hold"}
    MaxDeploys = 2
    MaxCrashes = 2
    MaxMismatches = 1

CHECK_DEADLOCK FALSE
PROPERTIES
    AbortIsFinal
    DeploymentEnds

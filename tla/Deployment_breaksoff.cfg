SPECIFICATION Spec

CONSTANTS
    Plan <- PollFirstPlan
    Late <- AgentSteps
    Asked = {4, 6}
    Abortable = {2}
    Instances = {i1, i2}
    None = None
    ProvisionInMaintenance = FALSE
    Trouble = {"tear down breaks off"}
    MaxDeploys = 1
    MaxCrashes = 0
    MaxMismatches = 0

CHECK_DEADLOCK FALSE
INVARIANTS
    DeploymentIsWorkedOn

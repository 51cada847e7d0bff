SPECIFICATION Spec

CONSTANTS
    Plan <- PollFirstPlan
    Late <- AgentSteps
    Asked = {4, 6}
    Abortable = {2}
    Instances = {i1, i2}
    None = None
    ProvisionInMaintenance = FALSE
    Trouble = {"maintenance", "restart"}
    MaxDeploys = 3
    MaxCrashes = 2
    MaxMismatches = 0

CHECK_DEADLOCK FALSE
INVARIANTS
    TypeOK
    NoLeftovers
    DeploymentIsWorkedOn
PROPERTIES
    ActiveMeansDeployed
    OneStepAfterTheOther

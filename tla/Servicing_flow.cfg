SPECIFICATION FairSpec

CONSTANTS
    Plans <- MixedPlans
    Late = {}
    DisableRamdisk = {FALSE}
    AbortableKinds = {"inband", "hold"}
    ProvisionInMaintenance = FALSE
    Trouble = {}
    Recoveries = {"restart"}
    MaxServices = 3
    MaxCrashes = 2

CHECK_DEADLOCK FALSE
INVARIANTS
    ServicingIsWorkedOn
PROPERTIES
    DoneMeansServiced
    InstanceIsBack
    ServicingEnds

---------------------------- MODULE MCDeployment ----------------------------
(* Small instances of Deployment for TLC: the lists of deploy steps. *)
EXTENDS Deployment

\* All the ways a step can be carried out, in the order of the documented
\* priorities: the ramdisk boots before the steps that need it.
AllKindsPlan == <<"sync", "boot", "hold", "poll", "inband", "reboot", "down">>
AgentSteps == {5, 6}

\* The same with a polled step before the ramdisk is booted.
PollFirstPlan == <<"sync", "poll", "boot", "hold", "inband", "reboot", "down">>

=============================================================================

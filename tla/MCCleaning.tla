----------------------------- MODULE MCCleaning -----------------------------
(* Small instances of Cleaning for TLC: the lists of clean steps. *)
EXTENDS Cleaning

\* All the ways a step can be carried out.
MixedPlan == <<"sync", "inband", "poll", "reboot">>

AllKindsPlan == <<"inband", "hold", "poll", "wait", "sleep", "reboot", "sync">>

\* Steps of the agent, one of them with a reboot after it.
AgentPlan == <<"inband", "sync", "reboot">>

\* Two steps are enough to skip one.
ShortPlan == <<"inband", "sync">>

\* A step that the driver polls for.
PollPlan == <<"poll", "sync">>

\* Reserved steps.
HoldPlan == <<"inband", "hold">>
WaitPlan == <<"wait", "sync">>
SleepPlan == <<"sleep", "sync">>

=============================================================================

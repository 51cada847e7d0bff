---------------------------- MODULE MCServicing -----------------------------
(* Small instances of Servicing for TLC: what an operator may ask for. *)
EXTENDS Servicing

\* Steps in the ramdisk, steps without one, and reserved steps.
MixedPlans == <<<<"sync", "inband", "reboot">>, <<"poll", "sync">>,
                <<"hold", "poll">>, <<"wait", "inband", "sync">>>>

InBandPlan == <<<<"inband", "sync">>>>
HoldPlan == <<<<"inband", "hold", "inband">>>>
HoldFirstPlan == <<<<"hold", "inband">>>>
WaitPlan == <<<<"inband", "wait", "sync">>>>

=============================================================================

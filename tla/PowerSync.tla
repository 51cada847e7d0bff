----------------------------- MODULE PowerSync -----------------------------
(***************************************************************************)
(* The power state of a node: what the record says, what the machine does, *)
(* and the threads of a conductor that bring the two together.             *)
(*                                                                         *)
(* A request of a user changes the machine, then the record, with the lock *)
(* of the node (node_power_action).  The power sync looks at the node and  *)
(* at the BMC with a shared lock, which excludes nobody, and upgrades it   *)
(* only when the two differ: what it has seen may be stale by then.  After *)
(* too many attempts it believes the BMC and puts the node in maintenance, *)
(* and another periodic task takes it out again when the BMC answers.      *)
(*                                                                         *)
(* One conductor at a time is in charge of the node.  When it dies, it     *)
(* comes back, or another one takes the node over.                         *)
(***************************************************************************)
EXTENDS Naturals

CONSTANTS
    MaxRetries,         \* [conductor]power_state_sync_max_retries
    ForcePowerState,    \* [conductor]force_power_state_during_sync
    Trouble,            \* what may go wrong, a subset of Troubles
    Recoveries,         \* who frees the node of a dead conductor
    MaxRequests,        \* bound: power requests of users
    MaxEvents,          \* bound: changes of the machine or of the BMC by themselves
    MaxCrashes          \* bound: conductor crashes

(* no worker      _spawn_worker may raise NoFreeConductorWorker            *)
(* repeated       an operator asks for maintenance in a power failure      *)
(* toggled        or while the recovery has not yet upgraded its lock      *)
(* kept orphan    a take-over may meet a node in maintenance               *)
(* lock taken     a take-over may find the node locked by another task     *)
Troubles == {"no worker", "repeated", "toggled", "kept orphan", "lock taken"}
May(trouble) == trouble \in Trouble

ASSUME PowerSyncAssumption ==
    /\ MaxRetries \in Nat /\ ForcePowerState \in BOOLEAN
    /\ Trouble \subseteq Troubles /\ Recoveries \subseteq {"restart", "takeover"}
    /\ MaxRequests \in Nat /\ MaxEvents \in Nat /\ MaxCrashes \in Nat

VARIABLES
    node,       \* the row of the node
    machine,    \* is it really on or off
    bmc,        \* does the BMC answer
    lock,       \* the reservation: free, held, or left by a dead conductor
    up,         \* a conductor is in charge of the node
    action,     \* node_power_action, of a user or of the sync
    sync,       \* the thread of the power sync, and what it has seen
    count,      \* power_state_sync_count
    recovery,   \* the thread of _power_failure_recovery, and what it has seen
    orphan,     \* a take-over has freed the node and has to clean it up
    wanted,     \* history: an operator wants the node in maintenance
    requests, events, crashes    \* counters for the bounds

counters == <<requests, events, crashes>>
vars == <<node, machine, bmc, lock, up, action, sync, count, recovery, orphan,
          wanted, counters>>

Power == {"on", "off"}
Recorded == Power \cup {"none", "error"}

TypeOK ==
    /\ node \in [power : Recorded,
                 target : Power \cup {"none"},      \* target_power_state
                 maintenance : BOOLEAN,
                 fault : BOOLEAN,                   \* fault = POWER_FAILURE
                 state : {"other", "wait", "enroll"}]   \* provision_state
    /\ machine \in Power
    /\ bmc \in {"answers", "silent"}
    /\ lock \in {"free", "held", "dead"}
    /\ up \in BOOLEAN
    /\ action \in [at : {"idle", "check", "act"}, new : Power \cup {"reboot"}]
    /\ sync \in [at : {"idle", "read", "upgrade", "give up", "forcing"},
                 seen : Recorded]
    /\ count \in 0..(MaxRetries + 1)
    /\ recovery \in [at : {"idle", "read", "clear"}, seen : Recorded]
    /\ orphan \in BOOLEAN
    /\ wanted \in BOOLEAN
    /\ requests \in 0..MaxRequests
    /\ events \in 0..MaxEvents
    /\ crashes \in 0..MaxCrashes

Asleep == [at |-> "idle", seen |-> "none"]
NoAction == [at |-> "idle", new |-> "on"]

Init ==
    /\ node = [power |-> "none", target |-> "none", maintenance |-> FALSE,
               fault |-> FALSE, state |-> "enroll"]
    /\ machine = "off" /\ bmc = "answers"
    /\ lock = "free" /\ up = TRUE
    /\ action = NoAction /\ sync = Asleep /\ count = 0 /\ recovery = Asleep
    /\ orphan = FALSE /\ wanted = FALSE
    /\ requests = 0 /\ events = 0 /\ crashes = 0

----------------------------------------------------------------------------
(* The power action *)

TargetAsAsked(new) == new                                        \* faulty
TargetOf(new) == IF new = "off" THEN "off" ELSE "on"

\* The end of a power action gives the lock back; that of a forced one counts
\* as an attempt, whatever came of it.
Capped(n) == IF n > MaxRetries THEN MaxRetries + 1 ELSE n
EndAction ==
    /\ action' = NoAction /\ lock' = "free"
    /\ IF sync.at = "forcing" THEN sync' = Asleep /\ count' = Capped(count + 1)
                              ELSE UNCHANGED <<sync, count>>

\* change_node_power_state; without a worker it restores what it has changed.
ChangeNodePowerState ==
    /\ up /\ lock = "free"
    /\ requests < MaxRequests /\ requests' = requests + 1
    /\ \E new \in Power \cup {"reboot"} :
         \/ /\ lock' = "held" /\ action' = [at |-> "check", new |-> new]
            /\ node' = [node EXCEPT !.target = TargetOf(new)]
         \/ /\ May("no worker") /\ UNCHANGED <<lock, action>>
            /\ node' = [node EXCEPT !.target = "none"]
    /\ UNCHANGED <<machine, bmc, up, sync, count, recovery, orphan, wanted,
                   events, crashes>>

\* _can_skip_state_change: the machine may be there already, and a BMC that
\* does not say so ends the action.
ActionChecks ==
    /\ action.at = "check"
    /\ IF action.new # "reboot" /\ (bmc = "silent" \/ machine = action.new)
       THEN /\ node' = [node EXCEPT !.target = "none",
                                    !.power = IF bmc = "silent" THEN @ ELSE machine]
            /\ EndAction
       ELSE /\ node' = [node EXCEPT !.target = TargetOf(action.new)]
            /\ action' = [action EXCEPT !.at = "act"]
            /\ UNCHANGED <<lock, sync, count>>
    /\ UNCHANGED <<machine, bmc, up, recovery, orphan, wanted, counters>>

ActionSucceeds ==
    /\ action.at = "act" /\ bmc = "answers"
    /\ machine' = TargetOf(action.new)
    /\ node' = [node EXCEPT !.power = machine', !.target = "none"]
    /\ EndAction
    /\ UNCHANGED <<bmc, up, recovery, orphan, wanted, counters>>

\* An action that fails, or that is given up, may have had its effect.
ActionFails ==
    /\ action.at = "act"
    /\ machine' \in {machine} \cup
           (IF bmc = "silent" THEN {}
            ELSE IF action.new = "reboot" THEN Power ELSE {action.new})
    /\ node' = [node EXCEPT !.target = "none"]
    /\ EndAction
    /\ UNCHANGED <<bmc, up, recovery, orphan, wanted, counters>>

----------------------------------------------------------------------------
(* The power sync *)

Excluded == node.state \in {"wait", "enroll"}    \* SYNC_EXCLUDED_STATES

SyncEnds(attempts) == sync' = Asleep /\ count' = attempts

\* handle_sync_power_state_max_retries_exceeded: maintenance that is there
\* already is not made one of a power failure.
GiveUpAnyway(power) ==                                           \* faulty
    [node EXCEPT !.power = power, !.maintenance = TRUE, !.fault = TRUE]
GiveUp(power) ==
    [node EXCEPT !.power = power, !.maintenance = TRUE,
                 !.fault = @ \/ ~node.maintenance]

\* _sync_power_state_nodes_task, with a shared lock
SyncBegins ==
    /\ up /\ sync.at = "idle"
    /\ ~Excluded /\ ~node.maintenance /\ node.target = "none" /\ lock = "free"
    /\ sync' = [at |-> "read", seen |-> node.power]
    /\ UNCHANGED <<node, machine, bmc, lock, up, action, count, recovery,
                   orphan, wanted, counters>>

\* do_sync_power_state up to its upgrade of the lock
SyncReads ==
    /\ sync.at = "read"
    /\ IF bmc = "answers"
       THEN IF sync.seen = machine
            THEN SyncEnds(0)
            ELSE sync' = [at |-> "upgrade", seen |-> machine] /\ count' = count
       ELSE IF count < MaxRetries
            THEN SyncEnds(count + 1)
            ELSE /\ \E seen \in {"none", "error"} :
                      sync' = [at |-> "give up", seen |-> seen]
                 /\ count' = count
    /\ UNCHANGED <<node, machine, bmc, lock, up, action, recovery, orphan,
                   wanted, counters>>

\* The BMC has not answered: the node is reloaded, and not looked at again.
SyncGivesUp ==
    /\ sync.at = "give up" /\ lock = "free"
    /\ node' = GiveUp(sync.seen)
    /\ SyncEnds(MaxRetries + 1)
    /\ UNCHANGED <<machine, bmc, lock, up, action, recovery, orphan, wanted,
                   counters>>

\* With the exclusive lock all checks are made again, but with the power state
\* that the BMC gave before.
Settled == node.power = sync.seen \/ Excluded \/ node.maintenance

SyncCorrects ==
    /\ sync.at = "upgrade" /\ lock = "free"
    /\ CASE Settled -> SyncEnds(0) /\ node' = node
         [] ~Settled /\ node.power = "none" ->
              SyncEnds(0) /\ node' = [node EXCEPT !.power = sync.seen]
         [] ~Settled /\ node.power # "none" /\ count >= MaxRetries ->
              SyncEnds(MaxRetries + 1) /\ node' = GiveUp(sync.seen)
         [] OTHER ->
              ~ForcePowerState /\ SyncEnds(count + 1)
              /\ node' = [node EXCEPT !.power = sync.seen]
    /\ UNCHANGED <<machine, bmc, lock, up, action, recovery, orphan, wanted,
                   counters>>

\* The machine is to do as the record says.  A record of ERROR is no state
\* that a driver can set, and the action ends as it begins.
SyncForces ==
    /\ sync.at = "upgrade" /\ lock = "free"
    /\ ~Settled /\ node.power # "none" /\ count < MaxRetries /\ ForcePowerState
    /\ IF node.power \in Power
       THEN /\ lock' = "held"
            /\ action' = [at |-> "check", new |-> node.power]
            /\ sync' = [sync EXCEPT !.at = "forcing"] /\ count' = count
       ELSE SyncEnds(count + 1) /\ UNCHANGED <<lock, action>>
    /\ UNCHANGED <<node, machine, bmc, up, recovery, orphan, wanted, counters>>

\* NodeLocked
SyncIsRefused ==
    /\ sync.at \in {"upgrade", "give up"} /\ lock # "free"
    /\ SyncEnds(count)
    /\ UNCHANGED <<node, machine, bmc, lock, up, action, recovery, orphan,
                   wanted, counters>>

----------------------------------------------------------------------------
(* Recovery from a power failure *)

RecoveryBegins ==
    /\ up /\ recovery.at = "idle"
    /\ node.state # "enroll" /\ node.maintenance /\ node.fault
    /\ node.target = "none" /\ lock = "free"
    /\ recovery' = [recovery EXCEPT !.at = "read"]
    /\ UNCHANGED <<node, machine, bmc, lock, up, action, sync, count, orphan,
                   wanted, counters>>

RecoveryReads ==
    /\ recovery.at = "read"
    /\ recovery' = IF bmc = "answers" THEN [at |-> "clear", seen |-> machine]
                                      ELSE Asleep
    /\ UNCHANGED <<node, machine, bmc, lock, up, action, sync, count, orphan,
                   wanted, counters>>

\* handle_recovery looks at nothing again.
RecoveryClears ==
    /\ recovery.at = "clear"
    /\ node' = IF lock = "free"
               THEN [node EXCEPT !.power = recovery.seen,
                                 !.maintenance = FALSE, !.fault = FALSE]
               ELSE node
    /\ recovery' = Asleep
    /\ UNCHANGED <<machine, bmc, lock, up, action, sync, count, orphan, wanted,
                   counters>>

----------------------------------------------------------------------------
(* The operator, and the other flows *)

\* update_node: the fault goes with the maintenance, but does not come with it.
SetMaintenance ==
    /\ lock = "free"
    /\ May("repeated") \/ ~node.fault
    /\ May("toggled") \/ recovery.at = "idle"
    /\ May("kept orphan") \/ ~orphan
    /\ node' = [node EXCEPT !.maintenance = TRUE] /\ wanted' = TRUE
    /\ UNCHANGED <<machine, bmc, lock, up, action, sync, count, recovery,
                   orphan, counters>>

UnsetMaintenance ==
    /\ lock = "free" /\ node.maintenance
    /\ node' = [node EXCEPT !.maintenance = FALSE, !.fault = FALSE]
    /\ wanted' = FALSE
    /\ UNCHANGED <<machine, bmc, lock, up, action, sync, count, recovery,
                   orphan, counters>>

\* The node is managed for the first time, or enters or leaves a wait state.
ProcessEvent ==
    /\ lock = "free"
    /\ node' = [node EXCEPT !.state = IF @ = "other" THEN "wait" ELSE "other"]
    /\ UNCHANGED <<machine, bmc, lock, up, action, sync, count, recovery,
                   orphan, wanted, counters>>

----------------------------------------------------------------------------
(* Conductors *)

Crash ==
    /\ up /\ crashes < MaxCrashes /\ crashes' = crashes + 1
    /\ up' = FALSE
    /\ lock' = IF lock = "free" THEN "free" ELSE "dead"
    /\ action' = NoAction /\ sync' = Asleep /\ count' = 0 /\ recovery' = Asleep
    /\ orphan' = FALSE
    /\ UNCHANGED <<node, machine, bmc, wanted, requests, events>>

\* prepare_host clears what its own locks cover, and then the locks.
PrepareHostOnly ==                                               \* faulty
    /\ ~up /\ "restart" \in Recoveries
    /\ up' = TRUE /\ lock' = "free"
    /\ UNCHANGED <<node, machine, bmc, action, sync, count, recovery, orphan,
                   wanted, counters>>
PrepareHost ==
    /\ ~up /\ "restart" \in Recoveries
    /\ up' = TRUE /\ lock' = "free"
    /\ node' = IF lock = "dead" THEN [node EXCEPT !.target = "none"] ELSE node
    /\ UNCHANGED <<machine, bmc, action, sync, count, recovery, orphan, wanted,
                   counters>>

\* _check_orphan_nodes of another conductor: first the lock of the dead one ...
CheckOrphanNodes ==
    /\ ~up /\ "takeover" \in Recoveries
    /\ May("kept orphan") \/ ~node.maintenance
    /\ up' = TRUE /\ lock' = "free"
    /\ orphan' = (lock = "dead" /\ ~node.maintenance /\ node.target # "none")
    /\ UNCHANGED <<node, machine, bmc, action, sync, count, recovery, wanted,
                   counters>>

\* ... and then, with a lock of its own, what was going on.
CleanUpOrphan ==
    /\ orphan
    /\ \/ /\ lock = "free"
          /\ node' = [node EXCEPT !.target = IF node.maintenance THEN @ ELSE "none"]
       \/ May("lock taken") /\ node' = node
    /\ orphan' = FALSE
    /\ UNCHANGED <<machine, bmc, lock, up, action, sync, count, recovery,
                   wanted, counters>>

----------------------------------------------------------------------------
(* The hardware *)

Happens == events < MaxEvents /\ events' = events + 1

MachineChanges ==
    /\ Happens /\ machine' \in Power \ {machine}
    /\ UNCHANGED <<node, bmc, lock, up, action, sync, count, recovery, orphan,
                   wanted, requests, crashes>>

BmcFails ==
    /\ Happens /\ bmc = "answers" /\ bmc' = "silent"
    /\ UNCHANGED <<node, machine, lock, up, action, sync, count, recovery,
                   orphan, wanted, requests, crashes>>

BmcReturns ==
    /\ bmc = "silent" /\ bmc' = "answers"
    /\ UNCHANGED <<node, machine, lock, up, action, sync, count, recovery,
                   orphan, wanted, counters>>

----------------------------------------------------------------------------

Action == ActionChecks \/ ActionSucceeds \/ ActionFails
Sync ==
    \/ SyncBegins \/ SyncReads \/ SyncGivesUp \/ SyncCorrects \/ SyncForces
    \/ SyncIsRefused
Recovery == RecoveryBegins \/ RecoveryReads \/ RecoveryClears
Operator == SetMaintenance \/ UnsetMaintenance \/ ProcessEvent
Conductor == PrepareHost \/ CheckOrphanNodes \/ CleanUpOrphan
Hardware == MachineChanges \/ BmcFails \/ BmcReturns

Next ==
    \/ ChangeNodePowerState \/ Action \/ Sync \/ Recovery \/ Operator
    \/ Conductor \/ Crash \/ Hardware

Spec == Init /\ [][Next]_vars

\* Periodic tasks and workers run, and dead conductors are replaced.  Nothing
\* is assumed of operators, of the BMC, or of the success of an action.
Fairness == WF_vars(Action) /\ WF_vars(Sync) /\ WF_vars(Recovery) /\ WF_vars(Conductor)

FairSpec == Spec /\ Fairness

----------------------------------------------------------------------------
(* Properties *)

\* A node that an operator has put in maintenance stays there until the
\* operator takes it out (handle_sync_power_state_max_retries_exceeded,
\* _power_failure_recovery).
MaintenanceIsKept == wanted => node.maintenance

\* The record of the power state comes to agree with the machine, as long as
\* the BMC answers, the operator has not put the node in maintenance, and its
\* state is not excluded from the sync (do_sync_power_state, with what
\* prepare_host and _check_orphan_nodes leave of an interrupted action).
RecordHeals ==
    []<>(\/ node.power = machine
         \/ bmc = "silent" \/ wanted \/ node.state # "other")

=============================================================================

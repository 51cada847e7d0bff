-------------------------- MODULE PowerSyncProofs --------------------------
(***************************************************************************)
(* Theorems about PowerSync, for all values of its constants: the types,   *)
(* and that the maintenance of an operator is kept, by an invariant that   *)
(* says why: such a maintenance has no fault, and no recovery has begun.   *)
(***************************************************************************)
EXTENDS PowerSync, TLAPS

\* The record of a node, and of the three threads.
NodeRows == [power : Recorded, target : Power \cup {"none"}, maintenance : BOOLEAN,
             fault : BOOLEAN, state : {"other", "wait", "enroll"}]
Syncs == [at : {"idle", "read", "upgrade", "give up", "forcing"}, seen : Recorded]
Recoverys == [at : {"idle", "read", "clear"}, seen : Recorded]
Actions == [at : {"idle", "check", "act"}, new : Power \cup {"reboot"}]

\* What an update of a field makes of a row is a row.
LEMMA RowUpdates ==
    ASSUME NEW n \in NodeRows
    PROVE  /\ \A p \in Recorded : [n EXCEPT !.power = p] \in NodeRows
           /\ \A t \in Power \cup {"none"} : [n EXCEPT !.target = t] \in NodeRows
           /\ \A p \in Recorded, t \in Power \cup {"none"} :
                [n EXCEPT !.power = p, !.target = t] \in NodeRows
           /\ \A s \in {"other", "wait", "enroll"} : [n EXCEPT !.state = s] \in NodeRows
           /\ \A m, f \in BOOLEAN : [n EXCEPT !.maintenance = m, !.fault = f] \in NodeRows
           /\ \A p \in Recorded, m, f \in BOOLEAN :
                [n EXCEPT !.power = p, !.maintenance = m, !.fault = f] \in NodeRows
BY DEF NodeRows

\* The end of the retries, too.
LEMMA GiveUpTyped ==
    ASSUME node \in NodeRows, NEW p \in Recorded
    PROVE  GiveUp(p) \in NodeRows
<1>1. (node.fault \/ ~node.maintenance) \in BOOLEAN
  BY DEF NodeRows
<1> QED BY <1>1, RowUpdates DEF GiveUp

\* The counter of the sync stays within its bound.
LEMMA CappedTyped ==
    ASSUME NEW n \in 0..(MaxRetries + 1)
    PROVE  Capped(n + 1) \in 0..(MaxRetries + 1)
BY PowerSyncAssumption DEF Capped

\* TypeOK, but for the row of the node, with the sets above.
OthersTyped ==
    /\ machine \in Power /\ bmc \in {"answers", "silent"}
    /\ lock \in {"free", "held", "dead"} /\ up \in BOOLEAN
    /\ action \in Actions /\ sync \in Syncs /\ recovery \in Recoverys
    /\ count \in 0..(MaxRetries + 1)
    /\ orphan \in BOOLEAN /\ wanted \in BOOLEAN
    /\ requests \in 0..MaxRequests /\ events \in 0..MaxEvents
    /\ crashes \in 0..MaxCrashes

Inv == node \in NodeRows /\ OthersTyped

\* The end of an action, for the four things it changes.
LEMMA EndActionTyped ==
    ASSUME Inv, EndAction
    PROVE  /\ lock' \in {"free", "held", "dead"} /\ action' \in Actions
           /\ sync' \in Syncs /\ count' \in 0..(MaxRetries + 1)
<1>1. count' \in 0..(MaxRetries + 1)
  BY CappedTyped DEF Inv, OthersTyped, EndAction
<1>2. sync' = sync \/ sync' = Asleep
  BY DEF EndAction
<1>3. action' \in Actions /\ lock' \in {"free", "held", "dead"}
  BY DEF EndAction, NoAction, Actions, Power
<1>4. Asleep \in Syncs
  BY DEF Asleep, Syncs, Recorded
<1> QED
  BY <1>1, <1>2, <1>3, <1>4 DEF Inv, OthersTyped

\* What power actions do, one by one.
LEMMA ActionStep ==
    ASSUME Inv, ChangeNodePowerState \/ Action PROVE Inv'
<1>1. node \in NodeRows /\ OthersTyped
  BY DEF Inv
<1>2. CASE ChangeNodePowerState
  <2>1. PICK new \in Power \cup {"reboot"} :
          \/ /\ lock' = "held" /\ action' = [at |-> "check", new |-> new]
             /\ node' = [node EXCEPT !.target = TargetOf(new)]
          \/ UNCHANGED <<lock, action>> /\ node' = [node EXCEPT !.target = "none"]
    BY <1>2 DEF ChangeNodePowerState
  <2>2. node' \in NodeRows
    <3>1. TargetOf(new) \in Power
      BY DEF TargetOf, Power
    <3> QED
      BY <1>1, <2>1, <3>1 DEF NodeRows
  <2>3. action' \in Actions /\ lock' \in {"free", "held", "dead"}
    BY <1>1, <2>1 DEF Actions, OthersTyped
  <2>4. requests' \in 0..MaxRequests
    <3>1. requests < MaxRequests /\ requests' = requests + 1
      BY <1>2 DEF ChangeNodePowerState
    <3> QED
      BY <1>1, <3>1, PowerSyncAssumption DEF OthersTyped
  <2> QED
    BY <1>1, <1>2, <2>2, <2>3, <2>4 DEF Inv, ChangeNodePowerState, OthersTyped
<1>3. CASE ActionChecks
  <2>1. node' \in NodeRows
    <3>1. machine \in Recorded /\ node.power \in Recorded
      BY <1>1 DEF OthersTyped, Recorded, NodeRows
    <3>2. TargetOf(action.new) \in Power
      BY DEF TargetOf, Power
    <3>3. \/ node' = [node EXCEPT !.target = "none", !.power = node.power]
          \/ node' = [node EXCEPT !.target = "none", !.power = machine]
          \/ node' = [node EXCEPT !.target = TargetOf(action.new)]
      BY <1>3 DEF ActionChecks
    <3> QED
      BY <1>1, <3>1, <3>2, <3>3 DEF NodeRows
  <2>2. OthersTyped'
    <3>1. CASE EndAction
      BY <1>1, <1>3, <3>1, EndActionTyped DEF ActionChecks, OthersTyped, counters
    <3>2. CASE action' = [action EXCEPT !.at = "act"] /\ UNCHANGED <<lock, sync, count>>
      BY <1>1, <1>3, <3>2 DEF ActionChecks, OthersTyped, Actions, counters
    <3> QED
      BY <1>3, <3>1, <3>2 DEF ActionChecks
  <2> QED
    BY <2>1, <2>2 DEF Inv
<1>4. CASE ActionSucceeds
  <2>1. machine' \in Power
    BY <1>4 DEF ActionSucceeds, TargetOf, Power
  <2>2. node' \in NodeRows
    BY <1>1, <1>4, <2>1 DEF ActionSucceeds, NodeRows, Recorded
  <2> QED
    BY <1>1, <1>4, <2>1, <2>2, EndActionTyped DEF Inv, ActionSucceeds, OthersTyped, counters
<1>5. CASE ActionFails
  <2>1. machine' \in Power
    BY <1>1, <1>5 DEF ActionFails, OthersTyped, Actions, Power
  <2>2. node' \in NodeRows
    BY <1>1, <1>5, RowUpdates DEF ActionFails
  <2> QED
    BY <1>1, <1>5, <2>1, <2>2, EndActionTyped DEF Inv, ActionFails, OthersTyped, counters
<1> QED
  BY <1>2, <1>3, <1>4, <1>5 DEF Action

\* The power sync.
LEMMA SyncStep == ASSUME Inv, Sync PROVE Inv'
<1>1. node \in NodeRows /\ OthersTyped
  BY DEF Inv
<1>2. /\ sync.seen \in Recorded /\ node.power \in Recorded /\ machine \in Recorded
      /\ Asleep \in Syncs /\ MaxRetries + 1 \in 0..(MaxRetries + 1)
      /\ 0 \in 0..(MaxRetries + 1)
  <2>1. MaxRetries + 1 \in 0..(MaxRetries + 1) /\ 0 \in 0..(MaxRetries + 1)
    BY PowerSyncAssumption
  <2> QED
    BY <1>1, <2>1 DEF OthersTyped, Syncs, NodeRows, Recorded, Power, Asleep
<1>3. node' \in NodeRows
  <2>1. CASE SyncGivesUp
    BY <1>1, <1>2, <2>1, GiveUpTyped DEF SyncGivesUp
  <2>2. CASE SyncCorrects
    <3>1. \/ node' = node \/ node' = GiveUp(sync.seen)
          \/ node' = [node EXCEPT !.power = sync.seen]
      BY <2>2 DEF SyncCorrects
    <3> QED
      BY <1>1, <1>2, <3>1, GiveUpTyped, RowUpdates
  <2> QED
    BY <1>1, <2>1, <2>2 DEF Sync, SyncBegins, SyncReads, SyncForces, SyncIsRefused
<1>4. sync' \in Syncs /\ count' \in 0..(MaxRetries + 1)
  <2>1. CASE SyncBegins
    BY <1>1, <1>2, <2>1 DEF SyncBegins, Syncs, OthersTyped
  <2>2. CASE SyncReads
    <3>1. \/ sync' = Asleep
          \/ sync' = [at |-> "upgrade", seen |-> machine]
          \/ \E seen \in {"none", "error"} : sync' = [at |-> "give up", seen |-> seen]
      BY <2>2 DEF SyncReads, SyncEnds
    <3>2. count' = 0 \/ count' = count \/ (count < MaxRetries /\ count' = count + 1)
      BY <2>2 DEF SyncReads, SyncEnds
    <3>3. count' \in 0..(MaxRetries + 1)
      BY <1>1, <3>2, PowerSyncAssumption DEF OthersTyped
    <3>4. sync' \in Syncs
      <4>1. \A seen \in Recorded :
              /\ [at |-> "upgrade", seen |-> seen] \in Syncs
              /\ [at |-> "give up", seen |-> seen] \in Syncs
        BY DEF Syncs
      <4>2. "none" \in Recorded /\ "error" \in Recorded
        BY DEF Recorded
      <4> QED
        BY <1>2, <3>1, <4>1, <4>2
    <3> QED
      BY <3>3, <3>4
  <2>3. CASE SyncGivesUp \/ SyncIsRefused
    BY <1>1, <1>2, <2>3 DEF SyncGivesUp, SyncIsRefused, SyncEnds, OthersTyped
  <2>4. CASE SyncCorrects
    <3>1. /\ sync' = Asleep
          /\ \/ count' = 0 \/ count' = MaxRetries + 1
             \/ count' = count + 1 /\ ~(count >= MaxRetries)
      BY <2>4 DEF SyncCorrects, SyncEnds
    <3> QED
      BY <1>1, <1>2, <3>1, PowerSyncAssumption DEF OthersTyped
  <2>5. CASE SyncForces
    <3>1. /\ sync' = Asleep \/ sync' = [sync EXCEPT !.at = "forcing"]
          /\ count' = count \/ (count < MaxRetries /\ count' = count + 1)
      BY <2>5 DEF SyncForces, SyncEnds
    <3>2. count' \in 0..(MaxRetries + 1)
      BY <1>1, <3>1, PowerSyncAssumption DEF OthersTyped
    <3>3. sync' \in Syncs
      BY <1>1, <1>2, <3>1 DEF Syncs, OthersTyped
    <3> QED
      BY <3>2, <3>3
  <2> QED
    BY <2>1, <2>2, <2>3, <2>4, <2>5 DEF Sync
<1>5. lock' \in {"free", "held", "dead"} /\ action' \in Actions
  <2>1. CASE SyncForces
    BY <1>1, <2>1 DEF SyncForces, OthersTyped, Actions
  <2> QED
    BY <1>1, <2>1 DEF Sync, SyncBegins, SyncReads, SyncGivesUp, SyncCorrects,
                      SyncIsRefused, OthersTyped
<1>6. UNCHANGED <<machine, bmc, up, recovery, orphan, wanted, counters>>
  BY DEF Sync, SyncBegins, SyncReads, SyncGivesUp, SyncCorrects, SyncForces, SyncIsRefused
<1> QED
  BY <1>1, <1>3, <1>4, <1>5, <1>6 DEF Inv, OthersTyped, counters

\* The recovery, the operator, and the other flows.
LEMMA RecoveryStep == ASSUME Inv, Recovery \/ Operator PROVE Inv'
<1>1. node \in NodeRows /\ OthersTyped
  BY DEF Inv
<1>2. recovery.seen \in Recorded /\ machine \in Recorded /\ Asleep \in Recoverys
  BY <1>1 DEF OthersTyped, Recoverys, Recorded, Power, Asleep
<1>3. node' \in NodeRows
  <2>1. CASE RecoveryClears
    BY <1>1, <1>2, <2>1, RowUpdates DEF RecoveryClears
  <2>2. CASE SetMaintenance
    BY <1>1, <2>2 DEF SetMaintenance, NodeRows
  <2>3. CASE UnsetMaintenance
    BY <1>1, <2>3, RowUpdates DEF UnsetMaintenance
  <2>4. CASE ProcessEvent
    BY <1>1, <2>4, RowUpdates DEF ProcessEvent
  <2> QED
    BY <1>1, <2>1, <2>2, <2>3, <2>4 DEF Recovery, Operator, RecoveryBegins, RecoveryReads
<1>4. recovery' \in Recoverys
  <2>1. \/ recovery' = recovery \/ recovery' = Asleep
        \/ recovery' = [recovery EXCEPT !.at = "read"]
        \/ recovery' = [at |-> "clear", seen |-> machine]
    BY DEF Recovery, Operator, RecoveryBegins, RecoveryReads, RecoveryClears,
           SetMaintenance, UnsetMaintenance, ProcessEvent
  <2> QED
    BY <1>1, <1>2, <2>1 DEF OthersTyped, Recoverys
<1>5. wanted' \in BOOLEAN
  BY <1>1 DEF Recovery, Operator, RecoveryBegins, RecoveryReads, RecoveryClears,
              SetMaintenance, UnsetMaintenance, ProcessEvent, OthersTyped
<1>6. UNCHANGED <<machine, bmc, lock, up, action, sync, count, orphan, counters>>
  BY DEF Recovery, Operator, RecoveryBegins, RecoveryReads, RecoveryClears,
         SetMaintenance, UnsetMaintenance, ProcessEvent
<1> QED
  BY <1>1, <1>3, <1>4, <1>5, <1>6 DEF Inv, OthersTyped, counters

\* Conductors that die and come back.
LEMMA ConductorStep == ASSUME Inv, Conductor \/ Crash PROVE Inv'
<1>1. node \in NodeRows /\ OthersTyped
  BY DEF Inv
<1>2. node' \in NodeRows
  <2>1. \/ node' = node \/ node' = [node EXCEPT !.target = "none"]
        \/ node' = [node EXCEPT !.target = node.target]
    BY DEF Conductor, Crash, PrepareHost, CheckOrphanNodes, CleanUpOrphan
  <2> QED
    BY <1>1, <2>1 DEF NodeRows
<1>3. CASE Crash
  <2>1. /\ NoAction \in Actions /\ Asleep \in Syncs /\ Asleep \in Recoverys
        /\ 0 \in 0..(MaxRetries + 1)
    BY PowerSyncAssumption
       DEF NoAction, Asleep, Actions, Syncs, Recoverys, Recorded, Power
  <2>2. crashes' \in 0..MaxCrashes
    BY <1>1, <1>3, PowerSyncAssumption DEF Crash, OthersTyped
  <2> QED
    BY <1>1, <1>2, <1>3, <2>1, <2>2 DEF Inv, Crash, OthersTyped
<1>4. CASE Conductor
  BY <1>1, <1>2, <1>4
     DEF Inv, Conductor, PrepareHost, CheckOrphanNodes, CleanUpOrphan, OthersTyped, counters
<1> QED
  BY <1>3, <1>4

\* The machine and its BMC.
LEMMA HardwareStep == ASSUME Inv, Hardware PROVE Inv'
<1>1. node \in NodeRows /\ OthersTyped
  BY DEF Inv
<1>2. events' \in 0..MaxEvents
  BY <1>1, PowerSyncAssumption
     DEF Hardware, MachineChanges, BmcFails, BmcReturns, Happens, OthersTyped, counters
<1> QED
  BY <1>1, <1>2
     DEF Inv, Hardware, MachineChanges, BmcFails, BmcReturns, OthersTyped, counters

LEMMA InvInit == Init => Inv
<1>1. 0 \in 0..(MaxRetries + 1) /\ 0 \in 0..MaxRequests /\ 0 \in 0..MaxEvents
      /\ 0 \in 0..MaxCrashes
  BY PowerSyncAssumption
<1>2. /\ NoAction \in Actions /\ Asleep \in Syncs /\ Asleep \in Recoverys
  BY DEF NoAction, Asleep, Actions, Syncs, Recoverys, Recorded, Power
<1>3. Init => node \in NodeRows
  BY DEF Init, NodeRows, Recorded, Power
<1> QED
  BY <1>1, <1>2, <1>3 DEF Init, Inv, OthersTyped, Power

LEMMA InvStep == ASSUME Inv, [Next]_vars PROVE Inv'
<1>1. CASE UNCHANGED vars
  BY <1>1 DEF Inv, OthersTyped, vars, counters
<1> QED
  BY <1>1, ActionStep, SyncStep, RecoveryStep, ConductorStep, HardwareStep DEF Next

LEMMA Invariance == Spec => []Inv
BY InvInit, InvStep, PTL DEF Spec

\* The rows of nodes, the threads and what they have seen are of their types;
\* above all, node_power_action never leaves anything but on, off and nothing
\* in target_power_state, and the counter of the sync ends at its limit.
THEOREM TypeCorrect == Spec => []TypeOK
<1>1. Inv => TypeOK
  BY DEF Inv, OthersTyped, TypeOK, NodeRows, Actions, Syncs, Recoverys
<1> QED
  BY <1>1, Invariance, PTL

----------------------------------------------------------------------------
(* The maintenance of an operator *)

\* The operator leaves alone what is in a power failure already, and does not
\* come between the check of a recovery and its lock.
PatientOperator == ~May("repeated") /\ ~May("toggled")

\* Why it is kept: there is no fault to recover from, and no recovery that has
\* seen one.
KeptForAReason ==
    wanted => node.maintenance /\ ~node.fault /\ recovery.at = "idle"

LEMMA KeptStep ==
    ASSUME PatientOperator, Inv, KeptForAReason, [Next]_vars
    PROVE  KeptForAReason'
<1>1. node \in NodeRows /\ OthersTyped
  BY DEF Inv
<1> DEFINE Kept == /\ node'.maintenance = node.maintenance /\ node'.fault = node.fault
                   /\ UNCHANGED <<wanted, recovery>>
<1>2. Kept => KeptForAReason'
  BY DEF KeptForAReason
\* they write the power states only
<1>3. CASE ChangeNodePowerState \/ Action
  <2>1. \/ \E t : node' = [node EXCEPT !.target = t]
        \/ \E p, t : node' = [node EXCEPT !.target = t, !.power = p]
        \/ \E p, t : node' = [node EXCEPT !.power = p, !.target = t]
    BY <1>3 DEF ChangeNodePowerState, Action, ActionChecks, ActionSucceeds, ActionFails
  <2>2. node'.maintenance = node.maintenance /\ node'.fault = node.fault
    BY <1>1, <2>1 DEF NodeRows
  <2>3. UNCHANGED <<wanted, recovery>>
    BY <1>3 DEF ChangeNodePowerState, Action, ActionChecks, ActionSucceeds, ActionFails
  <2> QED
    BY <1>2, <2>2, <2>3
\* a maintenance that is there gets no fault
<1>4. CASE Sync
  <2>1. ASSUME NEW p, node' = GiveUp(p)
        PROVE  node.maintenance => node'.maintenance /\ node'.fault = node.fault
    BY <1>1, <2>1 DEF GiveUp, NodeRows
  <2>2. ASSUME NEW p, node' = [node EXCEPT !.power = p]
        PROVE  node'.maintenance = node.maintenance /\ node'.fault = node.fault
    BY <1>1, <2>2 DEF NodeRows
  <2>3. \/ node' = node \/ \E p : node' = GiveUp(p)
        \/ \E p : node' = [node EXCEPT !.power = p]
    BY <1>4 DEF Sync, SyncBegins, SyncReads, SyncGivesUp, SyncCorrects, SyncForces,
                SyncIsRefused
  <2>4. UNCHANGED <<wanted, recovery>>
    BY <1>4 DEF Sync, SyncBegins, SyncReads, SyncGivesUp, SyncCorrects, SyncForces,
                SyncIsRefused
  <2> QED
    BY <2>1, <2>2, <2>3, <2>4 DEF KeptForAReason
<1>5. CASE Recovery
  <2>1. CASE RecoveryBegins
    BY <2>1 DEF RecoveryBegins, KeptForAReason
  <2>2. CASE RecoveryReads \/ RecoveryClears
    BY <2>2 DEF RecoveryReads, RecoveryClears, KeptForAReason
  <2> QED
    BY <1>5, <2>1, <2>2 DEF Recovery
<1>6. CASE Operator
  <2>1. CASE SetMaintenance
    <3>1. ~node.fault /\ recovery.at = "idle"
      BY <2>1 DEF SetMaintenance, PatientOperator
    <3>2. node'.maintenance = TRUE /\ node'.fault = node.fault /\ recovery' = recovery
      BY <1>1, <2>1 DEF SetMaintenance, NodeRows
    <3> QED
      BY <3>1, <3>2 DEF KeptForAReason
  <2>2. CASE UnsetMaintenance
    BY <2>2 DEF UnsetMaintenance, KeptForAReason
  <2>3. CASE ProcessEvent
    <3>1. node'.maintenance = node.maintenance /\ node'.fault = node.fault
      BY <1>1, <2>3 DEF ProcessEvent, NodeRows
    <3> QED
      BY <1>2, <2>3, <3>1 DEF ProcessEvent
  <2> QED
    BY <1>6, <2>1, <2>2, <2>3 DEF Operator
<1>7. CASE Conductor
  <2>1. node'.maintenance = node.maintenance /\ node'.fault = node.fault
    BY <1>1, <1>7 DEF Conductor, PrepareHost, CheckOrphanNodes, CleanUpOrphan, NodeRows
  <2> QED
    BY <1>2, <1>7, <2>1 DEF Conductor, PrepareHost, CheckOrphanNodes, CleanUpOrphan
<1>8. CASE Crash
  BY <1>8 DEF Crash, Asleep, KeptForAReason
<1>9. CASE Hardware \/ UNCHANGED vars
  BY <1>2, <1>9 DEF Hardware, MachineChanges, BmcFails, BmcReturns, vars
<1> QED
  BY <1>3, <1>4, <1>5, <1>6, <1>7, <1>8, <1>9 DEF Next

\* The conductor never takes a node out of the maintenance that an operator has
\* asked for, if the operator does not ask for it in a power failure: neither
\* the end of the sync's retries nor the recovery does.
THEOREM OperatorIsObeyed == PatientOperator /\ Spec => []MaintenanceIsKept
<1> SUFFICES ASSUME PatientOperator PROVE Spec => []MaintenanceIsKept
  OBVIOUS
<1>1. Init => KeptForAReason
  BY DEF Init, KeptForAReason
<1>2. Inv /\ KeptForAReason /\ [Next]_vars => KeptForAReason'
  BY KeptStep
<1>3. KeptForAReason => MaintenanceIsKept
  BY DEF KeptForAReason, MaintenanceIsKept
<1> QED
  BY <1>1, <1>2, <1>3, Invariance, PTL DEF Spec

=============================================================================

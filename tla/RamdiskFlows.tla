----------------------------- MODULE RamdiskFlows -----------------------------
(***************************************************************************)
(* The flows without a list of steps: rescue of a node with an instance,   *)
(* and inspection of one without, which boot a ramdisk, and the ways in    *)
(* that boot nothing: verification, adoption and take-over                 *)
(* (conductor/manager.py, inspection.py and verify.py, AgentRescue and     *)
(* AgentInspect).                                                          *)
(*                                                                         *)
(* What has to fit is spread over the row of the node, the boot            *)
(* configuration, the networks and the machine, and every failure leaves a *)
(* prefix of the changes behind.  Tear down, cleaning and deployment take  *)
(* the node from one flow to the other; of them only what they do to these *)
(* things is here.                                                         *)
(*                                                                         *)
(* The lock is the abstract one of NodeLock: a holder, or the reservation  *)
(* that a dead conductor has left behind.                                  *)
(***************************************************************************)
EXTENDS ProvisionStates, Naturals

CONSTANTS
    ProvisionInMaintenance, \* [conductor]allow_provisioning_in_maintenance
    ManageBoot,             \* ironic_manages_boot of the node's interfaces
    PowerOffAfter,          \* [inspector]power_off
    Trouble,                \* what may go wrong, a subset of Troubles
    Recoveries,             \* who frees the lock of a dead conductor
    MaxRequests,            \* bound: requests to rescue the node
    MaxInspections,         \* bound: requests to inspect it
    MaxCrashes              \* bound: conductor crashes

(* no worker       _spawn_worker may raise NoFreeConductorWorker           *)
(* late request    a request that the API let pass may meet RESCUEWAIT     *)
(* dies in request a conductor may die between save and process_event      *)
(* maintenance     the operator may put the node in maintenance            *)
(* abort fails     the worker of an abort may meet an error of the driver  *)
(* clean up fails  so may the rescue.clean_up of a tear down               *)
(* dies in delete  a conductor may die before that clean up                *)
(* late callback   the data of a ramdisk may arrive after its power off    *)
(* adopts blindly  the operator may adopt a machine without an instance    *)
(* passed over     the start of a conductor may not come to the node, or   *)
(*                 may find it locked                                      *)
(* network error   the networks of the rescue may be out of reach          *)
Troubles == {"no worker", "late request", "dies in request", "maintenance",
             "abort fails", "clean up fails", "dies in delete", "late callback",
             "adopts blindly", "passed over", "network error"}
May(trouble) == trouble \in Trouble

ASSUME FlowAssumption ==
    /\ {ProvisionInMaintenance, ManageBoot, PowerOffAfter} \subseteq BOOLEAN
    /\ Trouble \subseteq Troubles /\ Recoveries \subseteq {"restart", "takeover"}
    /\ MaxRequests \in Nat /\ MaxInspections \in Nat /\ MaxCrashes \in Nat

Passwords == 1..MaxRequests         \* every request brings its own
Inspections == 1..MaxInspections    \* and every inspection has its data

VARIABLES
    node,       \* the row of the node
    lock,       \* its reservation: free, held, or left by a dead conductor
    pc,         \* what the holder of the lock does next
    machine,    \* what runs on the machine, see MachineType
    calls,      \* inspections whose data are under way to the API
    boots,      \* what the boot interface is set up for
    nets,       \* the networks that the machine is attached to
    initial,    \* the state a tear down has found
    report,     \* the data that continue_inspection works on
    inventory,  \* the data that are stored
    recover,    \* a restart has freed the lock and is not finished
    orphan,     \* history: a recovery has freed it, and left the node to itself
    attached,   \* history: a failed inspection has kept its network
    wanted,     \* history: the password of the last request that was accepted
    requests, inspections, crashes    \* counters for the bounds

run == <<machine, calls>>
world == <<run, boots, nets>>
arguments == <<initial, report>>
counts == <<recover, orphan, attached, requests, inspections, crashes>>
vars == <<node, lock, pc, world, arguments, inventory, wanted, counts>>

RescueStates == {"rescuing", "rescue wait", "rescue", "rescue failed",
                 "unrescuing", "unrescue failed"}
InspectionStates == {"inspecting", "inspect wait", "inspect failed"}
EntryStates == {"enroll", "verifying", "adopting", "adopt failed"}

MachineType ==
    [is : {"instance", "off", "booting", "agent", "rescue"},
     entry : {0} \cup Passwords,       \* the password it lets in
     data : {0} \cup Inspections]      \* what it has to send

TypeOK ==
    /\ node \in [state : {"active", "deleting", "error", "cleaning", "manageable"}
                             \cup RescueStates \cup InspectionStates \cup EntryStates,
                 password : {0} \cup Passwords,  \* instance_info['rescue_password']
                 token : BOOLEAN,       \* the agent that is up knows the token
                 manages : BOOLEAN,     \* driver_internal_info['inspector_manage_boot']
                 started : BOOLEAN,     \* inspection_started_at is set
                 maintenance : BOOLEAN]
    /\ lock \in {"free", "held", "dead"}
    /\ pc \in {"idle", "asked", "off", "detach", "attach", "boot",
               "finalize", "reattach", "handle", "abort",
               "stop", "clean", "restore", "start", "delete",
               "prepare", "launch", "process", "store", "undo", "handle inspection",
               "halt", "verify", "adopt", "take over"}
    /\ machine \in MachineType
    /\ calls \subseteq Inspections
    /\ boots \in {"instance", "ramdisk", "nothing"}
    /\ nets \subseteq {"tenant", "rescuing", "inspection"}
    /\ initial \in {"none", "active", "error"} \cup RescueStates
    /\ report \in {0} \cup Inspections /\ inventory \in {0} \cup Inspections
    /\ recover \in BOOLEAN /\ orphan \in BOOLEAN /\ attached \in BOOLEAN
    /\ wanted \in {0} \cup Passwords
    /\ requests \in 0..MaxRequests /\ inspections \in 0..MaxInspections
    /\ crashes \in 0..MaxCrashes

Machine(is) == [is |-> is, entry |-> 0, data |-> 0]

\* A node with its instance, or one with an instance of somebody else, which is
\* enrolled to be adopted.
Init ==
    /\ node \in [state : {"active", "enroll"}, password : {0}, token : {FALSE},
                 manages : {FALSE}, started : {FALSE}, maintenance : {FALSE}]
    /\ lock = "free" /\ pc = "idle"
    /\ machine = Machine("instance") /\ calls = {}
    /\ boots = (IF node.state = "active" THEN "instance" ELSE "nothing") /\ nets = {"tenant"}
    /\ initial = "none" /\ report = 0 /\ inventory = 0 /\ wanted = 0
    /\ recover = FALSE /\ orphan = FALSE /\ attached = FALSE
    /\ requests = 0 /\ inspections = 0 /\ crashes = 0

----------------------------------------------------------------------------
\* A move of the row, where the database keeps the time of an inspection
\* (_do_update_node).
Moved(n, s) ==
    [n EXCEPT !.state = s,
              !.started = \/ s = "inspecting"
                          \/ @ /\ ~(/\ n.state \in {"inspecting", "inspect wait"}
                                    /\ s \in {"manageable", "inspect failed"})]
Fired(n, event) == Moved(n, Successor(n.state, event))
Forgotten(n) == [n EXCEPT !.password = 0]

Acquire(what) == lock = "free" /\ lock' = "held" /\ pc' = what
Release == lock' = "free" /\ pc' = "idle"
Stay(what) == lock' = lock /\ pc' = what

\* A handler that takes the lock and gives it back before it returns.
Briefly == lock = "free" /\ UNCHANGED <<lock, pc>>

Working(what) == lock = "held" /\ pc = what

\* The machine stops, and what ran on it is lost.
PowerOff ==
    /\ machine' = Machine("off")
    /\ calls' = IF May("late callback") THEN calls ELSE {}

\* boot.clean_up_ramdisk and network.remove_rescuing_network, the second half
\* of AgentRescue.clean_up; its first half forgets the password.
CleanUp ==
    /\ boots' = IF boots = "ramdisk" THEN "nothing" ELSE boots
    /\ nets' = nets \ {"rescuing"}

----------------------------------------------------------------------------
(* Rescue *)

\* do_node_rescue: the password is saved before the event is tried.
DoNodeRescue ==
    /\ requests < MaxRequests /\ requests' = requests + 1
    /\ ~node.maintenance
    /\ Allowed(node.state, "rescue")
         \/ (May("late request") /\ node.state = "rescue wait")
    /\ node' = [node EXCEPT !.password = requests + 1, !.token = FALSE]
    /\ Acquire("asked")
    /\ UNCHANGED <<world, arguments, inventory, wanted, recover, orphan, attached,
                   inspections, crashes>>

\* Without a worker the node stays in RESCUING: the error handler does not
\* fit its arguments.
AcceptRescue ==
    /\ Working("asked")
    /\ Allowed(node.state, "rescue")
    /\ node' = Fired(node, "rescue")
    /\ wanted' = node.password
    /\ Stay("off") \/ (May("no worker") /\ Release)
    /\ UNCHANGED <<world, arguments, inventory, counts>>

\* The validation fails, or the state does not allow the event.  An error of the
\* network, which is none of the exceptions that are caught, leaves the password.
RefuseRescueKeepingPassword ==                                   \* faulty
    /\ Working("asked")
    /\ Release
    /\ UNCHANGED <<node, world, arguments, inventory, wanted, counts>>
RefuseRescue ==
    /\ Working("asked")
    /\ node' = Forgotten(node) \/ (May("network error") /\ node' = node)
    /\ Release
    /\ UNCHANGED <<world, arguments, inventory, wanted, counts>>

\* _do_node_rescue, with AgentRescue.rescue
RescuePowersOff ==
    /\ Working("off") /\ Stay("detach")
    /\ PowerOff
    /\ UNCHANGED <<node, boots, nets, arguments, inventory, wanted, counts>>

RescueDetaches ==
    /\ Working("detach") /\ Stay("attach")
    /\ boots' = "nothing" /\ nets' = nets \ {"tenant"}
    /\ UNCHANGED <<node, run, arguments, inventory, wanted, counts>>

RescueAttaches ==
    /\ Working("attach") /\ Stay("boot")
    /\ boots' = "ramdisk" /\ nets' = nets \cup {"rescuing"}
    /\ UNCHANGED <<node, run, arguments, inventory, wanted, counts>>

RescueBoots ==
    /\ Working("boot") /\ Release
    /\ machine' = Machine("booting")
    /\ node' = Fired(node, "wait")
    /\ UNCHANGED <<calls, boots, nets, arguments, inventory, wanted, counts>>

RescueFails ==
    /\ \E stage \in {"off", "detach", "attach", "boot"} : Working(stage)
    /\ node' = Fired(Forgotten(node), "fail")
    /\ Release
    /\ UNCHANGED <<world, arguments, inventory, wanted, counts>>

----------------------------------------------------------------------------
(* RESCUEWAIT *)

\* A heartbeat that the conductor accepts; the lock is not waited for.
Heartbeat == node.state = "rescue wait" /\ machine.is = "agent" /\ node.token

\* _heartbeat_rescue_wait: the agent gets the password, and then "resume".
HeartbeatFinalizes ==
    /\ Heartbeat /\ ~node.maintenance
    /\ node.password # 0
    /\ machine' = [Machine("rescue") EXCEPT !.entry = node.password]
    /\ node' = Fired(node, "resume")
    /\ Acquire("finalize")
    /\ UNCHANGED <<calls, boots, nets, arguments, inventory, wanted, counts>>

\* There is no password, or the agent refuses: rescuing_error_handler.
HeartbeatFails ==
    /\ Heartbeat /\ ~node.maintenance
    /\ Acquire("handle")
    /\ UNCHANGED <<node, world, arguments, inventory, wanted, counts>>

\* _heartbeat_in_maintenance
HeartbeatInMaintenance ==
    /\ Heartbeat /\ node.maintenance /\ ~ProvisionInMaintenance
    /\ Acquire("handle")
    /\ UNCHANGED <<node, world, arguments, inventory, wanted, counts>>

\* The rest of _finalize_rescue: rescue.clean_up ...
FinalizeCleansUp ==
    /\ Working("finalize") /\ Stay("reattach")
    /\ node' = Forgotten(node)
    /\ CleanUp
    /\ UNCHANGED <<run, arguments, inventory, wanted, counts>>

\* ... and configure_tenant_networks.
FinalizeReattaches ==
    /\ Working("reattach") /\ Release
    /\ nets' = nets \cup {"tenant"}
    /\ node' = Fired(node, "done")
    /\ UNCHANGED <<run, boots, arguments, inventory, wanted, counts>>

FinalizeFails ==
    /\ Working("finalize") \/ Working("reattach")
    /\ Stay("handle")
    /\ UNCHANGED <<node, world, arguments, inventory, wanted, counts>>

\* rescuing_error_handler: power off and rescue.clean_up, of which a prefix is
\* done, and "fail" unless the node has failed already.
HandleError ==
    /\ Working("handle") /\ Release
    /\ \E n \in {node, Forgotten(node)} :
         /\ node' = IF Allowed(n.state, "fail") THEN Fired(n, "fail") ELSE n
         /\ \/ n = node /\ UNCHANGED world
            \/ PowerOff /\ UNCHANGED <<boots, nets>>
            \/ n = Forgotten(node) /\ PowerOff /\ CleanUp
    /\ UNCHANGED <<arguments, inventory, wanted, counts>>

\* _do_abort.  Without a worker the node is restored, but for the password.
DoAbort ==
    /\ node.state = "rescue wait"
    /\ \/ Acquire("abort") /\ node' = Fired(Forgotten(node), "abort")
       \/ May("no worker") /\ Briefly /\ node' = Forgotten(node)
    /\ UNCHANGED <<world, arguments, inventory, wanted, counts>>

\* _do_node_rescue_abort: the ramdisk goes on running.
AbortRescue ==
    /\ Working("abort") /\ Release
    /\ \/ CleanUp /\ UNCHANGED node
       \/ /\ May("abort fails")
          /\ node' = [node EXCEPT !.maintenance = TRUE] /\ UNCHANGED <<boots, nets>>
    /\ UNCHANGED <<run, arguments, inventory, wanted, counts>>

\* _check_rescuewait_timeouts, which has no error handler: without a worker
\* the node has failed all the same.
CheckRescuewaitTimeouts ==
    /\ node.state = "rescue wait" /\ ~node.maintenance
    /\ node' = Fired(node, "fail")
    /\ Acquire("handle") \/ (May("no worker") /\ Briefly)
    /\ UNCHANGED <<world, arguments, inventory, wanted, counts>>

----------------------------------------------------------------------------
(* Unrescue *)

\* do_node_unrescue; without a worker the node is restored, a stutter.
DoNodeUnrescue ==
    /\ ~node.maintenance /\ Allowed(node.state, "unrescue")
    /\ node' = Fired(node, "unrescue")
    /\ Acquire("stop")
    /\ UNCHANGED <<world, arguments, inventory, wanted, counts>>

\* _do_node_unrescue, with AgentRescue.unrescue
UnrescuePowersOff ==
    /\ Working("stop") /\ Stay("clean")
    /\ PowerOff
    /\ UNCHANGED <<node, boots, nets, arguments, inventory, wanted, counts>>

UnrescueCleansUp ==
    /\ Working("clean") /\ Stay("restore")
    /\ node' = Forgotten(node)
    /\ CleanUp
    /\ UNCHANGED <<run, arguments, inventory, wanted, counts>>

UnrescueRestores ==
    /\ Working("restore") /\ Stay("start")
    /\ nets' = nets \cup {"tenant"} /\ boots' = "instance"
    /\ UNCHANGED <<node, run, arguments, inventory, wanted, counts>>

UnrescueBoots ==
    /\ Working("start") /\ Release
    /\ machine' = Machine("instance")
    /\ node' = Fired([node EXCEPT !.token = FALSE], "done")
    /\ UNCHANGED <<calls, boots, nets, arguments, inventory, wanted, counts>>

UnrescueFails ==
    /\ \E stage \in {"stop", "clean", "restore", "start"} : Working(stage)
    /\ node' = Fired(node, "fail")
    /\ Release
    /\ UNCHANGED <<world, arguments, inventory, wanted, counts>>

----------------------------------------------------------------------------
(* Inspection *)

\* inspect_hardware; without a worker the node is restored, a stutter.
InspectHardware ==
    /\ inspections < MaxInspections /\ inspections' = inspections + 1
    /\ Allowed(node.state, "inspect")
    /\ node' = Fired(node, "inspect")
    /\ Acquire("prepare")
    /\ UNCHANGED <<world, arguments, inventory, wanted, recover, orphan, attached,
                   requests, crashes>>

\* AgentInspect.inspect_hardware: off, on the network, and up with the ramdisk.
InspectPrepares ==
    /\ Working("prepare") /\ Stay("launch")
    /\ node' = [node EXCEPT !.token = FALSE, !.manages = ManageBoot]
    /\ PowerOff
    /\ IF ManageBoot THEN boots' = "ramdisk" /\ nets' = nets \cup {"inspection"}
                     ELSE UNCHANGED <<boots, nets>>
    /\ UNCHANGED <<arguments, inventory, wanted, counts>>

InspectBoots ==
    /\ Working("launch") /\ Release
    /\ machine' = [Machine("booting") EXCEPT !.data = inspections]
    /\ node' = Fired(node, "wait")
    /\ UNCHANGED <<calls, boots, nets, arguments, inventory, wanted, counts>>

\* The start of a boot that ironic manages is undone first.
InspectFails ==
    /\ Working("prepare") \/ Working("launch")
    /\ Stay(IF node.manages THEN "undo" ELSE "handle inspection")
    /\ UNCHANGED <<node, world, arguments, inventory, wanted, counts>>

\* tear_down_managed_boot goes on after an error, and returns the errors.
\* Only the first call cleans up: the flag is gone then.
TearDownSteps == IF PowerOffAfter THEN {"power"} ELSE {}
Undone(n) == IF n.manages THEN TearDownSteps \cup {"boot", "network"} ELSE TearDownSteps
TearDownManagedBoot(errors) ==
    LET done == Undone(node) \ errors IN
    /\ boots' = IF "boot" \in done /\ boots = "ramdisk" THEN "nothing" ELSE boots
    /\ nets' = IF "network" \in done THEN nets \ {"inspection"} ELSE nets
    /\ IF "power" \in done THEN PowerOff ELSE UNCHANGED run

\* clean_up(finish=False) moves the node by itself if there are errors.
CleanedUpRegardless(n, errors) == [n EXCEPT !.manages = FALSE]   \* faulty
CleanedUp(n, errors) ==
    LET m == [n EXCEPT !.manages = FALSE] IN
    IF errors # {} /\ Allowed(n.state, "fail") THEN Fired(m, "fail") ELSE m

\* continue_inspection names the node, and not the inspection.  Without a
\* worker the node is restored, but for the time.
ContinueInspection ==
    /\ node.state = "inspect wait"
    /\ \E k \in calls :
         \/ /\ node' = Fired(node, "resume")
            /\ report' = k /\ calls' = calls \ {k}
            /\ Acquire("process")
         \/ /\ May("no worker") /\ Briefly
            /\ node' = [node EXCEPT !.started = TRUE]
            /\ UNCHANGED <<report, calls>>
    /\ UNCHANGED <<machine, boots, nets, initial, inventory, wanted, counts>>

\* AgentInspect.continue_inspection, after its hooks
ProcessCleansUp ==
    /\ Working("process") /\ Stay("store")
    /\ \E errors \in SUBSET Undone(node) :
         /\ TearDownManagedBoot(errors)
         /\ node' = CleanedUp(node, errors)
         /\ attached' = (attached \/ "network" \in errors)
    /\ UNCHANGED <<arguments, inventory, wanted, recover, orphan, requests, inspections,
                   crashes>>

\* store_inspection_data and "done", which is refused when the node has
\* failed in the clean up.
StoreInventory ==
    /\ Working("store") /\ Release
    /\ inventory' = report
    /\ node' = IF Allowed(node.state, "done") THEN Fired(node, "done") ELSE node
    /\ UNCHANGED <<world, arguments, wanted, counts>>

\* The hooks fail before, the rules after the clean up.
ProcessFails ==
    /\ \/ Working("process") /\ Stay("undo")
       \/ Working("store") /\ Stay("handle inspection")
    /\ UNCHANGED <<node, world, arguments, inventory, wanted, counts>>

\* inspection_error_handler
UndoInspection ==
    /\ Working("undo") /\ Stay("handle inspection")
    /\ \E errors \in SUBSET Undone(node) : TearDownManagedBoot(errors)
    /\ node' = [node EXCEPT !.manages = FALSE]
    /\ UNCHANGED <<arguments, inventory, wanted, counts>>

\* inspecting_error_handler aborts, and detaches the machine in any case;
\* then its callers fail the node, unless it has failed already.
HandleInspectionError ==
    /\ Working("handle inspection") /\ Release
    /\ \E errors \in SUBSET (Undone(node) \ {"network"}), detached \in BOOLEAN :
         /\ boots' = IF "boot" \in Undone(node) \ errors /\ boots = "ramdisk"
                    THEN "nothing" ELSE boots
         /\ IF "power" \in Undone(node) \ errors THEN PowerOff ELSE UNCHANGED run
         /\ nets' = IF detached THEN nets \ {"inspection"} ELSE nets
         /\ attached' = (attached \/ ~detached)
    /\ LET n == [node EXCEPT !.manages = FALSE, !.token = FALSE] IN
         node' = IF Allowed(n.state, "fail") THEN Fired(n, "fail") ELSE n
    /\ UNCHANGED <<arguments, inventory, wanted, recover, orphan, requests, inspections,
                   crashes>>

\* abort_inspection, which runs in the request.
DoAbortInspection ==
    /\ node.state = "inspect wait"
    /\ Acquire("halt")
    /\ UNCHANGED <<node, world, arguments, inventory, wanted, counts>>

AbortInspection ==
    /\ Working("halt") /\ Release
    /\ \E errors \in SUBSET Undone(node) :
         /\ TearDownManagedBoot(errors)
         /\ LET n == CleanedUp([node EXCEPT !.token = FALSE], errors) IN
              node' = IF Allowed(n.state, "abort") THEN Fired(n, "abort") ELSE n
         /\ attached' = (attached \/ "network" \in errors)
    /\ UNCHANGED <<arguments, inventory, wanted, recover, orphan, requests, inspections,
                   crashes>>

\* _check_inspect_wait_timeouts goes by inspection_started_at.  Without a worker
\* the node is restored, but for that time.
CheckInspectWaitTimeouts ==
    /\ node.state = "inspect wait" /\ ~node.maintenance /\ node.started
    /\ \/ node' = Fired(node, "fail") /\ Acquire("handle inspection")
       \/ /\ May("no worker") /\ Briefly
          /\ node' = [node EXCEPT !.started = FALSE]
    /\ UNCHANGED <<world, arguments, inventory, wanted, counts>>

----------------------------------------------------------------------------
(* Verification, adoption and take-over *)

\* do_provisioning_action; without a worker the node is restored, a stutter.
Verify ==
    /\ node.state = "enroll"
    /\ node' = Fired(node, "manage")
    /\ Acquire("verify")
    /\ UNCHANGED <<world, arguments, inventory, wanted, counts>>

\* do_node_verify: the BMC answers and every verify step passes, or not.
DoNodeVerify ==
    /\ Working("verify") /\ Release
    /\ \E event \in {"done", "fail"} : node' = Fired(node, event)
    /\ UNCHANGED <<world, arguments, inventory, wanted, counts>>

\* The machine is in use: nothing of it is changed by an adoption.
Adopt ==
    /\ node.state \in {"manageable", "adopt failed"}
    /\ \/ machine.is = "instance" /\ nets = {"tenant"}
       \/ May("adopts blindly")
    /\ node' = Fired(node, "adopt")
    /\ Acquire("adopt")
    /\ UNCHANGED <<world, arguments, inventory, wanted, counts>>

\* _do_adoption: _do_takeover, which sets the boot interface up for the instance
\* before anything else that may fail, and "done".
DoAdoption ==
    /\ Working("adopt") /\ Release
    /\ \/ node' = Fired(node, "done") /\ boots' = "instance"
       \/ node' = Fired(node, "fail") /\ boots' \in {boots, "instance"}
    /\ UNCHANGED <<run, nets, arguments, inventory, wanted, counts>>

\* _sync_local_state of a conductor that the hash ring has given the node to;
\* without a worker nothing has changed.
SyncLocalState ==
    /\ node.state = "active" /\ ~node.maintenance
    /\ Acquire("take over")
    /\ UNCHANGED <<node, world, arguments, inventory, wanted, counts>>

DoTakeover ==
    /\ Working("take over") /\ Release
    /\ boots' \in {boots, "instance"}
    /\ UNCHANGED <<node, run, nets, arguments, inventory, wanted, counts>>

----------------------------------------------------------------------------
(* Tear down, and the next instance *)

DoNodeTearDown ==
    /\ Allowed(node.state, "delete")
    /\ node' = Fired(node, "delete")
    /\ initial' = node.state
    /\ Acquire("delete")
    /\ UNCHANGED <<world, report, inventory, wanted, counts>>

\* _do_node_tear_down cleans up after a rescue that it finds.
AfterSuccessfulRescue == initial = "rescue"                      \* faulty
AfterRescue == initial \in {"rescue wait", "rescue", "unrescue failed", "rescue failed"}

\* In any case instance_info is emptied, which holds the password.
TearDown ==
    /\ Working("delete") /\ Release
    /\ \/ /\ node' = Fired(Forgotten(node), "clean")
          /\ PowerOff /\ boots' = "nothing"
          /\ nets' = nets \ (IF AfterRescue THEN {"tenant", "rescuing"} ELSE {"tenant"})
       \/ \* deploy.tear_down fails, after the clean up
          /\ node' = Fired(Forgotten(node), "fail")
          /\ IF AfterRescue THEN CleanUp ELSE UNCHANGED <<boots, nets>>
          /\ UNCHANGED run
       \/ /\ AfterRescue /\ May("clean up fails")
          /\ node' = Fired(Forgotten(node), "fail")
          /\ UNCHANGED world
    /\ initial' = "none"
    /\ UNCHANGED <<report, inventory, wanted, counts>>

\* The node is cleaned and gets another instance, see Cleaning and Deployment,
\* or is taken out to be inspected, and provided again.
Redeploy ==
    /\ Briefly
    /\ node.state = "cleaning"
    /\ node' = [node EXCEPT !.state = "active", !.token = FALSE]
    /\ machine' = Machine("instance") /\ boots' = "instance"
    /\ nets' = nets \cup {"tenant"}
    /\ UNCHANGED <<calls, arguments, inventory, wanted, counts>>

Manage ==
    /\ Briefly
    /\ \/ node.state = "cleaning" /\ node' = Moved(node, "manageable")
       \/ node.state \in {"inspect failed", "adopt failed"} /\ node' = Fired(node, "manage")
    /\ UNCHANGED <<world, arguments, inventory, wanted, counts>>

Provide ==
    /\ Briefly
    /\ node.state = "manageable"
    /\ node' = Fired(node, "provide")
    /\ PowerOff /\ UNCHANGED <<boots, nets>>
    /\ UNCHANGED <<arguments, inventory, wanted, counts>>

UpdateMaintenance ==
    /\ Briefly
    /\ node.maintenance \/ May("maintenance")
    /\ node' = [node EXCEPT !.maintenance = ~@]
    /\ UNCHANGED <<world, arguments, inventory, wanted, counts>>

----------------------------------------------------------------------------
(* Crashes and recovery *)

Inspecting == {"prepare", "launch", "process", "store", "undo", "handle inspection"}

Crash ==
    /\ crashes < MaxCrashes /\ crashes' = crashes + 1
    /\ lock = "held" /\ lock' = "dead" /\ pc' = "idle"
    /\ initial' = "none" /\ report' = 0
    /\ pc = "asked" => May("dies in request")
    /\ pc = "delete" /\ AfterRescue => May("dies in delete")
    /\ attached' = (attached \/ (pc \in Inspecting /\ "inspection" \in nets))
    /\ UNCHANGED <<node, world, inventory, wanted, recover, orphan, requests, inspections>>

\* prepare_host frees the node, and later in the start, which is repeated if it
\* is interrupted, _correct_stuck_states fails it.
Restart ==
    /\ "restart" \in Recoveries
    /\ lock = "dead" /\ lock' = "free" /\ recover' = TRUE
    /\ UNCHANGED <<node, pc, world, arguments, inventory, wanted, orphan, attached,
                   requests, inspections, crashes>>

StuckStatesBeforeRescue == {"verifying", "inspecting", "adopting", "deleting"}  \* faulty
StuckStates == {"verifying", "inspecting", "adopting", "rescuing", "unrescuing", "deleting"}

\* _fail_if_in_state may not come to the node: the hash ring maps it to another
\* conductor, periodic_max_workers nodes came first, or one of them raised.
PassedOver == May("passed over")

CorrectStuckStates ==
    /\ recover /\ recover' = FALSE
    /\ \/ /\ node.state \in StuckStates /\ lock = "free"
          /\ node' = Fired(node, "fail") /\ orphan' = FALSE
       \/ /\ node.state \notin StuckStates \/ lock # "free"
          /\ UNCHANGED <<node, orphan>>
       \/ /\ PassedOver /\ lock = "free"
          /\ node' = node /\ orphan' = (node.state \in StuckStates)
    /\ UNCHANGED <<lock, pc, world, arguments, inventory, wanted, attached,
                   requests, inspections, crashes>>

\* _check_orphan_nodes only fails nodes that are deployed or cleaned, and leaves
\* the others as they are.
CheckOrphanNodes ==
    /\ "takeover" \in Recoveries
    /\ lock = "dead" /\ lock' = "free"
    /\ orphan' = (node.state \in StuckStates)
    /\ UNCHANGED <<node, pc, world, arguments, inventory, wanted, recover, attached,
                   requests, inspections, crashes>>

----------------------------------------------------------------------------
(* The machine *)

\* The agent comes up and looks the node up, which gives it a token.
AgentBoots ==
    /\ machine.is = "booting"
    /\ machine' = [machine EXCEPT !.is = "agent"]
    /\ node' = [node EXCEPT !.token = @ \/ node.state \in {"rescuing", "rescue wait"}]
    /\ UNCHANGED <<lock, pc, calls, boots, nets, arguments, inventory, wanted, counts>>

\* The ramdisk of an inspection sends its data, once.
AgentReports ==
    /\ machine.is = "agent" /\ machine.data # 0
    /\ calls' = calls \cup {machine.data}
    /\ machine' = [machine EXCEPT !.data = 0]
    /\ UNCHANGED <<node, lock, pc, boots, nets, arguments, inventory, wanted, counts>>

\* The call is given up, refused by the API or the conductor.
ReportLost ==
    /\ \E k \in calls : calls' = calls \ {k}
    /\ UNCHANGED <<node, lock, pc, machine, boots, nets, arguments, inventory, wanted, counts>>

AgentLost ==
    /\ machine.is \in {"booting", "agent"}
    /\ machine' = Machine("off")
    /\ UNCHANGED <<node, lock, pc, calls, boots, nets, arguments, inventory, wanted, counts>>

----------------------------------------------------------------------------
Worker ==
    \/ AcceptRescue \/ RefuseRescue
    \/ RescuePowersOff \/ RescueDetaches \/ RescueAttaches \/ RescueBoots \/ RescueFails
    \/ FinalizeCleansUp \/ FinalizeReattaches \/ FinalizeFails \/ HandleError
    \/ AbortRescue
    \/ UnrescuePowersOff \/ UnrescueCleansUp \/ UnrescueRestores \/ UnrescueBoots
    \/ UnrescueFails
    \/ InspectPrepares \/ InspectBoots \/ InspectFails
    \/ ProcessCleansUp \/ StoreInventory \/ ProcessFails
    \/ UndoInspection \/ HandleInspectionError \/ AbortInspection
    \/ TearDown
    \/ DoNodeVerify \/ DoAdoption \/ DoTakeover

Operator ==
    \/ DoNodeRescue \/ DoAbort \/ DoNodeUnrescue \/ DoNodeTearDown
    \/ InspectHardware \/ DoAbortInspection
    \/ Verify \/ Adopt \/ SyncLocalState
    \/ Redeploy \/ Manage \/ Provide \/ UpdateMaintenance

Heartbeats == HeartbeatFinalizes \/ HeartbeatFails \/ HeartbeatInMaintenance
Recover == Restart \/ CorrectStuckStates \/ CheckOrphanNodes

Timeouts == CheckRescuewaitTimeouts \/ CheckInspectWaitTimeouts
Hardware == AgentBoots \/ AgentReports \/ ReportLost \/ AgentLost

Next ==
    \/ Operator \/ Worker \/ Heartbeats \/ ContinueInspection \/ Timeouts
    \/ Crash \/ Recover \/ Hardware

Spec == Init /\ [][Next]_vars

\* Nothing postpones the timeouts of RESCUEWAIT and INSPECTWAIT: they come.
Fairness == WF_vars(Worker) /\ WF_vars(Recover) /\ WF_vars(Timeouts)

FairSpec == Spec /\ Fairness

----------------------------------------------------------------------------
(* Properties *)

\* A node in ACTIVE that nobody works on belongs to its instance altogether:
\* the machine runs it and will boot it, on the networks of the tenant alone,
\* and nothing of a rescue is left, with whatever failures it got there
\* (_do_node_unrescue, _do_node_tear_down).  An inspection leaves its network
\* behind only when it could not be removed.
ActiveIsTheInstances ==
    node.state = "active" /\ lock = "free" =>
        /\ node.password = 0
        /\ machine.is = "instance" /\ boots = "instance"
        /\ nets \ (IF attached THEN {"inspection"} ELSE {}) = {"tenant"}

\* A node enters RESCUE with a machine that lets in the password of the last
\* request that was accepted and no other, that is back on the network of the
\* tenant and off the other one, and with the password gone (_finalize_rescue).
RescueMeansReady ==
    [][node.state # "rescue" /\ node'.state = "rescue" =>
         /\ machine'.is = "rescue" /\ machine'.entry = wanted
         /\ nets' \ (IF attached THEN {"inspection"} ELSE {}) = {"tenant"}
         /\ node'.password = 0]_vars

\* A node that has been inspected has the data of this inspection, and what the
\* inspection had set up is gone (continue_inspection): the data of an earlier
\* one, or a clean up with errors, do not make it manageable.
InspectedMeansDone ==
    [][node.state = "inspecting" /\ node'.state = "manageable" =>
         /\ inventory' = inspections
         /\ "inspection" \notin nets' /\ boots' # "ramdisk"
         /\ PowerOffAfter => machine'.is = "off"]_vars

InFlow == node.state \in {"rescuing", "rescue wait", "unrescuing", "inspecting",
                          "inspect wait", "verifying", "adopting"}

\* A node on its way into rescue or out of it, in an inspection, a verification or
\* an adoption, arrives, or fails, unless it is in maintenance, or a recovery has
\* freed it in the middle of a flow and left it there: _check_orphan_nodes, or a
\* start whose _correct_stuck_states has not come to it.  It is forgotten only
\* then, and a later start that comes to it makes good for it.
FlowsEnd == InFlow ~> ~InFlow \/ node.maintenance \/ orphan

=============================================================================

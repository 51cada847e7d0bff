------------------------------ MODULE Servicing ------------------------------
(***************************************************************************)
(* Servicing of a node with an instance: out of ACTIVE, through the steps  *)
(* of a request, and back (conductor/servicing.py).                        *)
(*                                                                         *)
(* Unlike cleaning and deployment, servicing borrows the machine: the      *)
(* instance is shut down for the ramdisk, and somebody has to bring it     *)
(* back, whatever happens.  The steps are those of the request, so the     *)
(* list is one of Plans.  An abort goes through SERVICEFAIL to ACTIVE at   *)
(* once, and a worker cleans up behind it; unhold starts a worker where    *)
(* the other flows wait for a heartbeat.                                   *)
(*                                                                         *)
(* The lock is the abstract one of NodeLock: a holder, or the reservation  *)
(* that a dead conductor has left behind.                                  *)
(***************************************************************************)
EXTENDS ProvisionStates, Naturals, Sequences

CONSTANTS
    Plans,           \* the lists of steps a request may have, a sequence of them
    Late,            \* the plans with steps that only the agent knows
    DisableRamdisk,  \* the values of disable_ramdisk a request may have
    AbortableKinds,  \* the kinds of steps declared with abortable=True
    ProvisionInMaintenance, \* [conductor]allow_provisioning_in_maintenance
    Trouble,         \* what may go wrong, a subset of Troubles
    Recoveries,      \* who frees the lock of a dead conductor
    MaxServices,     \* bound: servicings that are started
    MaxCrashes       \* bound: conductor crashes

(* sync    out of band, returns None                                       *)
(* inband  runs in the agent, returns SERVICEWAIT                          *)
(* reboot  the same, and asks for a reboot when it is done                 *)
(* poll    changes the BMC, reboots; the driver polls for its end          *)
(* hold, wait   the reserved steps                                         *)
StepKinds == {"sync", "inband", "reboot", "poll", "hold", "wait"}

(* no worker       _spawn_worker may raise NoFreeConductorWorker           *)
(* agent restarts  an agent that restarts may heartbeat again              *)
(* mismatch        the agent may answer VERSION_MISMATCH                   *)
(* bad steps       a request may not pass the validation of its steps      *)
(* abort fails     the worker of an abort may meet an error of the driver  *)
(* leftovers       jobs and messages of an earlier servicing may be around *)
(* passed over     the start of a conductor may not come to the node, or   *)
(*                 may find it locked                                      *)
Troubles == {"no worker", "agent restarts", "mismatch", "bad steps", "abort fails",
             "leftovers", "passed over"}
May(trouble) == trouble \in Trouble

ASSUME ServicingAssumption ==
    /\ Plans \in Seq(Seq(StepKinds)) /\ Plans # <<>>
    /\ \A p \in 1..Len(Plans) : Plans[p] # <<>>
    /\ Late \subseteq 1..Len(Plans)
    /\ DisableRamdisk \subseteq BOOLEAN
    /\ AbortableKinds \subseteq StepKinds
    /\ ProvisionInMaintenance \in BOOLEAN
    /\ Trouble \subseteq Troubles /\ Recoveries \subseteq {"restart", "takeover"}
    /\ MaxServices \in Nat /\ MaxCrashes \in Nat

VARIABLES
    node,       \* the row of the node
    lock,       \* its reservation: free, held, or left by a dead conductor
    pc,         \* what the holder of the lock does next
    at,         \* the index in the list that do_next_service_step has reached
    agent,      \* the ramdisk: is it up, and its last command
    away,       \* the machine is out of the hands of its instance
    job,        \* the step whose job in the BMC the driver polls, and is it over
    casts,      \* continue_node_service messages that wait for the lock
    recover,    \* a restart has freed the lock and is not finished
    plan,       \* history: the plan of the last request
    over,       \* history: the steps of it that are really over
    missing,    \* history: the machine was away already when it came
    services, crashes    \* counters for the bounds

history == <<plan, over, missing>>
counters == <<services, crashes>>
vars == <<node, lock, pc, at, agent, away, job, casts, recover, history, counters>>

Indices == UNION {1..Len(Plans[p]) : p \in 1..Len(Plans)}
Steps == 1..Len(Plans[plan])
Up == {"fresh", "busy", "ok", "failed", "mismatch"}

TypeOK ==
    /\ node \in [state : {"active"} \cup ServiceStates,
                 maintenance : BOOLEAN,
                 fault : BOOLEAN,            \* fault = SERVICE_FAILURE
                 step : {0} \cup Indices,    \* service_step; 0: empty
                 kind : {"none"} \cup StepKinds,  \* what service_step says
                 abortAfter : BOOLEAN,       \* service_step['abort_after']
                 index : {0} \cup Indices,   \* service_step_index + 1; 0: absent
                 disabled : BOOLEAN,         \* service_disable_ramdisk
                 skip : BOOLEAN,             \* skip_current_service_step
                 polling : BOOLEAN,          \* servicing_polling
                 rebooting : BOOLEAN]        \* servicing_reboot
    /\ lock \in {"free", "held", "dead"}
    /\ pc \in {"idle", "start", "continue", "next", "execute", "park", "finish",
               "abort", "cleanup"}
    /\ at \in {0} \cup Steps
    /\ agent \in [is : {"off", "booting"} \cup Up, cmd : {0} \cup Indices]
    /\ away \in BOOLEAN
    /\ job \in [step : {0} \cup Indices, over : BOOLEAN]
    /\ casts \in Nat
    /\ recover \in BOOLEAN
    /\ plan \in 1..Len(Plans)
    /\ over \subseteq Indices
    /\ missing \in BOOLEAN
    /\ services \in 0..MaxServices
    /\ crashes \in 0..MaxCrashes

NoJob == [step |-> 0, over |-> FALSE]
Off == [is |-> "off", cmd |-> 0]
Booting == [is |-> "booting", cmd |-> 0]

Init ==
    /\ node = [state |-> "active", maintenance |-> FALSE, fault |-> FALSE,
               step |-> 0, kind |-> "none", abortAfter |-> FALSE, index |-> 0,
               disabled |-> FALSE, skip |-> TRUE, polling |-> FALSE,
               rebooting |-> FALSE]
    /\ lock = "free" /\ pc = "idle" /\ at = 0
    /\ agent = Off /\ away = FALSE /\ job = NoJob /\ casts = 0 /\ recover = FALSE
    /\ plan = 1 /\ over = {} /\ missing = FALSE
    /\ services = 0 /\ crashes = 0

----------------------------------------------------------------------------
(* The row of the node *)

Fired(n, event) == [n EXCEPT !.state = Successor(n.state, event)]

WithoutStep(n) == [n EXCEPT !.step = 0, !.kind = "none", !.abortAfter = FALSE]

NoFlags(n) == [n EXCEPT !.skip = TRUE, !.polling = FALSE, !.rebooting = FALSE]

\* wipe_service_internal_info.  The token and the URL of the agent go too, so
\* that a ramdisk that still runs is as good as off; service_step stays.
Wiped(n) == [NoFlags(n) EXCEPT !.index = 0, !.disabled = FALSE]

\* servicing_error_handler with set_fail_state=False: a node that failed in a
\* step is put in maintenance, and is cleared unless it is ACTIVE already.
Quarantined(n) ==
    LET m == [n EXCEPT !.maintenance = @ \/ n.step # 0, !.fault = @ \/ n.step # 0]
    IN  IF n.state \in {"servicing", "service wait", "service failed"}
        THEN [NoFlags(WithoutStep(m)) EXCEPT !.index = 0]
        ELSE m

Failed(n) ==
    IF n.state # "service failed" THEN Fired(Quarantined(n), "fail") ELSE Quarantined(n)

\* tear_down_service: with a fault the ramdisk keeps the machine; it may also
\* fail, which the error handler only records.
TornDown(n) == away' = IF n.fault THEN away ELSE FALSE
MaybeTornDown(n) == away' \in {away, away /\ n.fault}

\* _get_node_next_steps: 0 when there is nothing left to do.
NextIndexOffByOne(n) ==                                          \* faulty
    IF n.step = 0 THEN 1
    ELSE IF n.index # 0 /\ n.index + 2 \in Steps THEN n.index + 2 ELSE 0
NextIndexRepeats(n) ==                                           \* faulty
    IF n.step = 0 THEN 1 ELSE n.index
NextIndex(n) ==
    LET i == IF n.skip THEN n.index + 1 ELSE n.index
    IN  IF n.step = 0 THEN 1
        ELSE IF n.index # 0 /\ i \in Steps THEN i ELSE 0

----------------------------------------------------------------------------
(* The lock *)

Acquire(what) == lock = "free" /\ lock' = "held" /\ pc' = what /\ at' = 0
Release == lock' = "free" /\ pc' = "idle" /\ at' = 0
Stay(what, i) == lock' = lock /\ pc' = what /\ at' = i

\* A handler that takes the lock and gives it back before it returns.
Briefly == lock = "free" /\ UNCHANGED <<lock, pc, at>>

Working(what) == lock = "held" /\ pc = what

\* The worker is spawned, or the request returns without one.
Spawn(what) == Acquire(what) \/ (May("no worker") /\ Briefly)

----------------------------------------------------------------------------
(* Requests of the operator.  A request whose worker cannot be spawned     *)
(* leaves the node as it was, except where noted.                          *)

DoNodeService ==
    /\ services < MaxServices
    /\ ~node.maintenance /\ Allowed(node.state, "service")
    /\ \E p \in 1..Len(Plans), d \in DisableRamdisk :
         /\ plan' = p
         /\ node' = Fired([node EXCEPT !.disabled = d], "service")
    /\ Acquire("start")
    /\ missing' = away
    /\ services' = services + 1
    /\ UNCHANGED <<agent, away, job, casts, recover, over, crashes>>

\* do_provisioning_action.  The error handler does not fit its arguments, so
\* that without a worker the node stays in SERVICEWAIT.
Unhold ==
    /\ node.state = "service hold"
    /\ node' = Fired(node, "unhold")
    /\ Spawn("continue")
    /\ UNCHANGED <<agent, away, job, casts, recover, history, counters>>

\* _do_abort in SERVICEWAIT and SERVICEHOLD: after the step if it is not
\* abortable, else "fail" and then "abort", where only the second has a
\* worker to be spawned and to be taken back.
AbortLater ==
    /\ node.state \in {"service wait", "service hold"}
    /\ node.step # 0 /\ node.kind \notin AbortableKinds
    /\ Briefly /\ node' = [node EXCEPT !.abortAfter = TRUE]
    /\ UNCHANGED <<agent, away, job, casts, recover, history, counters>>

AbortNow ==
    /\ node.state \in {"service wait", "service hold"}
    /\ node.step = 0 \/ node.kind \in AbortableKinds
    /\ LET n == Fired(node, "fail")
       IN  \/ Acquire("abort") /\ node' = Fired(n, "abort")
           \/ May("no worker") /\ Briefly /\ node' = n
    /\ UNCHANGED <<agent, away, job, casts, recover, history, counters>>

AbortFailed ==
    /\ node.state = "service failed" /\ ~node.maintenance
    /\ Acquire("abort") /\ node' = Fired(node, "abort")
    /\ UNCHANGED <<agent, away, job, casts, recover, history, counters>>

\* update_node: leaving maintenance also forgets the fault.
UpdateMaintenance ==
    /\ Briefly
    /\ node' = [node EXCEPT !.maintenance = ~@, !.fault = FALSE]
    /\ UNCHANGED <<agent, away, job, casts, recover, history, counters>>

----------------------------------------------------------------------------
(* The worker *)

\* A worker that ends in servicing_error_handler.
WorkerFails ==
    /\ node' = Failed(node) /\ MaybeTornDown(node')
    /\ agent' = Off /\ Release
    /\ UNCHANGED <<job, casts, recover, history, counters>>

NeedsRamdisk == \E k \in Steps : Plans[plan][k] \in {"inband", "reboot"}

\* set_node_service_steps: does it raise InvalidParameterValue?  If not, it
\* forgets the step that an earlier servicing may have left behind.
Invalid(n) == plan \in Late \/ (n.disabled /\ NeedsRamdisk)
Listed(n) == [WithoutStep(n) EXCEPT !.index = 0]

\* do_node_service.  A list that cannot be made without the agent is left to
\* the first heartbeat; without a ramdisk the exception ends the worker, and
\* nothing else.
StartService ==
    /\ Working("start")
    /\ \E invalid \in {Invalid(node)} \cup {May("bad steps")} :
         LET w == [Wiped(node) EXCEPT !.disabled = node.disabled]
             n == IF invalid THEN w ELSE Listed(w)
         IN  CASE invalid /\ n.disabled ->
                    node' = n /\ agent' = Off /\ away' = away /\ Release
               [] ~n.disabled /\ (invalid \/ NeedsRamdisk) ->
                    /\ node' = Fired(n, "wait")
                    /\ agent' = Booting /\ away' = TRUE
                    /\ Release
               [] OTHER ->
                    /\ node' = [n EXCEPT !.disabled = TRUE]
                    /\ agent' = Off /\ away' = away
                    /\ Stay("next", 1)
    /\ over' = {}
    /\ IF May("leftovers") THEN UNCHANGED <<job, casts>> ELSE job' = NoJob /\ casts' = 0
    /\ UNCHANGED <<recover, plan, missing, counters>>

\* The validation of the node, or prepare_service, fails.
StartFails == Working("start") /\ WorkerFails

\* continue_node_service
ContinueService ==
    /\ Working("continue")
    /\ LET n == [node EXCEPT !.skip = TRUE, !.polling = FALSE]
           i == NextIndex(node)
       IN  IF n.abortAfter
           THEN node' = Fired(n, "fail") /\ Stay("abort", 0)
           ELSE node' = n /\ Stay(IF i # 0 THEN "next" ELSE "finish", i)
    /\ UNCHANGED <<agent, away, job, casts, recover, history, counters>>

\* do_next_service_step saves the step it is about to run ...
NextServiceStep ==
    /\ Working("next")
    /\ node' = [node EXCEPT !.step = at, !.kind = Plans[plan][at], !.index = at,
                            !.abortAfter = FALSE, !.polling = FALSE]
    /\ Stay("execute", at)
    /\ UNCHANGED <<agent, away, job, casts, recover, history, counters>>

Executing(kinds) == Working("execute") /\ Plans[plan][at] \in kinds

\* ... and what follows a step that has returned None.
AdvancePastEnd ==                                                \* faulty
    IF at <= Len(Plans[plan]) THEN Stay("next", at + 1) ELSE Stay("finish", 0)
Advance ==
    IF at < Len(Plans[plan]) THEN Stay("next", at + 1) ELSE Stay("finish", 0)

ExecuteSync ==
    /\ Executing({"sync"})
    /\ over' = over \cup {at}
    /\ Advance
    /\ UNCHANGED <<node, agent, away, job, casts, recover, plan, missing, counters>>

\* Any exception of a step, and an agent that does not answer.
ExecuteFails == Executing(StepKinds) /\ WorkerFails

\* An agent that is busy, or that has not come back from a reboot, will be
\* asked for the same step again.
ExecuteInAgent ==
    /\ Executing({"inband", "reboot"})
    /\ agent.is \in Up \/ node.rebooting
    /\ Stay("park", 0)
    /\ IF agent.is \in Up \ {"busy"}
       THEN agent' = [is |-> "busy", cmd |-> at] /\ UNCHANGED node
       ELSE node' = [node EXCEPT !.skip = FALSE] /\ UNCHANGED agent
    /\ UNCHANGED <<away, job, casts, recover, history, counters>>

\* set_node_flags and reboot_to_finish_step.  Without a ramdisk it is the
\* instance that reboots.
ExecutePolled ==
    /\ Executing({"poll"})
    /\ job' = [step |-> at, over |-> FALSE]
    /\ agent' = IF node.disabled THEN agent ELSE Booting
    /\ node' = [node EXCEPT !.skip = TRUE, !.polling = TRUE, !.rebooting = TRUE]
    /\ Stay("park", 0)
    /\ UNCHANGED <<away, casts, recover, history, counters>>

\* use_reserved_step_handler leaves the loop, where the event is allowed.
Event(kind) == IF kind = "hold" THEN "hold" ELSE "wait"

ExecuteReserved ==
    /\ Executing({"hold", "wait"})
    /\ Allowed(node.state, Event(node.kind))
    /\ node' = Fired(node, Event(node.kind))
    /\ over' = over \cup {at}
    /\ Release
    /\ UNCHANGED <<agent, away, job, casts, recover, plan, missing, counters>>

\* process_event('wait'): a worker that unhold has started is in SERVICEWAIT
\* already, where the event is an error.
Park ==
    /\ Working("park")
    /\ IF Allowed(node.state, "wait")
       THEN node' = Fired(node, "wait") /\ Release /\ UNCHANGED <<agent, away>>
       ELSE node' = Failed(node) /\ MaybeTornDown(node') /\ agent' = Off /\ Release
    /\ UNCHANGED <<job, casts, recover, history, counters>>

\* _tear_down_node_service.  Of the fail-over for 'done' the same holds.
FinishKeepingRamdisk ==                                          \* faulty
    /\ Working("finish")
    /\ LET n == WithoutStep(Wiped(node))
       IN  node' = IF Allowed(n.state, "done") THEN Fired(n, "done") ELSE Failed(n)
    /\ agent' = Off /\ Release
    /\ UNCHANGED <<away, job, casts, recover, history, counters>>
FinishService ==
    /\ Working("finish")
    /\ LET n == WithoutStep(Wiped(node))
       IN  node' = IF Allowed(n.state, "done") THEN Fired(n, "done") ELSE Failed(n)
    /\ IF node.disabled THEN away' = away ELSE TornDown(node')
    /\ agent' = Off /\ Release
    /\ UNCHANGED <<job, casts, recover, history, counters>>

\* tear_down_service raises.
FinishFails ==
    /\ Working("finish") /\ ~node.disabled
    /\ node' = Failed(WithoutStep(Wiped(node))) /\ agent' = Off /\ Release
    /\ UNCHANGED <<away, job, casts, recover, history, counters>>

\* do_node_service_abort, in ACTIVE, or in SERVICEFAIL after abort_after.
AbortService ==
    /\ Working("abort")
    /\ IF May("abort fails")
       THEN \/ node' = WithoutStep(Wiped(node)) /\ TornDown(node)
            \/ node' = Quarantined(node) /\ away' = away
       ELSE node' = WithoutStep(Wiped(node)) /\ TornDown(node)
    /\ agent' = Off /\ Release
    /\ UNCHANGED <<job, casts, recover, history, counters>>

\* cleanup_servicewait_timeout, in SERVICEFAIL already.
CleanUpTimeout == Working("cleanup") /\ WorkerFails

----------------------------------------------------------------------------
(* Heartbeats of the agent: the lock is not waited for (retry=False). *)

Heartbeat == lock = "free" /\ agent.is \in Up /\ node.state = "service wait"

HeartbeatFails ==
    /\ Heartbeat
    /\ node' = Failed(node) /\ MaybeTornDown(node') /\ agent' = Off
    /\ UNCHANGED <<lock, pc, at, job, casts, recover, history, counters>>

\* _heartbeat_in_maintenance
HeartbeatInMaintenance == node.maintenance /\ ~ProvisionInMaintenance /\ HeartbeatFails

\* _heartbeat_service_wait: any exception.
HeartbeatBreaks == ~node.maintenance /\ (node.step = 0 \/ ~node.polling) /\ HeartbeatFails

\* _step_failure_handler knows two flows only: the step of the agent that has
\* failed ends in deploying_error_handler, which leaves everything as it is.
HeartbeatStepFailed ==
    /\ Heartbeat /\ ~node.maintenance /\ node.step # 0 /\ ~node.polling
    /\ agent.is = "failed"
    /\ node' = Fired(node, "fail")
    /\ UNCHANGED <<lock, pc, at, agent, away, job, casts, recover, history, counters>>

\* A heartbeat that resumes the servicing and keeps the lock for it.
HeartbeatContinues(n) ==
    /\ Heartbeat /\ ~node.maintenance
    /\ node' = Fired(n, "resume")
    /\ Acquire("continue")
    /\ UNCHANGED <<agent, away, job, casts, recover, history, counters>>

\* The first one asks for the steps of the agent, and the list is made.
HeartbeatFirst ==
    /\ node.step = 0 /\ HeartbeatContinues(Listed(node))

\* process_next_step: the agent has run no step since it booted.
HeartbeatFresh ==
    /\ node.step # 0 /\ ~node.polling /\ agent.is = "fresh"
    /\ HeartbeatContinues([node EXCEPT !.rebooting = FALSE])

\* process_next_step: the last command of the agent is the current step.
LastCommandIsStep ==
    /\ node.step # 0 /\ ~node.polling
    /\ agent.is = "ok" /\ agent.cmd = node.step

\* A version mismatch resets the clean steps, whatever the flow is, and the
\* servicing goes on after the step that was refused.
HeartbeatDone ==
    /\ \/ LastCommandIsStep /\ node.kind # "reboot"
       \/ node.step # 0 /\ ~node.polling /\ agent.is = "mismatch"
    /\ HeartbeatContinues(node)

\* _post_step_reboot
HeartbeatReboots ==
    /\ Heartbeat /\ ~node.maintenance
    /\ LastCommandIsStep /\ node.kind = "reboot"
    /\ agent' = Booting
    /\ node' = [node EXCEPT !.rebooting = TRUE]
    /\ UNCHANGED <<lock, pc, at, away, job, casts, recover, history, counters>>

----------------------------------------------------------------------------
(* RPC and periodic tasks *)

\* ConductorManager.continue_node_service: 'resume' is an error in SERVICING,
\* which is among the expected states.
ContinueNodeService ==
    /\ casts > 0 /\ casts' = casts - 1
    /\ IF Allowed(node.state, "resume")
       THEN node' = Fired(node, "resume") /\ Spawn("continue")
       ELSE node' = node /\ Briefly
    /\ UNCHANGED <<agent, away, job, recover, history, counters>>

\* The driver finds the job of a polled step over.  The message names the
\* node, not the step.
QueryJobStatus ==
    /\ Briefly /\ node.state = "service wait"
    /\ job.step # 0 /\ job.over
    /\ job' = NoJob
    /\ casts' = casts + 1
    /\ UNCHANGED <<node, agent, away, recover, history, counters>>

\* _check_servicewait_timeouts: without a worker the node is restored.
CheckServicewaitTimeouts ==
    /\ node.state = "service wait" /\ ~node.maintenance
    /\ node' = Fired(node, "fail")
    /\ Acquire("cleanup")
    /\ UNCHANGED <<agent, away, job, casts, recover, history, counters>>

----------------------------------------------------------------------------
(* A conductor dies with the lock *)

Crash ==
    /\ crashes < MaxCrashes /\ crashes' = crashes + 1
    /\ lock = "held" /\ lock' = "dead" /\ pc' = "idle" /\ at' = 0
    /\ UNCHANGED <<node, agent, away, job, casts, recover, history, services>>

\* prepare_host of the conductor that comes back, or _check_orphan_nodes of
\* another one, which frees the node and does nothing more for SERVICING.
RemoveLock ==
    /\ lock = "dead" /\ lock' = "free"
    /\ \E how \in Recoveries : recover' = (recover \/ how = "restart")
    /\ UNCHANGED <<node, pc, at, agent, away, job, casts, history, counters>>

\* _correct_stuck_states fails the node without an error handler.
StuckStatesBeforeServicing == {}                                 \* faulty
StuckStates == {"servicing"}

\* _fail_if_in_state may not come to the node: the hash ring maps it to another
\* conductor, periodic_max_workers nodes came first, or one of them raised.
PassedOver == May("passed over")

CorrectStuckStates ==
    /\ recover /\ recover' = FALSE
    /\ \/ /\ node.state \in StuckStates /\ lock = "free"
          /\ node' = Fired(node, "fail")
       \/ /\ node.state \notin StuckStates \/ lock # "free" \/ PassedOver
          /\ node' = node
    /\ UNCHANGED <<lock, pc, at, agent, away, job, casts, history, counters>>

----------------------------------------------------------------------------
(* The hardware *)

AgentBoots ==
    /\ agent.is = "booting"
    /\ agent' = [is |-> "fresh", cmd |-> 0]
    /\ UNCHANGED <<node, lock, pc, at, away, job, casts, recover, history, counters>>

Outcomes == {"ok", "failed"} \cup (IF May("mismatch") THEN {"mismatch"} ELSE {})

AgentFinishes ==
    /\ agent.is = "busy"
    /\ \E outcome \in Outcomes :
         /\ agent' = [agent EXCEPT !.is = outcome]
         /\ over' = IF outcome = "ok" THEN over \cup {agent.cmd} ELSE over
    /\ UNCHANGED <<node, lock, pc, at, away, job, casts, recover, plan, missing, counters>>

AgentLost ==
    /\ agent.is \in Up
    /\ agent' \in {Off} \cup (IF May("agent restarts") THEN {Booting} ELSE {})
    /\ UNCHANGED <<node, lock, pc, at, away, job, casts, recover, history, counters>>

JobFinishes ==
    /\ job.step # 0 /\ ~job.over
    /\ job' = [job EXCEPT !.over = TRUE]
    /\ over' = over \cup {job.step}
    /\ UNCHANGED <<node, lock, pc, at, agent, away, casts, recover, plan, missing, counters>>

----------------------------------------------------------------------------

Operator ==
    \/ DoNodeService \/ Unhold \/ AbortLater \/ AbortNow \/ AbortFailed
    \/ UpdateMaintenance

Worker ==
    \/ StartService \/ StartFails \/ ContinueService \/ NextServiceStep
    \/ ExecuteSync \/ ExecuteFails \/ ExecuteInAgent \/ ExecutePolled
    \/ ExecuteReserved \/ Park \/ FinishService \/ FinishFails \/ AbortService
    \/ CleanUpTimeout

Heartbeats ==
    \/ HeartbeatInMaintenance \/ HeartbeatStepFailed \/ HeartbeatFirst
    \/ HeartbeatFresh \/ HeartbeatDone \/ HeartbeatReboots

Conductor == ContinueNodeService \/ QueryJobStatus
Recover == RemoveLock \/ CorrectStuckStates
Hardware == AgentBoots \/ AgentFinishes \/ JobFinishes

Next ==
    \/ Operator \/ Worker \/ Heartbeats \/ Conductor \/ Recover \/ Hardware
    \/ HeartbeatBreaks \/ CheckServicewaitTimeouts \/ Crash \/ AgentLost

Spec == Init /\ [][Next]_vars

\* A silent node runs into the callback timeout: touch_provisioning puts it
\* off while there are heartbeats.
SilentTimeout == agent.is = "off" /\ CheckServicewaitTimeouts

Fairness ==
    /\ WF_vars(Worker) /\ WF_vars(Heartbeats) /\ WF_vars(Conductor)
    /\ WF_vars(Recover) /\ WF_vars(AgentBoots) /\ WF_vars(AgentFinishes)
    /\ WF_vars(JobFinishes) /\ WF_vars(SilentTimeout)

FairSpec == Spec /\ Fairness

----------------------------------------------------------------------------
(* Properties *)

\* A servicing that is reported as done has had every step of its request, to
\* its end (do_node_service, _get_node_next_steps with what is left of an
\* earlier servicing in service_step).
DoneMeansServiced ==
    [][node.state = "servicing" /\ node'.state = "active" => over = Steps]_vars

\* A worker that leaves the node in ACTIVE, and not in maintenance, has given
\* the machine back to its instance, unless an earlier servicing had left it
\* without (_tear_down_node_service, do_node_service_abort, which runs in
\* ACTIVE).
InstanceIsBack ==
    [][pc # "idle" /\ lock' = "free" /\ node'.state = "active" /\ ~node'.maintenance
       => ~away' \/ missing]_vars

\* A node in SERVICING is being worked on, or waits for a restart that has
\* begun to recover it: the state has no timeout.
ServicingIsWorkedOn == node.state = "servicing" => lock # "free" \/ recover

\* A servicing ends, fails, or stops at a hold step, as long as it is not in
\* maintenance, where the timeout does not look.
ServicingEnds ==
    node.state \in {"servicing", "service wait"}
        ~> node.state \notin {"servicing", "service wait"} \/ node.maintenance

=============================================================================

----------------------------- MODULE Deployment -----------------------------
(***************************************************************************)
(* The deployment of one node, from AVAILABLE to ACTIVE, and the tear down *)
(* that takes its instance off again.                                      *)
(*                                                                         *)
(* A worker runs the deploy steps in the order of their priorities under   *)
(* the exclusive lock (conductor/deployments.py).  A step that goes on     *)
(* without the conductor parks the node in DEPLOYWAIT ("wait call-back"),  *)
(* from where a heartbeat of the agent or a message of a polling driver    *)
(* picks it up.  Unlike the clean steps, the list is made twice: without   *)
(* the steps of the agent before it is up, and with them on the first      *)
(* continuation.                                                           *)
(*                                                                         *)
(* The lock is the abstract one of NodeLock: a holder, or the reservation  *)
(* that a dead conductor has left behind.  The target is left out: no code *)
(* of this flow reads it.                                                  *)
(***************************************************************************)
EXTENDS ProvisionStates, Naturals, FiniteSets, Sequences

CONSTANTS
    Plan,            \* all deploy steps in their order: a sequence of StepKinds
    Late,            \* the steps that the agent brings along
    Asked,           \* the steps that the request adds
    Abortable,       \* the steps declared with abortable=True
    Instances,
    None,            \* no instance
    ProvisionInMaintenance, \* [conductor]allow_provisioning_in_maintenance
    Trouble,         \* what may go wrong, a subset of Troubles
    MaxDeploys,      \* bound: deployments that are started
    MaxCrashes,      \* bound: conductor crashes
    MaxMismatches    \* bound: VERSION_MISMATCH answers of the agent

(* sync    out of band, returns None                                       *)
(* boot    boots the ramdisk (deploy.deploy)                               *)
(* inband  runs in the agent, returns DEPLOYWAIT                           *)
(* reboot  the same, and asks for a reboot when it is done                 *)
(* poll    changes the BMC, reboots; the driver polls for its end          *)
(* down    shuts the agent down (deploy.tear_down_agent)                   *)
(* hold    the reserved step                                               *)
StepKinds == {"sync", "boot", "inband", "reboot", "poll", "down", "hold"}

Steps == 1..Len(Plan)

(* no worker       _spawn_worker may raise NoFreeConductorWorker           *)
(* lock taken      somebody else may have the lock when a recovery asks    *)
(* maintenance     the operator may put the node in maintenance            *)
(* agent restarts  an agent that restarts may heartbeat again              *)
(* fast track      prepare may find that the agent is not running          *)
(* quick job       a job may be over before the agent has booted           *)
(* leftovers       a job, or its message, may outlive its deployment       *)
(* tear down fails an error of the driver, or of removing the VIFs, or both *)
(* tear down breaks off   an error after the tear down, of the allocation  *)
(*                 that is destroyed or the runbook for the cleaning       *)
(* abort on hold   the operator may abort in DEPLOYHOLD                    *)
(* restart, takeover   what may follow the death of a conductor            *)
(* passed over     a recovery may not come to the node                     *)
Troubles == {"no worker", "lock taken", "maintenance", "agent restarts", "fast track",
             "quick job", "leftovers", "tear down fails",
             "tear down breaks off", "abort on hold",
             "restart", "takeover", "passed over"}
May(trouble) == trouble \in Trouble

ASSUME DeploymentAssumption ==
    /\ Plan \in Seq(StepKinds) /\ Plan # <<>>
    /\ Late \subseteq Steps /\ Asked \subseteq Steps /\ Abortable \subseteq Steps
    /\ None \notin Instances
    /\ ProvisionInMaintenance \in BOOLEAN
    /\ Trouble \subseteq Troubles
    /\ MaxDeploys \in Nat /\ MaxCrashes \in Nat /\ MaxMismatches \in Nat

VARIABLES
    node,       \* the row of the node
    lock,       \* its reservation: free, held, or left by a dead conductor
    pc,         \* what the holder of the lock does next
    at,         \* the index in the list that do_next_deploy_step has reached
    agent,      \* the ramdisk: is it up, and its last command
    job,        \* a job of the BMC that the driver polls
    casts,      \* continue_node_deploy messages that wait for the lock
    recover,    \* a recovery that has freed the lock and is not finished;
                \* down: its conductor has died, too
    over,       \* history: the steps that are really over since the request
    tenants,    \* history: the instances deployed since the last cleaning
    aborted,    \* history: this deployment was asked to abort
    deploys, crashes, mismatches    \* counters for the bounds

history == <<over, tenants, aborted>>
counters == <<deploys, crashes, mismatches>>
vars == <<node, lock, pc, at, agent, job, casts, recover, history, counters>>

Up == {"fresh", "busy", "ok", "failed", "mismatch"}

TypeOK ==
    /\ node \in [state : {"available", "active", "deleting", "error", "cleaning"}
                         \cup DeployStates,
                 instance : Instances \cup {None},
                 maintenance : BOOLEAN,
                 step : {0} \cup Steps,      \* deploy_step; 0: empty
                 abortAfter : BOOLEAN,       \* deploy_step['abort_after']
                 index : {0} \cup Steps,     \* deploy_step_index + 1; 0: absent
                 steps : SUBSET Steps,       \* deploy_steps
                 asked : BOOLEAN,            \* user_deploy_steps is set
                 cached : BOOLEAN,           \* agent_cached_deploy_steps is set
                 validated : BOOLEAN,        \* steps_validated
                 skip : BOOLEAN,             \* skip_current_deploy_step
                 polling : BOOLEAN,          \* deployment_polling
                 rebooting : BOOLEAN]        \* deployment_reboot
    /\ lock \in {"free", "held", "dead"}
    /\ pc \in {"idle", "start", "continue", "next", "execute", "park", "finish",
               "abort", "cleanup", "delete"}
    /\ at \in {0} \cup Steps
    /\ agent \in [is : {"off", "booting"} \cup Up, cmd : {0} \cup Steps]
    /\ job \in [step : {0} \cup Steps, over : BOOLEAN]
    /\ casts \in Nat
    /\ recover \in {"no", "boot", "orphan", "down"}
    /\ over \subseteq Steps
    /\ tenants \subseteq Instances
    /\ aborted \in BOOLEAN
    /\ deploys \in 0..MaxDeploys
    /\ crashes \in 0..MaxCrashes
    /\ mismatches \in 0..MaxMismatches

NoJob == [step |-> 0, over |-> FALSE]
Off == [is |-> "off", cmd |-> 0]
Booting == [is |-> "booting", cmd |-> 0]

Init ==
    /\ node = [state |-> "available", instance |-> None, maintenance |-> FALSE,
               step |-> 0, abortAfter |-> FALSE, index |-> 0, steps |-> {},
               asked |-> FALSE, cached |-> FALSE, validated |-> FALSE,
               skip |-> TRUE, polling |-> FALSE, rebooting |-> FALSE]
    /\ lock = "free" /\ pc = "idle" /\ at = 0
    /\ agent = Off /\ job = NoJob /\ casts = 0 /\ recover = "no"
    /\ over = {} /\ tenants = {} /\ aborted = FALSE
    /\ deploys = 0 /\ crashes = 0 /\ mismatches = 0

----------------------------------------------------------------------------
(* The row of the node *)

Fired(n, event) == [n EXCEPT !.state = Successor(n.state, event)]

WithoutStep(n) == [n EXCEPT !.step = 0, !.abortAfter = FALSE]

\* wipe_deploy_internal_info.  The token and the URL of the agent go too, so
\* that a ramdisk that still runs is as good as off.
Wiped(n) ==
    [n EXCEPT !.index = 0, !.steps = {}, !.asked = FALSE, !.cached = FALSE,
              !.validated = FALSE, !.skip = TRUE, !.polling = FALSE,
              !.rebooting = FALSE]

\* deploying_error_handler: DEPLOYFAIL has no event "fail", and the node is
\* saved before it is refused.
Failed(n) ==
    LET m == WithoutStep(Wiped(n))
    IN  IF Allowed(m.state, "fail") THEN Fired(m, "fail") ELSE m

\* What the worker of _do_node_tear_down leaves in any case.
Bare(n) == [WithoutStep(Wiped(n)) EXCEPT !.instance = None, !.step = n.step,
                                         !.abortAfter = n.abortAfter]

\* The steps that are known for the node, as _get_all_deployment_steps finds
\* them: those of the agent once it has been asked for them.
Known(n) ==
    {k \in Steps : (k \in Late => n.cached) /\ (k \in Asked => n.asked)}

\* The step with a given index in a list of steps.
StepAt(list, i) == CHOOSE k \in list : Cardinality({j \in list : j <= k}) = i

\* _get_node_next_steps: 0 when there is nothing left to do.
NextIndexOffByOne(n) ==                                          \* faulty
    IF n.step = 0 THEN 1
    ELSE IF n.index + 2 <= Cardinality(n.steps) THEN n.index + 2 ELSE 0
NextIndexRepeats(n) ==                                           \* faulty
    IF n.step = 0 THEN 1 ELSE n.index
NextIndex(n) ==
    LET i == IF n.skip THEN n.index + 1 ELSE n.index
    IN  IF n.step = 0 THEN 1
        ELSE IF n.index # 0 /\ i <= Cardinality(n.steps) THEN i ELSE 0

----------------------------------------------------------------------------
(* The lock *)

Acquire(what) == lock = "free" /\ lock' = "held" /\ pc' = what /\ at' = 0
Release == lock' = "free" /\ pc' = "idle" /\ at' = 0
Stay(what, i) == lock' = lock /\ pc' = what /\ at' = i

\* A handler that takes the lock and gives it back before it returns.
Briefly == lock = "free" /\ UNCHANGED <<lock, pc, at>>

Working(what) == lock = "held" /\ pc = what

----------------------------------------------------------------------------
(* Requests of the operator.  A request whose worker cannot be spawned     *)
(* leaves the node as it was (provisioning_error_handler): it is a stutter.*)

\* The scheduler claims the node: update_node sets instance_uuid.  A node
\* that has failed may be claimed as well.
ClaimAgain(i) ==                                                 \* faulty
    /\ Briefly
    /\ node.state \in {"available", "deploy failed", "error"}
    /\ node' = [node EXCEPT !.instance = i]
    /\ UNCHANGED <<agent, job, casts, recover, history, counters>>
Claim(i) ==
    /\ Briefly
    /\ node.state \in {"available", "deploy failed", "error"}
    /\ node.instance = None
    /\ node' = [node EXCEPT !.instance = i]
    /\ UNCHANGED <<agent, job, casts, recover, history, counters>>

\* do_node_deploy, with rebuild where that is what the state needs.  Use
\* without an instance_uuid is left out.
DoNodeDeploy ==
    /\ deploys < MaxDeploys
    /\ ~node.maintenance /\ node.instance # None
    /\ \E event \in {"deploy", "rebuild"} :
         Allowed(node.state, event) /\ node' = Fired(node, event)
    /\ Acquire("start")
    /\ over' = {} /\ aborted' = FALSE
    /\ tenants' = tenants \cup {node.instance}
    /\ deploys' = deploys + 1
    /\ IF May("leftovers") THEN UNCHANGED <<job, casts>> ELSE job' = NoJob /\ casts' = 0
    /\ UNCHANGED <<agent, recover, crashes, mismatches>>

\* do_node_tear_down
DoNodeTearDown ==
    /\ Allowed(node.state, "delete")
    /\ node' = Fired(node, "delete")
    /\ Acquire("delete")
    /\ UNCHANGED <<agent, job, casts, recover, history, counters>>

Unhold ==
    /\ Briefly
    /\ node.state = "deploy hold"
    /\ node' = Fired(node, "unhold")
    /\ UNCHANGED <<agent, job, casts, recover, history, counters>>

\* _do_abort in DEPLOYWAIT: at once if the step allows it, else after it.
DoAbort ==
    /\ node.state = "wait call-back"
    /\ aborted' = TRUE
    /\ IF node.step # 0 /\ node.step \notin Abortable
       THEN Briefly /\ node' = [node EXCEPT !.abortAfter = TRUE]
       ELSE Acquire("abort") /\ node' = Fired(node, "abort")
    /\ UNCHANGED <<agent, job, casts, recover, over, tenants, counters>>

\* _do_abort in DEPLOYHOLD: the worker is that of the tear down.
DoAbortOnHold ==
    /\ May("abort on hold")
    /\ node.state = "deploy hold"
    /\ aborted' = TRUE
    /\ Acquire("delete") /\ node' = Fired(node, "abort")
    /\ UNCHANGED <<agent, job, casts, recover, over, tenants, counters>>

UpdateMaintenance ==
    /\ Briefly
    /\ node.maintenance \/ May("maintenance")
    /\ node' = [node EXCEPT !.maintenance = ~@]
    /\ UNCHANGED <<agent, job, casts, recover, history, counters>>

----------------------------------------------------------------------------
(* The worker *)

\* A worker that ends in deploying_error_handler.
WorkerFails ==
    node' = Failed(node) /\ agent' = Off /\ Release

\* do_node_deploy: deploy.prepare powers the node off, and the list is made
\* without the steps of the agent.
StartDeployment ==
    /\ Working("start")
    /\ LET n == [WithoutStep(Wiped(node)) EXCEPT !.asked = TRUE]
       IN  \/ /\ Known(n) # {}
              /\ node' = [n EXCEPT !.steps = Known(n)]
              /\ agent' = Off /\ Stay("next", 1)
           \/ \* AgentConnectionFailed comes before the request is saved
              /\ May("fast track")
              /\ node' = Fired([Wiped(node) EXCEPT !.asked = FALSE], "wait")
              /\ agent' = Booting /\ Release
           \/ WorkerFails
    /\ UNCHANGED <<job, casts, recover, history, counters>>

\* validate_deploy_steps, on the first continuation.
Validated(n) ==
    IF n.validated THEN n ELSE [n EXCEPT !.steps = Known(n), !.validated = TRUE]

\* continue_node_deploy
ContinueIgnoringAbort ==                                         \* faulty
    /\ Working("continue")
    /\ LET v == Validated(node)
           i == NextIndex(v)
       IN  /\ node' = [v EXCEPT !.skip = TRUE, !.polling = FALSE]
           /\ agent' = agent /\ Stay(IF i # 0 THEN "next" ELSE "finish", i)
    /\ UNCHANGED <<job, casts, recover, history, counters>>
ContinueDeployment ==
    /\ Working("continue")
    /\ LET v == Validated(node)
           n == [v EXCEPT !.skip = TRUE, !.polling = FALSE]
           i == NextIndex(v)
       IN  \/ /\ ~n.abortAfter
              /\ node' = n /\ agent' = agent
              /\ Stay(IF i # 0 THEN "next" ELSE "finish", i)
           \/ \* the operator has asked to abort after this step
              /\ n.abortAfter
              /\ node' = Fired(n, "fail") /\ agent' = agent
              /\ Stay("abort", 0)
           \/ \* the validation fails; it does when a step that was asked
              \* for is one of an agent that has not been seen yet
              /\ ~node.validated /\ WorkerFails
    /\ node.validated \/ node.cached \/ Asked \cap Late = {} \/ node' = Failed(node)
    /\ UNCHANGED <<job, casts, recover, history, counters>>

\* do_next_deploy_step saves the step it is about to run ...
NextDeployStep ==
    /\ Working("next")
    /\ IF at <= Cardinality(node.steps)
       THEN /\ node' = [node EXCEPT !.step = StepAt(node.steps, at), !.index = at,
                                    !.abortAfter = FALSE, !.polling = FALSE]
            /\ Stay("execute", at)
       ELSE Stay("finish", 0) /\ UNCHANGED node
    /\ UNCHANGED <<agent, job, casts, recover, history, counters>>

Executing(kinds) == Working("execute") /\ Plan[node.step] \in kinds

\* ... and what follows a step that has returned None.
AdvancePastEnd ==                                                \* faulty
    IF at <= Cardinality(node.steps) THEN Stay("next", at + 1) ELSE Stay("finish", 0)
Advance ==
    IF at < Cardinality(node.steps) THEN Stay("next", at + 1) ELSE Stay("finish", 0)

ExecuteSync ==
    /\ Executing({"sync"})
    /\ over' = over \cup {node.step}
    /\ Advance
    /\ UNCHANGED <<node, agent, job, casts, recover, tenants, aborted, counters>>

ExecuteFails ==
    /\ Executing(StepKinds \ {"hold"})
    /\ WorkerFails
    /\ UNCHANGED <<job, casts, recover, history, counters>>

\* deploy.deploy: a step before it may have rebooted the node already.
ExecuteBoot ==
    /\ Executing({"boot"})
    /\ agent' = IF node.rebooting THEN agent ELSE Booting
    /\ node' = [node EXCEPT !.rebooting = FALSE]
    /\ over' = over \cup {node.step}
    /\ Stay("park", 0)
    /\ UNCHANGED <<job, casts, recover, tenants, aborted, counters>>

ExecuteDown ==
    /\ Executing({"down"})
    /\ agent' = Off
    /\ over' = over \cup {node.step}
    /\ Advance
    /\ UNCHANGED <<node, job, casts, recover, tenants, aborted, counters>>

\* An agent that is busy, that has not come back from a reboot, or that has
\* not told its URL yet will be asked for the same step again.
ExecuteInAgent ==
    /\ Executing({"inband", "reboot"})
    /\ Stay("park", 0)
    /\ \/ /\ agent.is \in Up \ {"busy"} /\ node.cached
          /\ agent' = [is |-> "busy", cmd |-> node.step]
          /\ UNCHANGED node
       \/ /\ \/ agent.is = "busy"
             \/ agent.is \notin Up /\ node.rebooting
             \/ ~node.cached
          /\ node' = [node EXCEPT !.skip = FALSE]
          /\ UNCHANGED agent
    /\ UNCHANGED <<job, casts, recover, history, counters>>

\* A step that changes the BMC and reboots the node: set_node_flags.
ExecutePolled ==
    /\ Executing({"poll"})
    /\ job' = [step |-> node.step, over |-> FALSE]
    /\ agent' = Booting
    /\ node' = [node EXCEPT !.skip = TRUE, !.polling = TRUE, !.rebooting = TRUE]
    /\ Stay("park", 0)
    /\ UNCHANGED <<casts, recover, history, counters>>

ExecuteHold ==
    /\ Executing({"hold"})
    /\ over' = over \cup {node.step}
    /\ node' = Fired(node, "hold")
    /\ Release
    /\ UNCHANGED <<agent, job, casts, recover, tenants, aborted, counters>>

Park ==
    /\ Working("park")
    /\ node' = Fired(node, "wait")
    /\ Release
    /\ UNCHANGED <<agent, job, casts, recover, history, counters>>

FinishDeployment ==
    /\ Working("finish")
    /\ node' = Fired(WithoutStep(Wiped(node)), "done")
    /\ agent' = Off
    /\ Release
    /\ UNCHANGED <<job, casts, recover, history, counters>>

\* do_node_deploy_abort and cleanup_after_timeout, in DEPLOYFAIL already.
CleanUpDeployment ==
    /\ Working("abort") \/ Working("cleanup")
    /\ WorkerFails
    /\ UNCHANGED <<job, casts, recover, history, counters>>

\* _do_node_tear_down.  The event of an abort on hold has led to DEPLOYFAIL,
\* where neither "clean" nor "fail" is allowed.  An error that comes after the
\* one of the driver is met in ERROR, and the row is not saved a second time;
\* one that comes later ends the worker and nothing else.
Tried(n, event) == IF Allowed(n.state, event) THEN Fired(n, event) ELSE n
TearDown ==
    /\ Working("delete")
    /\ \/ node' = Tried(Bare(node), "clean") /\ agent' = Off
       \/ /\ May("tear down fails")
          /\ \/ node' = Tried(Bare(node), "fail") /\ agent' = Off
             \/ node' = Tried(node, "fail") /\ agent' \in {agent, Off}
       \/ May("tear down breaks off") /\ node' = Bare(node) /\ agent' = Off
    /\ Release
    /\ UNCHANGED <<job, casts, recover, history, counters>>

\* The cleaning that the tear down goes on with, see Cleaning.
CleaningEnds ==
    /\ Briefly
    /\ node.state = "cleaning"
    /\ node' = Fired(node, "done")
    /\ tenants' = {}
    /\ UNCHANGED <<agent, job, casts, recover, over, aborted, counters>>

----------------------------------------------------------------------------
(* Heartbeats of the agent: the lock is not waited for (retry=False). *)

Heartbeat == lock = "free" /\ agent.is \in Up /\ node.state = "wait call-back"

HeartbeatFails ==
    /\ Heartbeat
    /\ node' = Failed(node) /\ agent' = Off
    /\ UNCHANGED <<lock, pc, at, job, casts, recover, history, counters>>

\* _heartbeat_in_maintenance
HeartbeatInMaintenance == node.maintenance /\ ~ProvisionInMaintenance /\ HeartbeatFails

\* The agent reports a failure, of whatever step.
HeartbeatStepFailed ==
    ~node.maintenance /\ ~node.polling /\ agent.is = "failed" /\ HeartbeatFails

\* _heartbeat_deploy_wait: any exception.
HeartbeatBreaks ==
    ~node.maintenance /\ (~node.cached \/ ~node.polling) /\ HeartbeatFails

\* The first one asks for the steps of the agent, though a driver polls.
HeartbeatCaches ==
    /\ Heartbeat /\ ~node.maintenance /\ ~node.cached
    /\ node.polling \/ agent.is \in {"busy", "ok"}
    /\ node' = [node EXCEPT !.cached = TRUE]
    /\ UNCHANGED <<lock, pc, at, agent, job, casts, recover, history, counters>>

\* A heartbeat that resumes the deployment and keeps the lock for it.
HeartbeatContinues(n) ==
    /\ Heartbeat /\ ~node.maintenance /\ ~node.polling
    /\ node' = Fired([n EXCEPT !.cached = TRUE], "resume")
    /\ Acquire("continue")
    /\ UNCHANGED <<agent, job, casts, recover, history, counters>>

\* process_next_step: the agent has run no step since it booted.
HeartbeatFresh ==
    agent.is = "fresh" /\ HeartbeatContinues([node EXCEPT !.rebooting = FALSE])

\* process_next_step: the last command of the agent is the current step.
LastCommandIsStep == agent.is = "ok" /\ agent.cmd = node.step /\ node.step # 0

HeartbeatWhileBusy ==                                            \* faulty
    agent.is \in {"busy", "ok"} /\ HeartbeatContinues(node)
HeartbeatDone ==
    /\ LastCommandIsStep /\ Plan[node.step] # "reboot"
    /\ HeartbeatContinues(node)

\* _post_step_reboot
HeartbeatReboots ==
    /\ Heartbeat /\ ~node.maintenance /\ ~node.polling
    /\ LastCommandIsStep /\ Plan[node.step] = "reboot"
    /\ agent' = Booting
    /\ node' = [node EXCEPT !.rebooting = TRUE]
    /\ UNCHANGED <<lock, pc, at, job, casts, recover, history, counters>>

\* _process_version_mismatch resets the clean steps whatever the flow is, and
\* the deployment goes on after the step that was refused.
HeartbeatMismatch == agent.is = "mismatch" /\ HeartbeatContinues(node)

----------------------------------------------------------------------------
(* RPC and periodic tasks *)

\* ConductorManager.continue_node_deploy: a node in DEPLOYING is continued as
\* well.  spawn_deploying_error_handler only records the error.
ContinueNodeDeploy ==
    /\ casts > 0 /\ casts' = casts - 1
    /\ \/ /\ node.state \in {"wait call-back", "deploying"}
          /\ node' = IF node.state = "deploying" THEN node ELSE Fired(node, "resume")
          /\ Acquire("continue") \/ (May("no worker") /\ Briefly)
       \/ /\ node.state \notin {"wait call-back", "deploying"}
          /\ node' = node /\ Briefly
    /\ UNCHANGED <<agent, job, recover, history, counters>>

\* The driver finds the job of a polled step over.  The message names the
\* node, not the step.
QueryJobStatus ==
    /\ Briefly /\ node.state = "wait call-back"
    /\ job.step # 0 /\ job.over
    /\ node.cached \/ May("quick job")
    /\ job' = NoJob
    /\ casts' = casts + 1
    /\ UNCHANGED <<node, agent, recover, history, counters>>

\* _check_deploy_timeouts: without a worker the node is restored.
CheckDeployTimeouts ==
    /\ node.state = "wait call-back" /\ ~node.maintenance
    /\ node' = Fired(node, "fail")
    /\ Acquire("cleanup")
    /\ UNCHANGED <<agent, job, casts, recover, history, counters>>

----------------------------------------------------------------------------
(* A conductor dies with the lock, or in the middle of a recovery *)

Crash ==
    /\ crashes < MaxCrashes /\ crashes' = crashes + 1
    /\ \/ lock = "held" /\ lock' = "dead" /\ pc' = "idle" /\ at' = 0 /\ recover' = recover
       \/ recover \in {"boot", "orphan"} /\ recover' = "down" /\ UNCHANGED <<lock, pc, at>>
    /\ UNCHANGED <<node, agent, job, casts, history, deploys, mismatches>>

\* It comes back: prepare_host frees the node, and later in the start
\* _correct_stuck_states fails what is in DEPLOYING or DELETING.
Restart ==
    /\ May("restart") /\ recover \in {"no", "down"}
    /\ lock = "dead" \/ recover = "down"
    /\ lock' = (IF lock = "dead" THEN "free" ELSE lock) /\ recover' = "boot"
    /\ UNCHANGED <<node, pc, at, agent, job, casts, history, counters>>

StuckStatesOfDeployment == {"deploying"}                         \* faulty
StuckStates == {"deploying", "deleting"}

\* _fail_if_in_state may not come to the node: the hash ring maps it to another
\* conductor, periodic_max_workers nodes came first, or one of them raised.
PassedOver == May("passed over")

CorrectStuckStates ==
    /\ recover = "boot" /\ recover' = "no"
    /\ \/ /\ node.state \in StuckStates /\ lock = "free"
          /\ node' = Fired(node, "fail")
       \/ /\ \/ node.state \notin StuckStates \/ lock # "free"
             \/ May("lock taken") \/ PassedOver
          /\ node' = node
    /\ UNCHANGED <<lock, pc, at, agent, job, casts, history, counters>>

\* Another conductor takes over: _check_orphan_nodes frees the node, and
\* fails it later if it was in DEPLOYING and not in maintenance.
CheckOrphanNodes ==
    /\ May("takeover") /\ recover = "no"
    /\ lock = "dead" /\ lock' = "free"
    /\ recover' = IF node.state = "deploying" /\ ~node.maintenance THEN "orphan" ELSE "no"
    /\ UNCHANGED <<node, pc, at, agent, job, casts, history, counters>>

\* _fail_if_in_state with a worker that only records the error; without one
\* the state is restored.
CleanUpOrphan ==
    /\ recover = "orphan" /\ recover' = "no"
    /\ \/ node.state = "deploying" /\ lock = "free" /\ node' = Fired(node, "fail")
       \/ /\ \/ node.state # "deploying" \/ lock # "free"
             \/ May("lock taken") \/ May("no worker") \/ PassedOver
          /\ UNCHANGED node
    /\ UNCHANGED <<lock, pc, at, agent, job, casts, history, counters>>

----------------------------------------------------------------------------
(* The hardware *)

AgentBoots ==
    /\ agent.is = "booting"
    /\ agent' = [is |-> "fresh", cmd |-> 0]
    /\ UNCHANGED <<node, lock, pc, at, job, casts, recover, history, counters>>

AgentFinishes ==
    /\ agent.is = "busy"
    /\ \/ /\ agent' = [agent EXCEPT !.is = "ok"]
          /\ over' = over \cup {agent.cmd}
          /\ UNCHANGED mismatches
       \/ /\ agent' = [agent EXCEPT !.is = "failed"]
          /\ UNCHANGED <<over, mismatches>>
       \/ /\ mismatches < MaxMismatches /\ mismatches' = mismatches + 1
          /\ agent' = [agent EXCEPT !.is = "mismatch"]
          /\ UNCHANGED over
    /\ UNCHANGED <<node, lock, pc, at, job, casts, recover, tenants, aborted,
                   deploys, crashes>>

AgentLost ==
    /\ agent.is \in Up
    /\ agent' = Off \/ (May("agent restarts") /\ agent' = Booting)
    /\ UNCHANGED <<node, lock, pc, at, job, casts, recover, history, counters>>

JobFinishes ==
    /\ job.step # 0 /\ ~job.over
    /\ job' = [job EXCEPT !.over = TRUE]
    /\ over' = over \cup {job.step}
    /\ UNCHANGED <<node, lock, pc, at, agent, casts, recover, tenants, aborted, counters>>

----------------------------------------------------------------------------

Operator ==
    \/ \E i \in Instances : Claim(i)
    \/ DoNodeDeploy \/ DoNodeTearDown \/ Unhold \/ DoAbort \/ DoAbortOnHold
    \/ UpdateMaintenance

Worker ==
    \/ StartDeployment \/ ContinueDeployment \/ NextDeployStep
    \/ ExecuteSync \/ ExecuteFails \/ ExecuteBoot \/ ExecuteDown \/ ExecuteInAgent
    \/ ExecutePolled \/ ExecuteHold \/ Park \/ FinishDeployment \/ CleanUpDeployment
    \/ TearDown

Heartbeats ==
    \/ HeartbeatInMaintenance \/ HeartbeatStepFailed \/ HeartbeatCaches
    \/ HeartbeatFresh \/ HeartbeatDone \/ HeartbeatReboots \/ HeartbeatMismatch

Conductor == ContinueNodeDeploy \/ QueryJobStatus
Recover == Restart \/ CorrectStuckStates \/ CheckOrphanNodes \/ CleanUpOrphan
Hardware == AgentBoots \/ AgentFinishes \/ JobFinishes

Next ==
    \/ Operator \/ Worker \/ CleaningEnds \/ Heartbeats \/ Conductor \/ Recover
    \/ Hardware \/ HeartbeatBreaks \/ CheckDeployTimeouts \/ Crash \/ AgentLost

Spec == Init /\ [][Next]_vars

\* A silent node runs into the callback timeout: touch_provisioning puts it
\* off while there are heartbeats.
SilentTimeout == agent.is = "off" /\ CheckDeployTimeouts

Fairness ==
    /\ WF_vars(Worker) /\ WF_vars(Heartbeats) /\ WF_vars(Conductor)
    /\ WF_vars(Recover) /\ WF_vars(AgentBoots) /\ WF_vars(AgentFinishes)
    /\ WF_vars(JobFinishes) /\ WF_vars(SilentTimeout)

FairSpec == Spec /\ Fairness

----------------------------------------------------------------------------
(* Properties *)

\* A node that becomes ACTIVE has had every step of the drivers, of the
\* request and of the agent, to its end, and nothing of them still runs
\* (do_next_deploy_step with the list of validate_deploy_steps).
ActiveMeansDeployed ==
    [][node.state # "active" /\ node'.state = "active"
       => over = Steps /\ agent.is # "busy"]_vars

\* A node serves one instance between two cleanings: nobody is given what
\* somebody else has left on the disk (_do_node_tear_down, which forgets the
\* instance on the way to CLEANING).
NoLeftovers == Cardinality(tenants) <= 1

\* A step is started when all the ones before it are over, and nothing of
\* them still runs in the agent (update_next_step_index, process_next_step).
OneStepAfterTheOther ==
    [][Working("execute") /\ pc' # "execute" /\ lock' # "dead"
       => /\ \A k \in Steps : k < node.step => k \in over
          /\ agent.is = "busy" => agent.cmd = node.step]_vars

\* A node in DEPLOYING or DELETING is being worked on, or waits for a
\* recovery that has begun: neither state has a timeout.
DeploymentIsWorkedOn ==
    node.state \in {"deploying", "deleting"} => lock # "free" \/ recover # "no"

\* No step is started any more once abort has been accepted (_do_abort sets
\* abort_after, continue_node_deploy reads it).
AbortIsFinal == [][Working("next") /\ pc' = "execute" => ~aborted]_vars

\* A deployment ends, or stops at a hold step.
DeploymentEnds ==
    node.state \in {"deploying", "wait call-back"}
        ~> node.state \notin {"deploying", "wait call-back"}

=============================================================================

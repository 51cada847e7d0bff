------------------------------ MODULE Cleaning ------------------------------
(***************************************************************************)
(* The cleaning of one node, from MANAGEABLE to AVAILABLE (automated) or   *)
(* back to MANAGEABLE (manual).                                            *)
(*                                                                         *)
(* A cleaning is a list of steps that a worker thread runs one by one      *)
(* under the exclusive lock (conductor/cleaning.py).  A step that goes on  *)
(* without the conductor parks the node in CLEANWAIT and gives the lock    *)
(* up; the cleaning is then picked up again by                             *)
(*   - a heartbeat of the agent (drivers/modules/agent_base.py), which     *)
(*     finds the state of the step in the agent's last command;            *)
(*   - a driver that polls the BMC and sends continue_node_clean to the    *)
(*     conductor by RPC (redfish/raid.py), which waits for the lock;       *)
(* or ended by the operator (abort), by the callback timeout, by the       *)
(* maintenance flag, or by the recovery after a conductor has died.        *)
(*                                                                         *)
(* The lock is the abstract one of NodeLock: a holder, or the reservation  *)
(* that a dead conductor has left behind.                                  *)
(***************************************************************************)
EXTENDS ProvisionStates, Naturals, Sequences

CONSTANTS
    Plan,            \* the clean steps: a sequence of StepKinds
    Abortable,       \* the steps declared with abortable=True
    AutomatedClean,  \* values automated_clean may have on the node
    ProvisionInMaintenance, \* [conductor]allow_provisioning_in_maintenance
    Trouble,         \* what may go wrong, a subset of Troubles
    MaxCrashes,      \* bound: conductor crashes
    MaxCleans,       \* bound: cleanings that are started
    MaxMismatches    \* bound: VERSION_MISMATCH answers of the agent

(* sync    out of band, returns None                                       *)
(* inband  runs in the agent, returns CLEANWAIT                            *)
(* reboot  the same, and asks for a reboot when it is done                 *)
(* poll    changes the BMC, reboots; the driver polls for its end          *)
(* hold, wait, sleep   reserved steps; sleep is wait with "seconds"        *)
StepKinds == {"sync", "inband", "reboot", "poll", "hold", "wait", "sleep"}

Steps == 1..Len(Plan)

(* no worker       _spawn_worker may raise NoFreeConductorWorker           *)
(* lock taken      somebody else may have the lock when a recovery asks    *)
(*                 for it (a heartbeat, the power synchronization)         *)
(* maintenance     the operator may put the node in maintenance            *)
(* agent restarts  an agent that restarts may heartbeat again (its token   *)
(*                 is pregenerated and part of the ramdisk image)          *)
(* job fails       a job of the BMC may fail                               *)
(* restart, takeover   what may follow the death of a conductor            *)
(* passed over     a recovery may not come to the node                     *)
Troubles == {"no worker", "lock taken", "maintenance", "agent restarts", "job fails",
             "restart", "takeover", "passed over"}
May(trouble) == trouble \in Trouble

ASSUME CleaningAssumption ==
    /\ Plan \in Seq(StepKinds) /\ Plan # <<>>
    /\ Abortable \subseteq Steps
    /\ AutomatedClean \subseteq BOOLEAN
    /\ ProvisionInMaintenance \in BOOLEAN
    /\ Trouble \subseteq Troubles
    /\ MaxCrashes \in Nat /\ MaxCleans \in Nat /\ MaxMismatches \in Nat

VARIABLES
    node,       \* the row of the node
    lock,       \* its reservation: free, held, or left by a dead conductor
    pc,         \* what the holder of the lock does next
    at,         \* the step do_next_clean_step is about to start
    agent,      \* the ramdisk: is it up, and its last command
    job,        \* a job of the BMC that the driver polls
    casts,      \* continue_node_clean messages that wait for the lock
    recover,    \* a recovery that has freed the lock and is not finished
    flow,       \* history: the cleaning that has been asked for last
    executed,   \* history: the steps that are really over since then
    aborted,    \* history: it was asked to abort
    crashes, cleans, mismatches     \* counters for the bounds

history == <<flow, executed, aborted>>
counters == <<crashes, cleans, mismatches>>
vars == <<node, lock, pc, at, agent, job, casts, recover, history, counters>>

Up == {"fresh", "busy", "ok", "failed", "mismatch"}
Pcs == {"idle", "start", "continue", "next", "execute", "park", "asleep",
        "finish", "abort", "cleanup"}

TypeOK ==
    /\ node \in [state : {"manageable", "available"} \cup CleanStates,
                 target : {NoState, "manageable", "available"},
                 maintenance : BOOLEAN,
                 fault : BOOLEAN,            \* fault is CLEAN_FAILURE
                 step : {0} \cup Steps,      \* clean_step; 0: empty
                 abortAfter : BOOLEAN,       \* clean_step['abort_after']
                 index : {0} \cup Steps,     \* clean_step_index; 0: absent
                 loaded : BOOLEAN,           \* clean_steps is set
                 skip : BOOLEAN,             \* skip_current_clean_step
                 polling : BOOLEAN,          \* cleaning_polling
                 rebooting : BOOLEAN]        \* cleaning_reboot
    /\ lock \in {"free", "held", "dead"}
    /\ pc \in Pcs
    /\ at \in {0} \cup Steps
    /\ agent \in [is : {"off", "booting"} \cup Up, cmd : {0} \cup Steps]
    /\ job \in [step : {0} \cup Steps, over : BOOLEAN]
    /\ casts \in Nat
    /\ recover \in {"no", "boot", "orphan"}
    /\ flow \in {"none", "manual", "automated", "skipped"}
    /\ executed \subseteq Steps
    /\ aborted \in BOOLEAN
    /\ crashes \in 0..MaxCrashes
    /\ cleans \in 0..MaxCleans
    /\ mismatches \in 0..MaxMismatches

NoJob == [step |-> 0, over |-> FALSE]
Off == [is |-> "off", cmd |-> 0]
Booting == [is |-> "booting", cmd |-> 0]

Init ==
    /\ node = [state |-> "manageable", target |-> NoState, maintenance |-> FALSE,
               fault |-> FALSE, step |-> 0, abortAfter |-> FALSE, index |-> 0, loaded |-> FALSE,
               skip |-> TRUE, polling |-> FALSE, rebooting |-> FALSE]
    /\ lock = "free" /\ pc = "idle" /\ at = 0
    /\ agent = Off /\ job = NoJob /\ casts = 0 /\ recover = "no"
    /\ flow = "none" /\ executed = {} /\ aborted = FALSE
    /\ crashes = 0 /\ cleans = 0 /\ mismatches = 0

----------------------------------------------------------------------------
(* The row of the node *)

\* The row "n" after task.process_event(event, target_state=override).
Fired(n, event, override) ==
    LET row == AfterEvent(n.state, n.target, event, override, FALSE)
    IN  [n EXCEPT !.state = row.state, !.target = row.target]

\* The flow keeps its target: MANAGEABLE if that is what it is, or the default.
OwnTarget(n) == IF n.target = "manageable" THEN "manageable" ELSE NoState

ResumedLosingTarget(n) == Fired(n, "resume", NoState)   \* faulty
Resumed(n) == Fired(n, "resume", OwnTarget(n))

\* remove_node_flags
NoFlags(n) == [n EXCEPT !.skip = TRUE, !.polling = FALSE, !.rebooting = FALSE]

\* wipe_cleaning_internal_info: node.clean_step is not part of it.
Wiped(n) == [NoFlags(n) EXCEPT !.loaded = FALSE, !.index = 0]

WithoutStep(n) == [n EXCEPT !.step = 0, !.abortAfter = FALSE]

\* cleaning_error_handler with set_fail_state=False: the node is in a clean
\* state, and in maintenance if a step was being executed.
QuarantinedNever(n) == WithoutStep([NoFlags(n) EXCEPT !.index = 0])   \* faulty
Quarantined(n) ==
    WithoutStep([NoFlags(n) EXCEPT !.index = 0,
                                   !.maintenance = n.maintenance \/ n.step # 0,
                                   !.fault = n.fault \/ n.step # 0])

Failed(n) == Fired(Quarantined(n), "fail", OwnTarget(n))

\* tear_down_cleaning powers the node off, unless a clean step has failed.
TornDown(n) == IF n.fault THEN agent ELSE Off

\* _get_node_next_steps: 0 when there is nothing left to do.
NextIndexOffByOne(n) ==                                          \* faulty
    IF n.step = 0 THEN 1
    ELSE IF n.index = 0 THEN 0
    ELSE LET i == n.index + 2 IN IF i \in Steps THEN i ELSE 0
NextIndexUnbounded(n) ==                                         \* faulty
    IF n.step = 0 THEN 1
    ELSE IF n.index = 0 THEN 0 ELSE IF n.skip THEN n.index + 1 ELSE n.index
NextIndexRepeats(n) ==                                           \* faulty
    IF n.step = 0 THEN 1 ELSE n.index
NextIndex(n) ==
    IF n.step = 0 THEN 1
    ELSE IF n.index = 0 THEN 0
    ELSE LET i == IF n.skip THEN n.index + 1 ELSE n.index
         IN  IF i \in Steps THEN i ELSE 0

----------------------------------------------------------------------------
(* The lock *)

Acquire(what) == lock = "free" /\ lock' = "held" /\ pc' = what /\ at' = 0
Release == lock' = "free" /\ pc' = "idle" /\ at' = 0
Stay(what, k) == lock' = lock /\ pc' = what /\ at' = k

\* A handler that takes the lock and gives it back before it returns.
Briefly == lock = "free" /\ UNCHANGED <<lock, pc, at>>

Working(what) == lock = "held" /\ pc = what

----------------------------------------------------------------------------
(* Requests of the operator.  A request whose worker cannot be spawned     *)
(* leaves the node as it was (provisioning_error_handler): it is a stutter.*)

Begin(event, target, asked) ==
    /\ cleans < MaxCleans
    /\ node.state = "manageable"
    /\ Acquire("start")
    /\ node' = Fired(node, event, target)
    /\ flow' = asked /\ executed' = {} /\ aborted' = FALSE
    /\ cleans' = cleans + 1
    /\ UNCHANGED <<agent, job, casts, recover, crashes, mismatches>>

DoNodeClean == ~node.maintenance /\ Begin("clean", "manageable", "manual")
Provide ==
    /\ node.maintenance => ProvisionInMaintenance
    /\ Begin("provide", NoState, "automated")

Manage ==
    /\ Briefly
    /\ node.state \in {"clean failed", "available"}
    /\ node' = Fired(node, "manage", NoState)
    /\ UNCHANGED <<agent, job, casts, recover, history, counters>>

Unhold ==
    /\ Briefly
    /\ node.state = "clean hold"
    /\ node' = Fired(node, "unhold", NoState)
    /\ UNCHANGED <<agent, job, casts, recover, history, counters>>

\* _do_abort: at once if the step allows it, else after the step.
DoAbort ==
    /\ node.state \in {"clean wait", "clean hold"}
    /\ aborted' = TRUE
    /\ IF node.step # 0 /\ node.step \notin Abortable
       THEN Briefly /\ node' = [node EXCEPT !.abortAfter = TRUE]
       ELSE Acquire("abort") /\ node' = Fired(node, "abort", OwnTarget(node))
    /\ UNCHANGED <<agent, job, casts, recover, flow, executed, counters>>

UpdateMaintenance ==
    /\ Briefly
    /\ node.maintenance \/ May("maintenance")
    /\ node' = [node EXCEPT !.maintenance = ~@, !.fault = @ /\ ~node.maintenance]
    /\ UNCHANGED <<agent, job, casts, recover, history, counters>>

----------------------------------------------------------------------------
(* The worker *)

\* do_node_clean
StartCleaning ==
    /\ Working("start")
    /\ \/ \* automated cleaning is switched off
          /\ node.target # "manageable" /\ FALSE \in AutomatedClean
          /\ node' = Fired(WithoutStep(node), "done", NoState)
          /\ flow' = "skipped"
          /\ UNCHANGED agent
       \/ \* prepare_cleaning boots the ramdisk: wait for its heartbeat
          /\ TRUE \in AutomatedClean \/ node.target = "manageable"
          /\ node' = Fired([Wiped(node) EXCEPT !.loaded = node.target = "manageable"],
                           "wait", OwnTarget(node))
          /\ agent' = Booting
          /\ UNCHANGED flow
       \/ \* a validation or the preparation fails
          /\ node' = Failed(node)
          /\ agent' \in {agent, TornDown(node')}
          /\ UNCHANGED flow
    /\ Release
    /\ UNCHANGED <<job, casts, recover, executed, aborted, counters>>

\* continue_node_clean
ContinueIgnoringAbort ==                                         \* faulty
    /\ Working("continue")
    /\ LET n == [node EXCEPT !.skip = TRUE, !.polling = FALSE]
           i == NextIndex(node)
       IN  node' = n /\ agent' = agent /\ Stay(IF i # 0 THEN "next" ELSE "finish", i)
    /\ UNCHANGED <<job, casts, recover, history, counters>>
ContinueCleaning ==
    /\ Working("continue")
    /\ LET n == [node EXCEPT !.skip = TRUE, !.polling = FALSE]
           i == NextIndex(node)
       IN  \/ \* the operator has asked to abort after this step
              /\ n.step # 0 /\ n.abortAfter
              /\ node' = Fired(n, "fail", OwnTarget(n)) /\ agent' = agent
              /\ Stay("abort", 0)
           \/ /\ ~n.abortAfter /\ i # 0 /\ n.loaded
              /\ node' = n /\ agent' = agent /\ Stay("next", i)
           \/ \* the assertion of do_next_clean_step: no clean steps
              /\ ~n.abortAfter /\ i # 0 /\ ~n.loaded
              /\ node' = Failed(n) /\ agent' = TornDown(node') /\ Release
           \/ /\ ~n.abortAfter /\ i = 0
              /\ node' = n /\ agent' = agent /\ Stay("finish", 0)
    /\ UNCHANGED <<job, casts, recover, history, counters>>

\* do_next_clean_step saves the step it is about to run ...
NextCleanStep ==
    /\ Working("next")
    /\ node' = [node EXCEPT !.step = at, !.abortAfter = FALSE, !.index = at,
                            !.polling = FALSE]
    /\ Stay("execute", at)
    /\ UNCHANGED <<agent, job, casts, recover, history, counters>>

\* ... and what follows a step that has returned None.
Advance == IF at + 1 \in Steps THEN Stay("next", at + 1) ELSE Stay("finish", 0)

\* The steps that do not need the agent, and their failures.
ExecuteSync ==
    /\ Working("execute") /\ Plan[at] = "sync"
    /\ executed' = executed \cup {at}
    /\ Advance
    /\ UNCHANGED <<node, agent, job, casts, recover, flow, aborted, counters>>

ExecuteFails ==
    /\ Working("execute") /\ Plan[at] \in {"sync", "inband", "reboot", "poll"}
    /\ node' = Failed(node) /\ agent' = TornDown(node') /\ Release
    /\ UNCHANGED <<job, casts, recover, history, counters>>

\* execute_clean_step of an agent step.  An agent that is busy, or that has
\* not come back from a reboot yet, will be asked for the same step again.
ExecuteInAgent ==
    /\ Working("execute") /\ Plan[at] \in {"inband", "reboot"}
    /\ Stay("park", 0)
    /\ \/ /\ agent.is \in Up \ {"busy"}
          /\ agent' = [is |-> "busy", cmd |-> at]
          /\ UNCHANGED node
       \/ /\ agent.is = "busy" \/ (agent.is \notin Up /\ node.rebooting)
          /\ node' = [node EXCEPT !.skip = FALSE]
          /\ UNCHANGED agent
    /\ UNCHANGED <<job, casts, recover, history, counters>>

\* A step that changes the BMC and reboots the node: set_node_flags.
ExecutePolled ==
    /\ Working("execute") /\ Plan[at] = "poll"
    /\ job' = [step |-> at, over |-> FALSE]
    /\ agent' = Booting
    /\ node' = [node EXCEPT !.skip = TRUE, !.polling = TRUE, !.rebooting = TRUE]
    /\ Stay("park", 0)
    /\ UNCHANGED <<casts, recover, history, counters>>

\* The asynchronous steps go to CLEANWAIT, with the target of the flow.
Park ==
    /\ Working("park")
    /\ node' = Fired(node, "wait", OwnTarget(node))
    /\ Release
    /\ UNCHANGED <<agent, job, casts, recover, history, counters>>

\* use_reserved_step_handler: hold and wait, with the target of the automaton.
ExecuteReserved ==
    /\ Working("execute") /\ Plan[at] \in {"hold", "wait", "sleep"}
    /\ executed' = executed \cup {at}
    /\ node' = Fired(node, IF Plan[at] = "hold" THEN "hold" ELSE "wait", NoState)
    /\ IF Plan[at] = "sleep" THEN Stay("asleep", 0) ELSE Release
    /\ UNCHANGED <<agent, job, casts, recover, flow, aborted, counters>>

\* The worker has slept; it resumes the node and returns EXIT_STEPS.
WakeUp ==
    /\ Working("asleep")
    /\ node' = Fired(node, "resume", NoState)
    /\ Release
    /\ UNCHANGED <<agent, job, casts, recover, history, counters>>

\* The end of do_next_clean_step: tear down and leave the clean states.
FinishCleaning ==
    /\ Working("finish")
    /\ LET n == WithoutStep(Wiped(node))
       IN  \/ /\ agent' = TornDown(n)
              /\ node' = Fired(n, IF n.target = "manageable" THEN "manage" ELSE "done",
                               NoState)
           \/ /\ agent' = agent
              /\ node' = Failed(n)
    /\ Release
    /\ UNCHANGED <<job, casts, recover, history, counters>>

\* do_node_clean_abort: the node is in CLEANFAIL already.
AbortCleaning ==
    /\ Working("abort")
    /\ \/ node' = WithoutStep(Wiped(node)) /\ agent' = TornDown(node)
       \/ node' = Quarantined(node) /\ agent' = agent
    /\ Release
    /\ UNCHANGED <<job, casts, recover, history, counters>>

\* cleanup_cleanwait_timeout, abort_on_conductor_take_over
CleanUpFailed ==
    /\ Working("cleanup")
    /\ node' = Quarantined(node) /\ agent' = TornDown(node')
    /\ Release
    /\ UNCHANGED <<job, casts, recover, history, counters>>

----------------------------------------------------------------------------
(* Heartbeats of the agent: the lock is not waited for (retry=False). *)

Heartbeat == lock = "free" /\ agent.is \in Up

\* A heartbeat that ends in cleaning_error_handler.
HeartbeatFails ==
    /\ Heartbeat /\ UNCHANGED <<lock, pc, at>>
    /\ node' = Failed(node) /\ agent' = TornDown(node')
    /\ UNCHANGED <<job, casts, recover, history, counters>>

\* _heartbeat_in_maintenance: the node is left alone, or fails.  (A heartbeat
\* in CLEANING is only recorded.)
HeartbeatInMaintenance ==
    /\ node.maintenance /\ node.state = "clean wait" /\ ~ProvisionInMaintenance
    /\ HeartbeatFails

\* process_next_step: the agent reports a failure, of whatever step.
HeartbeatStepFailed ==
    /\ ~node.maintenance /\ node.state = "clean wait"
    /\ node.step # 0 /\ ~node.polling /\ agent.is = "failed"
    /\ HeartbeatFails

\* _heartbeat_clean_wait: any exception, for one that the agent cannot be
\* asked for its steps or for the state of its commands.
HeartbeatBreaks ==
    /\ ~node.maintenance /\ node.state = "clean wait"
    /\ node.step = 0 \/ ~node.polling
    /\ HeartbeatFails

\* A heartbeat that resumes the cleaning and keeps the lock for it.
HeartbeatContinues(n) ==
    /\ Heartbeat /\ ~node.maintenance /\ node.state = "clean wait"
    /\ node' = Resumed(n)
    /\ Acquire("continue")
    /\ UNCHANGED <<agent, job, casts, recover, history, counters>>

\* set_node_cleaning_steps
StepsSet(n) == [WithoutStep(n) EXCEPT !.index = 0, !.loaded = TRUE]

\* The ramdisk has booted: no step has been run.
HeartbeatFirst == node.step = 0 /\ HeartbeatContinues(StepsSet(node))

\* process_next_step: the agent has run no step since it booted.
HeartbeatFresh ==
    /\ node.step # 0 /\ ~node.polling /\ agent.is = "fresh"
    /\ HeartbeatContinues([node EXCEPT !.rebooting = FALSE])

\* process_next_step: the last command of the agent is the current step.
HeartbeatAnyDone ==                                              \* faulty
    /\ node.step # 0 /\ ~node.polling
    /\ agent.is = "ok" \/ agent.is = "busy"
    /\ HeartbeatContinues(node)
HeartbeatDone ==
    /\ node.step # 0 /\ ~node.polling
    /\ agent.is = "ok" /\ agent.cmd = node.step /\ Plan[node.step] # "reboot"
    /\ HeartbeatContinues(node)

\* _post_step_reboot
HeartbeatReboots ==
    /\ Heartbeat /\ ~node.maintenance /\ node.state = "clean wait"
    /\ node.step # 0 /\ ~node.polling
    /\ agent.is = "ok" /\ agent.cmd = node.step /\ Plan[node.step] = "reboot"
    /\ agent' = Booting
    /\ node' = [node EXCEPT !.rebooting = TRUE, !.polling = FALSE]
    /\ UNCHANGED <<lock, pc, at, job, casts, recover, history, counters>>

\* _process_version_mismatch: a manual cleaning repeats the step, an
\* automated one starts again from the first step.
HeartbeatMismatch ==
    /\ node.step # 0 /\ ~node.polling /\ agent.is = "mismatch"
    /\ HeartbeatContinues(IF node.target = "manageable"
                          THEN [node EXCEPT !.skip = FALSE] ELSE StepsSet(node))

----------------------------------------------------------------------------
(* RPC and periodic tasks *)

\* ConductorManager.continue_node_clean.  spawn_cleaning_error_handler only
\* records the error when there is no worker for it.
ContinueNodeClean ==
    /\ casts > 0 /\ casts' = casts - 1
    /\ \/ /\ node.state = "clean wait"
          /\ node' = Resumed(node) /\ Acquire("continue")
       \/ /\ node.state = "clean wait" /\ May("no worker")
          /\ node' = Resumed(node) /\ Briefly
       \/ node.state # "clean wait" /\ node' = node /\ Briefly
    /\ UNCHANGED <<agent, job, recover, history, counters>>

\* The driver finds the job of a polled step over.  The message names the
\* node, not the step; with no clean step set it goes to the deployment.
QueryJobStatus ==
    /\ Briefly /\ node.state = "clean wait"
    /\ job.step # 0 /\ job.over
    /\ job' = NoJob
    /\ casts' = IF node.step # 0 THEN casts + 1 ELSE casts
    /\ UNCHANGED <<node, agent, recover, history, counters>>

DiscardFailedJob ==
    /\ Briefly /\ node.state = "clean failed" /\ node.maintenance
    /\ job.step # 0 /\ job' = NoJob
    /\ UNCHANGED <<node, agent, casts, recover, history, counters>>

\* _check_cleanwait_timeouts: the state is saved before the worker exists,
\* and no error handler is given for the case that there is none.
CheckCleanwaitTimeouts ==
    /\ node.state = "clean wait" /\ ~node.maintenance
    /\ node' = Fired(node, "fail", node.target)
    /\ Acquire("cleanup") \/ (May("no worker") /\ Briefly)
    /\ UNCHANGED <<agent, job, casts, recover, history, counters>>

----------------------------------------------------------------------------
(* A conductor dies with the lock, or in the middle of a recovery *)

Crash ==
    /\ crashes < MaxCrashes /\ crashes' = crashes + 1
    /\ \/ lock = "held" /\ lock' = "dead" /\ pc' = "idle" /\ at' = 0 /\ recover' = recover
       \/ recover # "no" /\ recover' = "no" /\ UNCHANGED <<lock, pc, at>>
    /\ UNCHANGED <<node, agent, job, casts, history, cleans, mismatches>>

\* It comes back: prepare_host frees the node, and later in the start
\* _correct_stuck_states fails what is in CLEANING and not reserved.
Restart ==
    /\ May("restart") /\ recover = "no"
    /\ lock = "dead" /\ lock' = "free" /\ recover' = "boot"
    /\ UNCHANGED <<node, pc, at, agent, job, casts, history, counters>>

\* _fail_if_in_state may not come to the node: the hash ring maps it to another
\* conductor, periodic_max_workers nodes came first, or one of them raised.
PassedOver == May("passed over")

CorrectStuckStates ==
    /\ recover = "boot" /\ recover' = "no"
    /\ \/ /\ node.state = "cleaning" /\ lock = "free"
          /\ node' = Fired(node, "fail", NoState)
       \/ /\ \/ node.state # "cleaning" \/ lock # "free"
             \/ May("lock taken") \/ PassedOver
          /\ node' = node
    /\ UNCHANGED <<lock, pc, at, agent, job, casts, history, counters>>

\* Another conductor takes over: _check_orphan_nodes frees the node, and
\* fails it later if it was in CLEANING and not in maintenance.
CheckOrphanNodes ==
    /\ May("takeover") /\ recover = "no"
    /\ lock = "dead" /\ lock' = "free"
    /\ recover' = IF node.state = "cleaning" /\ ~node.maintenance THEN "orphan" ELSE "no"
    /\ UNCHANGED <<node, pc, at, agent, job, casts, history, counters>>

OrphanReleasedOnly ==                                            \* faulty
    /\ recover = "orphan" /\ recover' = "no"
    /\ UNCHANGED <<node, lock, pc, at, agent, job, casts, history, counters>>
CleanUpOrphan ==
    /\ recover = "orphan" /\ recover' = "no"
    /\ \/ /\ node.state = "cleaning"
          /\ node' = Fired(node, "fail", NoState) /\ Acquire("cleanup")
       \/ \* it has changed, or it is locked, or there is no worker
          /\ \/ node.state # "cleaning" \/ lock # "free"
             \/ May("lock taken") \/ May("no worker") \/ PassedOver
          /\ UNCHANGED <<node, lock, pc, at>>
    /\ UNCHANGED <<agent, job, casts, history, counters>>

----------------------------------------------------------------------------
(* The hardware *)

AgentBoots ==
    /\ agent.is = "booting"
    /\ agent' = [is |-> "fresh", cmd |-> 0]
    /\ UNCHANGED <<node, lock, pc, at, job, casts, recover, history, counters>>

AgentFinishes ==
    /\ agent.is = "busy"
    /\ \/ /\ agent' = [agent EXCEPT !.is = "ok"]
          /\ executed' = executed \cup {agent.cmd}
          /\ UNCHANGED mismatches
       \/ /\ agent' = [agent EXCEPT !.is = "failed"]
          /\ UNCHANGED <<executed, mismatches>>
       \/ /\ mismatches < MaxMismatches /\ mismatches' = mismatches + 1
          /\ agent' = [agent EXCEPT !.is = "mismatch"]
          /\ UNCHANGED executed
    /\ UNCHANGED <<node, lock, pc, at, job, casts, recover, flow, aborted,
                   crashes, cleans>>

\* The ramdisk dies.  Without its token it cannot heartbeat any more.
AgentLost ==
    /\ agent.is \in Up
    /\ agent' = Off \/ (May("agent restarts") /\ agent' = Booting)
    /\ UNCHANGED <<node, lock, pc, at, job, casts, recover, history, counters>>

\* A job that fails is over too: _raid_config_in_progress logs an error.
JobFinishes ==
    /\ job.step # 0 /\ ~job.over
    /\ job' = [job EXCEPT !.over = TRUE]
    /\ executed' = executed \cup {job.step} \/ (May("job fails") /\ executed' = executed)
    /\ UNCHANGED <<node, lock, pc, at, agent, casts, recover, flow, aborted, counters>>

----------------------------------------------------------------------------

Operator == DoNodeClean \/ Provide \/ Manage \/ Unhold \/ DoAbort \/ UpdateMaintenance

Worker ==
    \/ StartCleaning \/ ContinueCleaning \/ NextCleanStep
    \/ ExecuteSync \/ ExecuteFails \/ ExecuteInAgent \/ ExecutePolled \/ ExecuteReserved
    \/ Park \/ WakeUp \/ FinishCleaning \/ AbortCleaning \/ CleanUpFailed

Heartbeats ==
    \/ HeartbeatInMaintenance \/ HeartbeatStepFailed
    \/ HeartbeatFirst \/ HeartbeatFresh \/ HeartbeatDone \/ HeartbeatReboots
    \/ HeartbeatMismatch

Conductor == ContinueNodeClean \/ QueryJobStatus \/ DiscardFailedJob
Recover == Restart \/ CorrectStuckStates \/ CheckOrphanNodes \/ CleanUpOrphan
Hardware == AgentBoots \/ AgentFinishes \/ JobFinishes

Next ==
    \/ Operator \/ Worker \/ Heartbeats \/ Conductor \/ Recover \/ Hardware
    \/ HeartbeatBreaks \/ CheckCleanwaitTimeouts \/ Crash \/ AgentLost

Spec == Init /\ [][Next]_vars

\* A silent node runs into the callback timeout: touch_provisioning puts it
\* off while there are heartbeats.
SilentTimeout == agent.is = "off" /\ CheckCleanwaitTimeouts

Fairness ==
    /\ WF_vars(Worker) /\ WF_vars(Heartbeats) /\ WF_vars(Conductor)
    /\ WF_vars(Recover) /\ WF_vars(AgentBoots) /\ WF_vars(AgentFinishes)
    /\ WF_vars(JobFinishes) /\ WF_vars(SilentTimeout)

FairSpec == Spec /\ Fairness

----------------------------------------------------------------------------
(* Properties *)

\* A manual cleaning gives the node back to the operator: it never makes it
\* available to be scheduled (do_next_clean_step, which chooses the last
\* event from target_provision_state).
ManualCleanReturns ==
    [][node.state # "available" /\ node'.state = "available" => flow # "manual"]_vars

\* A node that leaves an automated cleaning for AVAILABLE has had all its
\* steps, to their end, and nothing of them still runs (do_next_clean_step).
AvailableMeansCleaned ==
    [][node.state # "available" /\ node'.state = "available" /\ flow' = "automated"
       => executed = Steps /\ agent'.is # "busy"]_vars

\* A step is started when the ones before it are over, and none of them
\* still runs in the agent or in the BMC (_get_node_next_steps).
OneStepAfterTheOther ==
    [][Working("execute") /\ pc' # "execute" /\ lock' # "dead"
       => /\ \A k \in Steps : k < at => k \in executed
          /\ agent.is = "busy" => agent.cmd = at]_vars

\* A node in CLEANING is being worked on, or waits for a recovery that has
\* begun: nothing else would ever move it (there is no timeout for CLEANING).
CleaningIsWorkedOn == node.state = "cleaning" => lock # "free" \/ recover # "no"

\* A node that fails while the agent executes a step is left in maintenance
\* when the failure has been handled (cleaning_error_handler).
FailedStepIsQuarantined ==
    [][/\ node.state # "clean failed" \/ lock # "free"
       /\ node'.state = "clean failed" /\ lock' = "free"
       /\ agent'.is = "busy" /\ agent.cmd = node.step
       => node'.maintenance]_vars

\* No step is started any more once abort has been accepted (_do_abort sets
\* abort_after, continue_node_clean reads it).
AbortIsFinal == [][Working("next") /\ pc' = "execute" => ~aborted]_vars

\* A cleaning ends, or stops at a hold step.
CleaningEnds ==
    node.state \in {"cleaning", "clean wait"}
        ~> node.state \notin {"cleaning", "clean wait"}

=============================================================================
